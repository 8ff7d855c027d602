--------------------------- MODULE SendQueue_proofs ---------------------------
(***************************************************************************)
(* Proofs about the send pipeline: its types and who owns a row; what      *)
(* became of the parts of a message; how a row goes on, and that all of it *)
(* together implements the outbox.                                         *)
(***************************************************************************)
EXTENDS SendOutbox, TLAPS

\* A row in preparation is pinned, and a conversation is open only for an account.
PreparedIsPinned == \A i \in Items : row[i].stage # "send" => row[i].acct \in Accounts
OpenIsSignedIn == view.open # NoChat => account # NoAccount

TypeInv == TypeOK /\ PreparedIsPinned /\ OpenIsSignedIn

LEMMA SiblingType == \A i \in Items : Sibling(i) \in Items /\ Sibling(i) # i
  BY DEF Items, Sibling

LEMMA ChatType == \A i \in Items : ChatOf(i) \in Chats
  BY SendQueueAssumption DEF Items, ChatOf

LEMMA NewRowType ==
  ASSUME NEW stage \in {"gif", "forward", "send"}, NEW acct \in Accounts \cup {NoAccount},
         NEW fwd \in BOOLEAN
  PROVE  NewRow(stage, acct, fwd) \in Row
  BY DEF NewRow, Row

LEMMA BlankType == Blank \in Row
  BY NewRowType DEF Blank

LEMMA SpawnType ==
  ASSUME NEW i \in Items, NEW r \in Row,
         r.acct # NoAccount \/ account \in Accounts
  PROVE  SpawnRow(r) \in Row /\ SpawnJobs(i, r) \subseteq Job
  <1>1. SpawnRow(r) \in Row
    BY DEF SpawnRow, Row
  <1>2. account \in Accounts \/ r.acct \in Accounts
    BY DEF Row
  <1>3. SpawnJobs(i, r) \subseteq Job
    BY <1>2 DEF SpawnJobs, Sender, Job, Row
  <1> QED BY <1>1, <1>3

LEMMA TriedType ==
  ASSUME NEW r \in Row, NEW b \in BOOLEAN
  PROVE  /\ Tried(r, b) \in Row
         /\ Tried(r, b).stage = r.stage /\ Tried(r, b).acct = r.acct
         /\ Tried(r, b).job = r.job /\ Tried(r, b).dismissed = r.dismissed
         /\ ~(Tried(r, b).queued /\ Tried(r, b).failed)
  <1> DEFINE again == b /\ r.attempts + 1 < MaxAttempts
  <1>1. again \in BOOLEAN /\ r.attempts + 1 \in Nat
    BY DEF Row
  <1>2. Tried(r, b) = [r EXCEPT !.attempts = @ + 1, !.queued = again, !.failed = ~again]
    BY DEF Tried
  <1> HIDE DEF again
  <1> QED BY <1>1, <1>2 DEF Row

LEMMA RemoveType ==
  ASSUME TypeOK, PreparedIsPinned, NEW i \in Items, NEW b \in BOOLEAN, Remove(i, b)
  PROVE  pend' \subseteq Items /\ row' \in [Items -> Row] /\ PreparedIsPinned'
  <1>1. pend' \subseteq Items
    BY DEF Remove, TypeOK
  <1>2. \A j \in Items : row'[j] \in Row /\ (row'[j].stage # "send" => row'[j].acct \in Accounts)
    <2> TAKE j \in Items
    <2>1. CASE j = i
      BY <2>1, BlankType DEF Remove, Blank, NewRow
    <2>2. CASE j # i
      BY <2>2, ZenonT(30) DEF Remove, TypeOK, PreparedIsPinned, Row
    <2> QED BY <2>1, <2>2
  <1>3. row' \in [Items -> Row]
    BY <1>2 DEF Remove
  <1> QED BY <1>1, <1>2, <1>3 DEF PreparedIsPinned

LEMMA ChangedType ==
  ASSUME NEW r \in Row
  PROVE  /\ [r EXCEPT !.failed = TRUE] \in Row
         /\ [r EXCEPT !.dismissed = TRUE] \in Row
         /\ [r EXCEPT !.failed = FALSE, !.attempts = 0] \in Row
         /\ Flushed(r) \in Row
  BY DEF Row, Flushed

LEMMA CutType ==
  ASSUME NEW a \in Accounts, NEW r \in Row
  PROVE  [NewRow("send", a, TRUE) EXCEPT !.cut = r.cut] \in Row
  BY DEF Row, NewRow

LEMMA SaveType ==
  ASSUME NEW rows \in SUBSET Items, NEW fields \in [Items -> Row], SaveOffline(rows, fields)
  PROVE  disk' \subseteq Entry /\ torn' \in BOOLEAN
  <1>1. \A i \in rows : [item |-> i, attempts |-> fields[i].attempts] \in Entry
    BY DEF Entry, Row
  <1>2. Entries(rows, fields) \subseteq Entry
    BY <1>1 DEF Entries
  <1> QED BY <1>2 DEF SaveOffline

-----------------------------------------------------------------------------
(* Type correctness.                                                       *)

LEMMA TypeInit == Init => TypeInv
  <1> SUFFICES ASSUME Init PROVE TypeInv
    OBVIOUS
  <1>1. row \in [Items -> Row]
    BY BlankType DEF Init
  <1>2. view \in View /\ view.open = NoChat
    BY DEF Init, View, ClosedView
  <1>3. ghost \in Ghost
    BY DEF Init, Ghost
  <1>4. PreparedIsPinned
    BY DEF Init, PreparedIsPinned, Blank, NewRow
  <1> QED BY <1>1, <1>2, <1>3, <1>4 DEF Init, TypeInv, TypeOK, OpenIsSignedIn

\* The steps of the frame loop that settle what the workers brought.
LEMMA TypeFrame == TypeInv /\ Frame => TypeInv'
  <1> SUFFICES ASSUME TypeInv, Frame PROVE TypeInv'
    OBVIOUS
  <1> USE DEF TypeInv, TypeOK, OpenIsSignedIn, rowVars, mailVars, fileVars, outVars
  <1>1. ASSUME PageArrives PROVE TypeInv'
    BY <1>1 DEF PageArrives, View, PreparedIsPinned
  <1>2. ASSUME NEW i \in Items, UpdateArrives(i) PROVE TypeInv'
    BY <1>2 DEF UpdateArrives, View, PreparedIsPinned
  <1>3. ASSUME NEW i \in Items, PrepDismissed(i) PROVE TypeInv'
    <2>1. pend' \subseteq Items /\ row' \in [Items -> Row] /\ PreparedIsPinned'
      BY <1>3, RemoveType DEF PrepDismissed
    <2> QED BY <1>3, <2>1 DEF PrepDismissed
  <1>4. ASSUME NEW i \in Items, PrepFailed(i) PROVE TypeInv'
    <2> DEFINE broken == [row[i] EXCEPT !.failed = TRUE]
    <2>a. row' = [row EXCEPT ![i] = broken]
      BY <1>4 DEF PrepFailed
    <2>b. broken \in Row
      BY ChangedType
    <2>c. broken.stage = row[i].stage /\ broken.acct = row[i].acct
      BY DEF Row
    <2> HIDE DEF broken
    <2>1. row' \in [Items -> Row]
      BY <2>a, <2>b
    <2>2. PreparedIsPinned'
      BY <2>a, <2>c DEF PreparedIsPinned
    <2> QED BY <1>4, <2>1, <2>2 DEF PrepFailed
  <1>5. ASSUME NEW i \in Items, PrepSends(i) PROVE TypeInv'
    <2>1. row' \in [Items -> Row] /\ row'[i].acct \in Accounts
      BY <1>5 DEF PrepSends, Usable, Prepared, PreparedIsPinned, Row
    <2>2. PreparedIsPinned'
      BY <1>5 DEF PrepSends, PreparedIsPinned
    <2>3. sending' \subseteq Job
      BY <1>5, <2>1, SpawnType, SendQueueAssumption DEF PrepSends
    <2> QED BY <1>5, <2>1, <2>2, <2>3 DEF PrepSends
  <1>6. ASSUME NEW i \in Items, PrepSplits(i) PROVE TypeInv'
    <2> DEFINE caption == [NewRow("send", row[i].acct, TRUE) EXCEPT !.cut = row[i].cut]
    <2>1. row[i].acct \in Accounts /\ row[i].acct # NoAccount
      BY <1>6, SendQueueAssumption DEF PrepSplits, Usable, Prepared, PreparedIsPinned
    <2>a. caption \in Row
      BY <2>1, CutType
    <2>2. caption \in Row /\ caption.stage = "send" /\ caption.acct = row[i].acct
      BY <2>a DEF NewRow
    <2>3. row' \in [Items -> Row] /\ PreparedIsPinned' /\ row'[i].acct = row[i].acct
      BY <1>6, <2>2, SiblingType, ZenonT(30) DEF PrepSplits, PreparedIsPinned, Row
    <2>4. SpawnJobs(Sibling(i), caption) \subseteq Job
      BY <2>1, <2>2, SpawnType, SiblingType
    <2>5. SpawnJobs(i, row'[i]) \subseteq Job
      BY <2>1, <2>3, SpawnType
    <2>6. ghost' \in Ghost
      BY <1>6 DEF PrepSplits, Ghost, Items
    <2>7. pend' \subseteq Items /\ sending' \subseteq Job
      BY <1>6, <2>4, <2>5, SiblingType DEF PrepSplits
    <2> QED BY <1>6, <2>3, <2>6, <2>7 DEF PrepSplits
  <1>7. ASSUME TakeMailbox PROVE TypeInv'
    BY <1>7 DEF TakeMailbox, Goto, PreparedIsPinned
  <1>8. ASSUME NEW d \in batch, KeepPreview(d) PROVE TypeInv'
    BY <1>8 DEF KeepPreview, PreparedIsPinned, Done
  <1>9. ASSUME NEW d \in batch, SettleGone(d) PROVE TypeInv'
    <2>1. d \in Done /\ d.item \in Items /\ row[d.item].dismissed \in BOOLEAN
      BY DEF Done, Row
    <2>2. pend' \subseteq Items /\ row' \in [Items -> Row] /\ PreparedIsPinned'
      BY <1>9, <2>1, RemoveType DEF SettleGone
    <2>3. view' \in View /\ view'.open = view.open
      BY <1>9 DEF SettleGone, View
    <2>4. told' \subseteq Toast /\ hidden' \subseteq Items /\ ghost' \in Ghost
      BY <1>9, <2>1 DEF SettleGone, Toasts, Ghost
    <2> QED BY <1>9, <2>2, <2>3, <2>4 DEF SettleGone
  <1>10. ASSUME NEW d \in batch, SettleFailed(d) PROVE TypeInv'
    <2>1. d.item \in Items /\ d.retryable \in BOOLEAN
      BY DEF Done
    <2>2. \A r \in Row : Tried(r, d.retryable) \in Row /\ Tried(r, d.retryable).stage = r.stage
                        /\ Tried(r, d.retryable).acct = r.acct
      BY <2>1, TriedType
    <2> QED BY <1>10, <2>1, <2>2 DEF SettleFailed, PreparedIsPinned
  <1>11. ASSUME DrainEnds PROVE TypeInv'
    <2>1. disk' \subseteq Entry /\ torn' \in BOOLEAN
      BY <1>11, SaveType DEF DrainEnds
    <2>2. view' \in View /\ view'.open = view.open
      BY <1>11 DEF DrainEnds, Reopened, Received, View
    <2>3. ghost' \in Ghost
      BY <1>11 DEF DrainEnds, Ghost
    <2> QED BY <1>11, <2>1, <2>2, <2>3 DEF DrainEnds, Goto, PreparedIsPinned
  <1>12. ASSUME FlushQueued PROVE TypeInv'
    <2>a. \A i \in Items : Flushed(row[i]) \in Row
      BY ChangedType
    <2>1. \A i \in Items : Flushed(row[i]) \in Row /\ Flushed(row[i]).acct = row[i].acct
                         /\ Flushed(row[i]).stage = row[i].stage
      BY <2>a DEF Flushed, Row
    <2>2. account \in Accounts
      BY <1>12 DEF FlushQueued
    <2>3. \A i \in Items : SpawnRow(Flushed(row[i])) \in Row
                         /\ SpawnJobs(i, Flushed(row[i])) \subseteq Job
      BY <2>1, <2>2, SpawnType
    <2>4. row' \in [Items -> Row] /\ sending' \subseteq Job
      BY <1>12, <2>3 DEF FlushQueued
    <2>5. PreparedIsPinned'
      BY <1>12, <2>1 DEF FlushQueued, PreparedIsPinned, SpawnRow
    <2> QED BY <1>12, <2>4, <2>5 DEF FlushQueued, Goto
  <1>13. ASSUME TooEarly \/ Idle PROVE TypeInv'
    BY <1>13 DEF TooEarly, Idle, Goto, PreparedIsPinned
  <1> QED BY <1>1, <1>2, <1>3, <1>4, <1>5, <1>6, <1>7, <1>8, <1>9, <1>10, <1>11, <1>12, <1>13
          DEF Frame

\* What the user does.
LEMMA TypeUser == TypeInv /\ User => TypeInv'
  <1> SUFFICES ASSUME TypeInv, User PROVE TypeInv'
    OBVIOUS
  <1> USE DEF TypeInv, TypeOK, OpenIsSignedIn, rowVars, mailVars, fileVars, outVars
  <1>1. ASSUME NEW m \in Messages, NEW stage \in {"gif", "forward", "send"}, Compose(m, stage)
        PROVE  TypeInv'
    <2> DEFINE i == <<m, "body">>
               new == NewRow(stage, IF Kind[m] = "text" THEN NoAccount ELSE account,
                             Kind[m] = "forward")
    <2>1. account \in Accounts /\ i \in Items
      BY <1>1 DEF Compose, Items
    <2>2. new \in Row
      BY <2>1, NewRowType
    <2>3. new.stage # "send" => new.acct \in Accounts
      BY <1>1, <2>1 DEF Compose, Composer, Typed, PicksGif, Forwards, NewRow
    <2>4. SpawnRow(new) \in Row /\ SpawnJobs(i, new) \subseteq Job
      BY <2>1, <2>2, SpawnType
    <2>5. SpawnRow(new).acct = new.acct /\ SpawnRow(new).stage = new.stage
      BY <2>2 DEF SpawnRow, Row
    <2> HIDE DEF new
    <2>6. row' = [row EXCEPT ![i] = SpawnRow(new)] /\ sending' = sending \cup SpawnJobs(i, new)
          /\ pend' = pend \cup {i}
      BY <1>1 DEF Compose, new
    <2>7. row' \in [Items -> Row] /\ PreparedIsPinned'
      BY <2>1, <2>3, <2>4, <2>5, <2>6 DEF PreparedIsPinned
    <2>8. ghost' \in Ghost
      BY <1>1, <2>1 DEF Compose, Ghost
    <2> QED BY <1>1, <2>1, <2>4, <2>6, <2>7, <2>8 DEF Compose, Goto
  <1>2. ASSUME NEW i \in Items, Dismiss(i) PROVE TypeInv'
    <2>a. [row[i] EXCEPT !.dismissed = TRUE] \in Row
      BY ChangedType
    <2>b. row' = [row EXCEPT ![i] = [row[i] EXCEPT !.dismissed = TRUE]]
      BY <1>2 DEF Dismiss
    <2>c. row' \in [Items -> Row]
      BY <2>a, <2>b
    <2>1. row' \in [Items -> Row] /\ PreparedIsPinned'
      BY <2>b, <2>c DEF PreparedIsPinned, Row
    <2>2. disk' \subseteq Entry /\ torn' \in BOOLEAN
      BY <1>2, <2>1, SaveType DEF Dismiss
    <2>3. ghost' \in Ghost
      BY <1>2 DEF Dismiss, Ghost
    <2> QED BY <1>2, <2>1, <2>2, <2>3 DEF Dismiss, Goto
  <1>3. ASSUME NEW i \in Items, Delete(i) PROVE TypeInv'
    <2>1. pend' \subseteq Items /\ row' \in [Items -> Row] /\ PreparedIsPinned'
      BY <1>3, RemoveType DEF Delete
    <2>2. disk' \subseteq Entry /\ torn' \in BOOLEAN
      BY <1>3, <2>1, SaveType DEF Delete
    <2>3. ghost' \in Ghost
      BY <1>3 DEF Delete, Ghost
    <2> QED BY <1>3, <2>1, <2>2, <2>3 DEF Delete, Goto
  <1>4. ASSUME NEW i \in Items, Retry(i) PROVE TypeInv'
    <2> DEFINE fresh == [row[i] EXCEPT !.failed = FALSE, !.attempts = 0]
    <2>1. account \in Accounts
      BY <1>4, ChatType, SendQueueAssumption DEF Retry, Drawn
    <2>a. fresh \in Row
      BY ChangedType
    <2>2. fresh \in Row /\ fresh.acct = row[i].acct /\ fresh.stage = row[i].stage
      BY <2>a DEF Row
    <2>3. SpawnRow(fresh) \in Row /\ SpawnJobs(i, fresh) \subseteq Job
      BY <2>1, <2>2, SpawnType
    <2>4. row' = [row EXCEPT ![i] = SpawnRow(fresh)] /\ sending' = sending \cup SpawnJobs(i, fresh)
      BY <1>4 DEF Retry
    <2>5. row' \in [Items -> Row] /\ PreparedIsPinned'
      BY <2>2, <2>3, <2>4 DEF PreparedIsPinned, SpawnRow
    <2> QED BY <1>4, <2>3, <2>4, <2>5 DEF Retry, Goto
  <1>5. ASSUME NEW c \in Chats, SelectChat(c) PROVE TypeInv'
    BY <1>5 DEF SelectChat, Goto, Reopened, Received, View, PreparedIsPinned
  <1>6. ASSUME NEW a \in Accounts \cup {NoAccount}, SwitchAccount(a) PROVE TypeInv'
    BY <1>6 DEF SwitchAccount, Goto, ClosedView, View, PreparedIsPinned
  <1> QED BY <1>1, <1>2, <1>3, <1>4, <1>5, <1>6 DEF User

\* The worker threads.
LEMMA TypeWorkers == TypeInv /\ Workers => TypeInv'
  <1> SUFFICES ASSUME TypeInv, Workers PROVE TypeInv'
    OBVIOUS
  <1> USE DEF TypeInv, TypeOK, OpenIsSignedIn, rowVars, mailVars, fileVars, outVars
  <1>1. ASSUME NEW i \in Items, NEW outcome \in {"ready", "broken"}, PrepEnds(i, outcome)
        PROVE  TypeInv'
    BY <1>1 DEF PrepEnds, Row, PreparedIsPinned
  <1>2. ASSUME NEW w \in sending, NEW ok \in BOOLEAN, NEW retryable \in BOOLEAN,
               NEW arrived \in BOOLEAN, SendEnds(w, ok, retryable, arrived)
        PROVE  TypeInv'
    <2>1. w.item \in Items /\ w.acct \in Accounts
      BY DEF Job
    <2>2. done' \subseteq Done
      <3>1. [item |-> w.item, ok |-> ok, retryable |-> retryable, asked |-> FALSE] \in Done
        BY <2>1, Zenon DEF Done
      <3> QED BY <1>2, <3>1 DEF SendEnds
    <2>3. published' \subseteq Items \X Accounts
      BY <1>2, <2>1 DEF SendEnds
    <2> QED BY <1>2, <2>2, <2>3 DEF SendEnds, PreparedIsPinned
  <1> QED BY <1>1, <1>2 DEF Workers

LEMMA SessionEndsType == TypeInv /\ SessionEnds => pend' \subseteq Items /\ row' \in [Items -> Row]
                           /\ PreparedIsPinned' /\ view' \in View /\ view'.open = NoChat
                           /\ restarts' \in Nat
  <1> SUFFICES ASSUME TypeInv, SessionEnds
               PROVE  pend' \subseteq Items /\ row' \in [Items -> Row] /\ PreparedIsPinned'
                      /\ view' \in View /\ view'.open = NoChat /\ restarts' \in Nat
    OBVIOUS
  <1>1. row' \in [Items -> Row]
    BY BlankType DEF SessionEnds
  <1>2. PreparedIsPinned'
    BY DEF SessionEnds, PreparedIsPinned, Blank, NewRow
  <1>3. view' \in View /\ view'.open = NoChat
    BY DEF SessionEnds, ClosedView, View
  <1> QED BY <1>1, <1>2, <1>3 DEF SessionEnds, TypeInv, TypeOK

\* Locks, crashes and restarts.
LEMMA TypeSession == TypeInv /\ Session => TypeInv'
  <1> SUFFICES ASSUME TypeInv, Session PROVE TypeInv'
    OBVIOUS
  <1> USE DEF TypeInv, TypeOK, OpenIsSignedIn, rowVars, mailVars, fileVars, outVars
  <1>1. ASSUME Lock PROVE TypeInv'
    BY <1>1 DEF Lock, Goto, PreparedIsPinned
  <1>2. ASSUME SessionStops PROVE TypeInv'
    <2>1. SessionEnds /\ UNCHANGED fileVars
      BY <1>2 DEF SessionStops
    <2> QED BY <2>1, SessionEndsType DEF SessionEnds, Goto
  <1>3. ASSUME Crash PROVE TypeInv'
    <2>1. SessionEnds /\ disk' \subseteq Entry /\ torn' \in BOOLEAN
      BY <1>3 DEF Crash
    <2> QED BY <2>1, SessionEndsType DEF SessionEnds, Goto
  <1>4. ASSUME Unlock PROVE TypeInv'
    <2> DEFINE back == IF account # NoAccount THEN {e.item : e \in disk} ELSE {}
               Tries(i) == (CHOOSE e \in disk : e.item = i).attempts
    <2>1. back \subseteq Items
      BY DEF Entry
    <2>2. \A i \in back : Tries(i) \in Nat
      BY DEF Entry
    <2>3. \A i \in back : [Blank EXCEPT !.queued = TRUE, !.attempts = Tries(i)] \in Row
      BY <2>2, BlankType DEF Row
    <2>4. pend' = back /\ row' = [i \in Items |->
            IF i \in back THEN [Blank EXCEPT !.queued = TRUE, !.attempts = Tries(i)] ELSE Blank]
      BY <1>4 DEF Unlock
    <2> HIDE DEF back, Tries
    <2>5. row' \in [Items -> Row]
      BY <2>3, <2>4, BlankType
    <2>6. PreparedIsPinned'
      BY <2>4 DEF PreparedIsPinned, Blank, NewRow
    <2>7. torn' \in BOOLEAN
      BY <1>4 DEF Unlock
    <2> QED BY <1>4, <2>1, <2>4, <2>5, <2>6, <2>7 DEF Unlock, Goto
  <1> QED BY <1>1, <1>2, <1>3, <1>4 DEF Session

LEMMA TypeStep == TypeInv /\ [Next]_vars => TypeInv'
  <1> SUFFICES ASSUME TypeInv, [Next]_vars PROVE TypeInv'
    OBVIOUS
  <1>1. CASE UNCHANGED vars
    BY <1>1 DEF vars, TypeInv, TypeOK, PreparedIsPinned, OpenIsSignedIn
  <1> QED BY <1>1, TypeFrame, TypeUser, TypeWorkers, TypeSession DEF Next

LEMMA TypeInvariant == Spec => []TypeInv
  <1> QED BY TypeInit, TypeStep, PTL DEF Spec

\* The types hold for every number of messages, accounts, chats, tries and restarts;
\* in particular no worker of app/workers.odin publishes for the empty account.
THEOREM TypeCorrect == Spec => []TypeOK
  <1>1. TypeInv => TypeOK
    BY DEF TypeInv
  <1> QED BY <1>1, TypeInvariant, PTL

-----------------------------------------------------------------------------
(* Single ownership.                                                       *)

\* What single ownership says of one part.
Owned(i) ==
  /\ \A w \in sending : w.item = i => Active(i) /\ \A d \in done \cup batch : d.item # i
  /\ \A w, v \in sending : w.item = i /\ v.item = i => w = v
  /\ \A d \in done \cup batch : d.item = i => Active(i)
  /\ \A d, e \in done \cup batch : d.item = i /\ e.item = i => d = e
  /\ \A d \in done : d.item = i => d \notin batch
  /\ row[i].job = "running" => i \in pend /\ Preparing(i)
  /\ ~(row[i].queued /\ row[i].failed)

\* A row in preparation does not wait for the retry timer.
PreparingNotQueued == \A i \in Items : row[i].stage # "send" => ~row[i].queued

\* While the attachments of a forward are prepared its caption has no row.
CaptionFollows ==
  \A i \in Items : row[i].stage = "forward" => i[2] = "body" /\ <<i[1], "text">> \notin pend

\* Only what was composed has a row or an entry in the queue file.
OnlyComposed ==
  \A i \in Items : i \in pend \/ OnDisk(i) => ghost.author[i[1]] # NoAccount

LockedIsEmpty == phase = "locked" => pend = {}

OwnerInv ==
  TypeInv /\ SingleOwner /\ PreparingNotQueued /\ CaptionFollows /\ OnlyComposed /\ LockedIsEmpty

EveryOwned == \A i \in Items : Owned(i)

LEMMA OwnedPerItem == TypeOK => (SingleOwner <=> EveryOwned)
  <1> SUFFICES ASSUME TypeOK PROVE SingleOwner <=> \A i \in Items : Owned(i)
    BY DEF EveryOwned
  <1>1. \A w \in sending : w.item \in Items
    BY DEF TypeOK, Job
  <1>2. \A d \in done \cup batch : d.item \in Items
    BY DEF TypeOK, Done
  <1>3. ASSUME SingleOwner, NEW i \in Items PROVE Owned(i)
    BY <1>3 DEF SingleOwner, Owned, Landed
  <1>4. ASSUME \A i \in Items : Owned(i) PROVE SingleOwner
    BY <1>1, <1>2, <1>4 DEF SingleOwner, Owned, Landed
  <1> QED BY <1>3, <1>4

LEMMA OwnedNext == TypeOK' => (SingleOwner' <=> EveryOwned')
  <1> QED BY OwnedPerItem, PTL

\* The supporting facts do not need single ownership, except that a completion finds
\* a row that is past its preparation.
Aux == PreparingNotQueued /\ CaptionFollows /\ OnlyComposed /\ LockedIsEmpty

LEMMA SiblingTwice == \A i, j \in Items : (Sibling(i) = j) <=> (Sibling(j) = i)
  BY DEF Items, Sibling

LEMMA RemoveAux ==
  ASSUME TypeInv, Aux, NEW i \in Items, NEW b \in BOOLEAN, Remove(i, b)
  PROVE  PreparingNotQueued' /\ CaptionFollows' /\ pend' \subseteq pend
  <1>1. \A j \in Items : row'[j].stage = row[j].stage \/ row'[j].stage = "send"
    BY DEF Remove, Blank, NewRow, TypeInv, TypeOK, Row
  <1>2. \A j \in Items : row'[j].queued => row[j].queued
    BY DEF Remove, Blank, NewRow, TypeInv, TypeOK, Row
  <1>3. pend' \subseteq pend
    BY DEF Remove
  <1>4. PreparingNotQueued'
    <2>1. \A j \in Items : row'[j].stage # "send" => row[j].stage # "send" /\ ~row'[j].queued
      BY <1>1, <1>2 DEF Aux, PreparingNotQueued
    <2> QED BY <2>1 DEF PreparingNotQueued
  <1>5. CaptionFollows'
    BY <1>1, <1>3 DEF Aux, CaptionFollows
  <1> QED BY <1>3, <1>4, <1>5

LEMMA SavedComposed ==
  ASSUME NEW rows \in SUBSET Items, NEW fields, SaveOffline(rows, fields)
  PROVE  \A i \in Items : OnDisk(i)' => i \in rows
  BY DEF SaveOffline, Entries, OnDisk

LEMMA AuxFrame == TypeInv /\ SingleOwner /\ Aux /\ Frame => Aux'
  <1> SUFFICES ASSUME TypeInv, SingleOwner, Aux, Frame PROVE Aux'
    OBVIOUS
  <1> USE DEF rowVars, mailVars, fileVars, outVars
  <1>1. ASSUME PageArrives \/ (\E i \in Items : UpdateArrives(i)) \/ TakeMailbox \/ TooEarly \/ Idle
               \/ \E d \in batch : KeepPreview(d)
        PROVE  Aux'
    BY <1>1 DEF PageArrives, UpdateArrives, TakeMailbox, TooEarly, Idle, KeepPreview, Goto, Aux,
                PreparingNotQueued, CaptionFollows, OnlyComposed, OnDisk, LockedIsEmpty
  <1>2. ASSUME NEW i \in Items, PrepDismissed(i) PROVE Aux'
    <2>1. PreparingNotQueued' /\ CaptionFollows' /\ pend' \subseteq pend
      BY <1>2, RemoveAux DEF PrepDismissed
    <2> QED BY <1>2, <2>1 DEF PrepDismissed, Aux, OnlyComposed, OnDisk, LockedIsEmpty
  <1>3. ASSUME NEW i \in Items, PrepFailed(i) PROVE Aux'
    BY <1>3 DEF PrepFailed, Aux, PreparingNotQueued, CaptionFollows, OnlyComposed, OnDisk,
                LockedIsEmpty, TypeInv, TypeOK, Row
  <1>4. ASSUME NEW i \in Items, PrepSends(i) PROVE Aux'
    BY <1>4 DEF PrepSends, Aux, PreparingNotQueued, CaptionFollows, OnlyComposed, OnDisk,
                LockedIsEmpty, TypeInv, TypeOK, Row
  <1>5. ASSUME NEW i \in Items, PrepSplits(i) PROVE Aux'
    <2>1. i \in pend /\ row[i].stage = "forward" /\ i[2] = "body" /\ Sibling(i) = <<i[1], "text">>
      BY <1>5 DEF PrepSplits, Usable, Prepared, Aux, CaptionFollows, Sibling
    <2>2. \A j \in Items : row'[j].stage # "send" => j # i /\ row'[j] = row[j]
      BY <1>5, SiblingType DEF PrepSplits, NewRow, TypeInv, TypeOK, Row
    <2>3. pend' = pend \cup {<<i[1], "text">>} /\ UNCHANGED disk
          /\ ghost'.author = ghost.author /\ phase' = "drain"
      BY <1>5, <2>1 DEF PrepSplits, TypeInv, TypeOK, Ghost
    <2>4. PreparingNotQueued'
      BY <2>2 DEF Aux, PreparingNotQueued
    <2>5. CaptionFollows'
      <3> SUFFICES ASSUME NEW j \in Items, row'[j].stage = "forward"
                   PROVE  j[2] = "body" /\ <<j[1], "text">> \notin pend'
        BY DEF CaptionFollows
      <3>1. j # i /\ j[2] = "body" /\ <<j[1], "text">> \notin pend
        BY <2>2 DEF Aux, CaptionFollows
      <3>2. j[1] # i[1]
        BY <2>1, <3>1 DEF Items
      <3> QED BY <2>3, <3>1, <3>2
    <2>6. OnlyComposed'
      BY <2>1, <2>3 DEF Aux, OnlyComposed, OnDisk
    <2> QED BY <2>3, <2>4, <2>5, <2>6 DEF Aux, LockedIsEmpty
  <1>6. ASSUME NEW d \in batch, SettleGone(d) PROVE Aux'
    <2>1. d.item \in Items /\ row[d.item].dismissed \in BOOLEAN
      BY DEF TypeInv, TypeOK, Done, Row
    <2>2. PreparingNotQueued' /\ CaptionFollows' /\ pend' \subseteq pend
      BY <1>6, <2>1, RemoveAux DEF SettleGone
    <2>3. ghost'.author = ghost.author
      BY <1>6 DEF SettleGone, TypeInv, TypeOK, Ghost
    <2> QED BY <1>6, <2>2, <2>3 DEF SettleGone, Aux, OnlyComposed, OnDisk, LockedIsEmpty
  <1>7. ASSUME NEW d \in batch, SettleFailed(d) PROVE Aux'
    <2>1. d.item \in Items /\ d.retryable \in BOOLEAN /\ row[d.item] \in Row
          /\ row[d.item].stage = "send"
      BY DEF TypeInv, TypeOK, Done, SingleOwner, Active
    <2>2. \A j \in Items : row'[j].stage = row[j].stage
                           /\ (row'[j].stage # "send" => row'[j] = row[j])
      BY <1>7, <2>1, TriedType DEF SettleFailed, TypeInv, TypeOK
    <2> QED BY <1>7, <2>2 DEF SettleFailed, Aux, PreparingNotQueued, CaptionFollows, OnlyComposed,
                              OnDisk, LockedIsEmpty
  <1>8. ASSUME DrainEnds PROVE Aux'
    <2>1. \A j \in Items : OnDisk(j)' => OnDisk(j) \/ j \in pend
      BY <1>8, SavedComposed DEF DrainEnds, OnDisk, TypeInv, TypeOK
    <2>2. ghost'.author = ghost.author
      BY <1>8 DEF DrainEnds, TypeInv, TypeOK, Ghost
    <2> QED BY <1>8, <2>1, <2>2 DEF DrainEnds, Goto, Aux, PreparingNotQueued, CaptionFollows,
                                    OnlyComposed, LockedIsEmpty
  <1>9. ASSUME FlushQueued PROVE Aux'
    <2>1. \A j \in Items : row'[j].stage = row[j].stage /\ (row'[j].queued => row[j].queued)
      BY <1>9 DEF FlushQueued, SpawnRow, Flushed, TypeInv, TypeOK, Row
    <2>2. PreparingNotQueued'
      BY <2>1 DEF Aux, PreparingNotQueued
    <2> QED BY <1>9, <2>1, <2>2 DEF FlushQueued, Goto, Aux, CaptionFollows, OnlyComposed, OnDisk,
                                    LockedIsEmpty
  <1> QED BY <1>1, <1>2, <1>3, <1>4, <1>5, <1>6, <1>7, <1>8, <1>9 DEF Frame

LEMMA AuxRest == TypeInv /\ Aux /\ (User \/ Workers \/ Session) => Aux'
  <1> SUFFICES ASSUME TypeInv, Aux, User \/ Workers \/ Session PROVE Aux'
    OBVIOUS
  <1> USE DEF rowVars, mailVars, fileVars, outVars
  <1>1. ASSUME NEW m \in Messages, NEW stage \in {"gif", "forward", "send"}, Compose(m, stage)
        PROVE  Aux'
    <2> DEFINE i == <<m, "body">>
               new == NewRow(stage, IF Kind[m] = "text" THEN NoAccount ELSE account,
                             Kind[m] = "forward")
    <2>1. i \in Items /\ <<m, "text">> \in Items /\ account \in Accounts
      BY <1>1 DEF Compose, Items, TypeInv, TypeOK
    <2>2. i \notin pend /\ <<m, "text">> \notin pend
      BY <1>1, <2>1 DEF Compose, Aux, OnlyComposed
    <2>3. new.queued = FALSE /\ new \in Row
      BY <2>1, NewRowType DEF NewRow
    <2>4. SpawnRow(new).queued = FALSE
      BY <2>3 DEF SpawnRow, Row
    <2> HIDE DEF new
    <2>5. pend' = pend \cup {i} /\ row' = [row EXCEPT ![i] = SpawnRow(new)]
      BY <1>1 DEF Compose, new
    <2>6. PreparingNotQueued'
      BY <2>1, <2>4, <2>5 DEF Aux, PreparingNotQueued, TypeInv, TypeOK
    <2>7. CaptionFollows'
      BY <2>1, <2>2, <2>5 DEF Aux, CaptionFollows, TypeInv, TypeOK
    <2>8. OnlyComposed'
      <3>1. ghost'.author = [ghost.author EXCEPT ![m] = account] /\ UNCHANGED disk
        BY <1>1 DEF Compose, TypeInv, TypeOK, Ghost
      <3>2. account # NoAccount /\ ghost.author \in [Messages -> Accounts \cup {NoAccount}]
        BY <1>1 DEF Compose, TypeInv, TypeOK, Ghost
      <3>3. \A j \in Items : j[1] \in Messages
        BY DEF Items
      <3> QED BY <2>5, <3>1, <3>2, <3>3 DEF Aux, OnlyComposed, OnDisk
    <2> QED BY <1>1, <2>6, <2>7, <2>8 DEF Compose, Goto, Aux, LockedIsEmpty
  <1>2. ASSUME NEW i \in Items, Dismiss(i) PROVE Aux'
    <2>1. \A j \in Items : row'[j].stage = row[j].stage /\ row'[j].queued = row[j].queued
      BY <1>2 DEF Dismiss, TypeInv, TypeOK, Row
    <2>2. \A j \in Items : OnDisk(j)' => j \in pend
      BY <1>2, SavedComposed DEF Dismiss, TypeInv, TypeOK
    <2>3. ghost'.author = ghost.author
      BY <1>2 DEF Dismiss, TypeInv, TypeOK, Ghost
    <2> QED BY <1>2, <2>1, <2>2, <2>3 DEF Dismiss, Goto, Aux, PreparingNotQueued, CaptionFollows,
                                         OnlyComposed, LockedIsEmpty
  <1>3. ASSUME NEW i \in Items, Delete(i) PROVE Aux'
    <2>1. PreparingNotQueued' /\ CaptionFollows' /\ pend' \subseteq pend
      BY <1>3, RemoveAux DEF Delete
    <2>2. \A j \in Items : OnDisk(j)' => j \in pend'
      BY <1>3, <2>1, SavedComposed DEF Delete, TypeInv, TypeOK
    <2>3. ghost'.author = ghost.author
      BY <1>3 DEF Delete, TypeInv, TypeOK, Ghost
    <2> QED BY <1>3, <2>1, <2>2, <2>3 DEF Delete, Goto, Aux, OnlyComposed, LockedIsEmpty
  <1>4. ASSUME NEW i \in Items, Retry(i) PROVE Aux'
    <2>1. \A j \in Items : row'[j].stage = row[j].stage /\ row'[j].queued = row[j].queued
      BY <1>4 DEF Retry, SpawnRow, TypeInv, TypeOK, Row
    <2> QED BY <1>4, <2>1 DEF Retry, Goto, Aux, PreparingNotQueued, CaptionFollows, OnlyComposed,
                              OnDisk, LockedIsEmpty
  <1>5. ASSUME (\E c \in Chats : SelectChat(c)) \/ (\E a \in Accounts \cup {NoAccount} : SwitchAccount(a))
               \/ Lock
        PROVE  Aux'
    BY <1>5 DEF SelectChat, SwitchAccount, Lock, Goto, Aux, PreparingNotQueued, CaptionFollows,
                OnlyComposed, OnDisk, LockedIsEmpty
  <1>6. ASSUME NEW i \in Items, NEW outcome \in {"ready", "broken"}, PrepEnds(i, outcome) PROVE Aux'
    BY <1>6 DEF PrepEnds, Aux, PreparingNotQueued, CaptionFollows, OnlyComposed, OnDisk,
                LockedIsEmpty, TypeInv, TypeOK, Row
  <1>7. ASSUME NEW w \in sending, NEW ok \in BOOLEAN, NEW retryable \in BOOLEAN,
               NEW arrived \in BOOLEAN, SendEnds(w, ok, retryable, arrived)
        PROVE  Aux'
    BY <1>7 DEF SendEnds, Aux, PreparingNotQueued, CaptionFollows, OnlyComposed, OnDisk, LockedIsEmpty
  <1>8. ASSUME SessionStops \/ Crash PROVE Aux'
    <2>1. SessionEnds
      BY <1>8 DEF SessionStops, Crash
    <2>2. \A j \in Items : OnDisk(j)' => OnDisk(j)
      BY <1>8 DEF SessionStops, Crash, OnDisk
    <2> QED BY <2>1, <2>2 DEF SessionEnds, Blank, NewRow, Aux, PreparingNotQueued, CaptionFollows,
                              OnlyComposed, LockedIsEmpty
  <1>9. ASSUME Unlock PROVE Aux'
    <2>1. \A j \in Items : row'[j].stage = "send"
      BY <1>9 DEF Unlock, Blank, NewRow
    <2>2. \A j \in Items : j \in pend' => OnDisk(j)
      BY <1>9 DEF Unlock, OnDisk
    <2> QED BY <1>9, <2>1, <2>2 DEF Unlock, Goto, Aux, PreparingNotQueued, CaptionFollows,
                                    OnlyComposed, OnDisk, LockedIsEmpty
  <1> QED BY <1>1, <1>2, <1>3, <1>4, <1>5, <1>6, <1>7, <1>8, <1>9 DEF User, Workers, Session

\* A step that leaves rows, workers and completions alone.
LEMMA OwnedSame ==
  ASSUME EveryOwned, UNCHANGED <<pend, row, sending, done, batch>>
  PROVE  EveryOwned'
  BY DEF EveryOwned, Owned, Active, Preparing

\* Nothing is in flight for a row that no worker may be using.
LEMMA Unused ==
  ASSUME EveryOwned, NEW i \in Items, ~Active(i)
  PROVE  (\A w \in sending : w.item # i) /\ (\A d \in done \cup batch : d.item # i)
  BY DEF EveryOwned, Owned

LEMMA SpawnJobsOne ==
  ASSUME NEW i, NEW r
  PROVE  \A w \in SpawnJobs(i, r) : w.item = i /\ r.stage = "send" /\ \A v \in SpawnJobs(i, r) : v = w
  <1> DEFINE job == [item |-> i, acct |-> Sender(r)]
  <1>1. job.item = i
    OBVIOUS
  <1>2. SpawnJobs(i, r) = IF r.stage = "send" THEN {job} ELSE {}
    BY DEF SpawnJobs
  <1> HIDE DEF job
  <1> QED BY <1>1, <1>2

\* A step that only touches the row of one part, which has nothing in flight before
\* the step and at most a new worker after it.
LEMMA OwnedOne ==
  ASSUME TypeInv, EveryOwned, NEW i \in Items, NEW new \in SUBSET Job,
         pend \ {i} = pend' \ {i},
         \A j \in Items : j # i =>
            /\ row'[j].stage = row[j].stage /\ row'[j].job = row[j].job
            /\ row'[j].queued = row[j].queued /\ row'[j].failed = row[j].failed,
         sending' = sending \cup new, UNCHANGED <<done, batch>>,
         ~Active(i),
         \A w \in new : w.item = i,
         new # {} => Active(i)',
         \A w, v \in new : w = v,
         row'[i].job = "running" => i \in pend' /\ Preparing(i)',
         ~(row'[i].queued /\ row'[i].failed)
  PROVE  EveryOwned'
  <1> SUFFICES ASSUME NEW j \in Items PROVE Owned(j)'
    BY DEF EveryOwned
  <1>1. Owned(j)
    BY DEF EveryOwned
  <1>2. CASE j # i
    <2>1. Active(j)' <=> Active(j)
      BY <1>2 DEF Active
    <2>2. Preparing(j)' <=> Preparing(j)
      BY <1>2 DEF Preparing
    <2>3. j \in pend' <=> j \in pend
      BY <1>2
    <2>4. \A w \in sending' : w.item = j => w \in sending
      BY <1>2
    <2> QED BY <1>1, <1>2, <2>1, <2>2, <2>3, <2>4 DEF Owned
  <1>3. CASE j = i
    <2>1. \A w \in sending : w.item # i
      BY <1>1, <1>3 DEF Owned
    <2>2. \A d \in done \cup batch : d.item # i
      BY <1>1, <1>3 DEF Owned
    <2> QED BY <1>3, <2>1, <2>2 DEF Owned
  <1> QED BY <1>2, <1>3

\* A step that adds no worker and no completion and takes those of one part away,
\* together with its row or its readiness.
LEMMA OwnedLess ==
  ASSUME TypeInv, EveryOwned, NEW i \in Items,
         pend \ {i} = pend' \ {i},
         \A j \in Items : j # i =>
            /\ row'[j].stage = row[j].stage /\ row'[j].job = row[j].job
            /\ row'[j].queued = row[j].queued /\ row'[j].failed = row[j].failed,
         UNCHANGED <<sending, done>>, batch' \subseteq batch,
         \A w \in sending : w.item # i,
         \A d \in done \cup batch' : d.item # i,
         row'[i].job = "running" => i \in pend' /\ Preparing(i)',
         ~(row'[i].queued /\ row'[i].failed)
  PROVE  EveryOwned'
  <1> SUFFICES ASSUME NEW j \in Items PROVE Owned(j)'
    BY DEF EveryOwned
  <1>1. Owned(j)
    BY DEF EveryOwned
  <1>2. CASE j # i
    <2>1. (Active(j)' <=> Active(j)) /\ (Preparing(j)' <=> Preparing(j)) /\ (j \in pend' <=> j \in pend)
      BY <1>2 DEF Active, Preparing
    <2> QED BY <1>1, <1>2, <2>1 DEF Owned
  <1>3. CASE j = i
    BY <1>3 DEF Owned
  <1> QED BY <1>2, <1>3

LEMMA RemoveRows ==
  ASSUME TypeInv, NEW i \in Items, NEW b \in BOOLEAN, Remove(i, b)
  PROVE  /\ pend \ {i} = pend' \ {i}
         /\ \A j \in Items : j # i =>
              /\ row'[j].stage = row[j].stage /\ row'[j].job = row[j].job
              /\ row'[j].queued = row[j].queued /\ row'[j].failed = row[j].failed
         /\ row'[i].job = "idle" /\ row'[i].queued = FALSE
  BY DEF Remove, Blank, NewRow, TypeInv, TypeOK, Row

LEMMA OwnedFrame == TypeInv /\ EveryOwned /\ Aux /\ Frame => EveryOwned'
  <1> SUFFICES ASSUME TypeInv, EveryOwned, Aux, Frame PROVE EveryOwned'
    OBVIOUS
  <1> USE DEF rowVars, mailVars
  <1>1. ASSUME PageArrives \/ (\E i \in Items : UpdateArrives(i)) \/ DrainEnds \/ TooEarly \/ Idle
        PROVE  EveryOwned'
    BY <1>1, OwnedSame DEF PageArrives, UpdateArrives, DrainEnds, TooEarly, Idle
  <1>2. ASSUME NEW i \in Items, PrepDismissed(i) PROVE EveryOwned'
    <2>1. ~Active(i) /\ Remove(i, TRUE) /\ UNCHANGED <<sending, done, batch>>
      BY <1>2 DEF PrepDismissed, Prepared, Active
    <2> QED BY <2>1, Unused, RemoveRows, OwnedLess
  <1>3. ASSUME NEW i \in Items, PrepFailed(i) PROVE EveryOwned'
    <2>1. ~Active(i) /\ row[i].stage # "send" /\ row[i].job = "broken" /\ ~row[i].queued
      BY <1>3 DEF PrepFailed, Prepared, Active, Aux, PreparingNotQueued
    <2>2. row' = [row EXCEPT ![i].failed = TRUE] /\ UNCHANGED <<pend, sending, done, batch>>
      BY <1>3 DEF PrepFailed
    <2>3. row'[i].job = "broken" /\ row'[i].queued = FALSE
      BY <2>1, <2>2 DEF TypeInv, TypeOK, Row
    <2>4. \A j \in Items : j # i => row'[j] = row[j]
      BY <2>2 DEF TypeInv, TypeOK
    <2> QED BY <2>1, <2>2, <2>3, <2>4, Unused, OwnedLess
  <1>4. ASSUME NEW i \in Items, PrepSends(i) PROVE EveryOwned'
    <2> DEFINE new == SpawnJobs(i, row'[i])
    <2>1. i \in pend /\ ~Active(i) /\ row[i].stage # "send" /\ ~row[i].queued /\ ~row[i].failed
      BY <1>4 DEF PrepSends, Usable, Prepared, Active, Aux, PreparingNotQueued
    <2>2. /\ row' = [row EXCEPT ![i].stage = "send", ![i].job = "idle"]
          /\ sending' = sending \cup new /\ UNCHANGED <<pend, done, batch>>
      BY <1>4 DEF PrepSends
    <2>3. /\ row'[i].job = "idle" /\ row'[i].stage = "send"
          /\ ~row'[i].queued /\ ~row'[i].failed
      BY <2>1, <2>2 DEF TypeInv, TypeOK, Row
    <2>4. \A j \in Items : j # i => row'[j] = row[j]
      BY <2>2 DEF TypeInv, TypeOK
    <2>5. Active(i)'
      BY <2>1, <2>2, <2>3 DEF Active
    <2>6. new \subseteq Job /\ (\A w \in new : w.item = i) /\ (\A w, v \in new : w = v)
      <3>1. sending' \subseteq Job
        BY TypeFrame DEF TypeInv, TypeOK
      <3> QED BY <2>2, <3>1, SpawnJobsOne
    <2> HIDE DEF new
    <2> QED BY <2>1, <2>2, <2>3, <2>4, <2>5, <2>6, OwnedOne
  <1>5. ASSUME NEW i \in Items, PrepSplits(i) PROVE EveryOwned'
    <2> DEFINE text == Sibling(i)
               caption == [NewRow("send", row[i].acct, TRUE) EXCEPT !.cut = row[i].cut]
               A == SpawnJobs(text, caption)
               B == SpawnJobs(i, row'[i])
    <2>1. /\ i \in pend /\ ~Active(i) /\ row[i].stage = "forward" /\ row[i].job = "ready"
          /\ ~row[i].queued /\ ~row[i].failed
      BY <1>5 DEF PrepSplits, Usable, Prepared, Active, Aux, PreparingNotQueued
    <2>2. text \in Items /\ text # i /\ text \notin pend
      BY <2>1, SiblingType DEF Aux, CaptionFollows, Sibling
    <2>3. /\ row' = [row EXCEPT ![i].stage = "send", ![i].job = "idle", ![text] = caption]
          /\ pend' = pend \cup {text} /\ sending' = sending \cup A \cup B
          /\ UNCHANGED <<done, batch>>
      BY <1>5 DEF PrepSplits
    <2>4. /\ row'[i].job = "idle" /\ row'[i].stage = "send" /\ ~row'[i].queued /\ ~row'[i].failed
          /\ row'[text] = caption
          /\ \A j \in Items : j # i /\ j # text => row'[j] = row[j]
      BY <2>1, <2>2, <2>3 DEF TypeInv, TypeOK, Row
    <2>5. caption.job = "idle" /\ ~caption.queued /\ ~caption.failed /\ caption.stage = "send"
      BY DEF NewRow
    <2>6. Active(i)' /\ Active(text)'
      BY <2>1, <2>2, <2>3, <2>4, <2>5 DEF Active
    <2>7. /\ \A w \in A : w.item = text /\ \A v \in A : v = w
          /\ \A w \in B : w.item = i /\ \A v \in B : v = w
      BY SpawnJobsOne
    <2> HIDE DEF caption, A, B, text
    <2> SUFFICES ASSUME NEW j \in Items PROVE Owned(j)'
      BY DEF EveryOwned
    <2>8. Owned(j)
      BY DEF EveryOwned
    <2>9. CASE j # i /\ j # text
      <3>1. Active(j)' = Active(j) /\ (Preparing(j)' = Preparing(j)) /\ (j \in pend' <=> j \in pend)
        BY <2>3, <2>4, <2>9 DEF Active, Preparing
      <3>2. \A w \in sending' : w.item = j => w \in sending
        BY <2>3, <2>7, <2>9
      <3> QED BY <2>3, <2>4, <2>8, <2>9, <3>1, <3>2 DEF Owned
    <2>10. CASE j = i
      <3>1. (\A w \in sending : w.item # i) /\ (\A d \in done \cup batch : d.item # i)
        BY <2>1, <2>8, <2>10 DEF Owned
      <3> QED BY <2>2, <2>3, <2>4, <2>6, <2>7, <2>10, <3>1 DEF Owned
    <2>11. CASE j = text
      <3>1. (\A w \in sending : w.item # text) /\ (\A d \in done \cup batch : d.item # text)
        BY <2>2, <2>8, <2>11 DEF Owned, Active
      <3> QED BY <2>2, <2>3, <2>4, <2>5, <2>6, <2>7, <2>11, <3>1 DEF Owned
    <2> QED BY <2>9, <2>10, <2>11
  <1>6. ASSUME TakeMailbox PROVE EveryOwned'
    BY <1>6 DEF TakeMailbox, EveryOwned, Owned, Active, Preparing
  <1>7. ASSUME NEW d \in batch, KeepPreview(d) PROVE EveryOwned'
    <2> DEFINE e == [d EXCEPT !.asked = TRUE]
    <2>1. e.item = d.item /\ d \in Done
      BY DEF TypeInv, TypeOK, Done
    <2>2. batch' = batch \ {d} /\ done' = done \cup {e} /\ UNCHANGED <<pend, row, sending>>
      BY <1>7 DEF KeepPreview
    <2> HIDE DEF e
    <2> SUFFICES ASSUME NEW j \in Items PROVE Owned(j)'
      BY DEF EveryOwned
    <2>3. Owned(j)
      BY DEF EveryOwned
    <2>4. (Active(j)' <=> Active(j)) /\ (Preparing(j)' <=> Preparing(j))
      BY <2>2 DEF Active, Preparing
    <2> QED BY <2>1, <2>2, <2>3, <2>4 DEF Owned
  <1>8. ASSUME NEW d \in batch, SettleGone(d) PROVE EveryOwned'
    <2>1. d.item \in Items /\ row[d.item].dismissed \in BOOLEAN
      BY DEF TypeInv, TypeOK, Done, Row
    <2>2. Remove(d.item, row[d.item].dismissed) /\ UNCHANGED <<sending, done>> /\ batch' = batch \ {d}
      BY <1>8 DEF SettleGone
    <2>3. Owned(d.item)
      BY <2>1 DEF EveryOwned
    <2>4. (\A w \in sending : w.item # d.item) /\ (\A e \in done \cup batch' : e.item # d.item)
      BY <2>2, <2>3 DEF Owned
    <2> QED BY <2>1, <2>2, <2>4, RemoveRows, OwnedLess
  <1>9. ASSUME NEW d \in batch, SettleFailed(d) PROVE EveryOwned'
    <2> DEFINE i == d.item
    <2>1. i \in Items /\ d.retryable \in BOOLEAN /\ row[i] \in Row
      BY DEF TypeInv, TypeOK, Done
    <2>2. row' = [row EXCEPT ![i] = Tried(row[i], d.retryable)] /\ UNCHANGED <<pend, sending, done>>
          /\ batch' = batch \ {d}
      BY <1>9 DEF SettleFailed
    <2>3. Owned(i)
      BY <2>1 DEF EveryOwned
    <2>4. (\A w \in sending : w.item # i) /\ (\A e \in done \cup batch' : e.item # i)
      BY <2>2, <2>3 DEF Owned
    <2>5. Active(i)
      BY <2>3 DEF Owned
    <2>6. row[i].job # "running"
      BY <2>3, <2>5 DEF Owned, Active, Preparing
    <2>7. row'[i] = Tried(row[i], d.retryable) /\ \A j \in Items : j # i => row'[j] = row[j]
      BY <2>1, <2>2 DEF TypeInv, TypeOK
    <2>8. row'[i].job # "running" /\ ~(row'[i].queued /\ row'[i].failed)
      BY <2>1, <2>6, <2>7, TriedType
    <2> HIDE DEF i
    <2> QED BY <2>1, <2>2, <2>4, <2>7, <2>8, OwnedLess
  <1>10. ASSUME FlushQueued PROVE EveryOwned'
    <2> DEFINE queue == {i \in pend : row[i].queued}
               new == UNION {SpawnJobs(i, Flushed(row[i])) : i \in queue}
    <2>1. /\ row' = [i \in Items |-> IF i \in queue THEN SpawnRow(Flushed(row[i])) ELSE row[i]]
          /\ sending' = sending \cup new /\ UNCHANGED <<pend, done, batch>>
      BY <1>10 DEF FlushQueued
    <2>2. \A w \in new : w.item \in queue /\ row[w.item].stage = "send"
                         /\ \A v \in new : v.item = w.item => v = w
      <3>1. \A i \in queue : Flushed(row[i]).stage = row[i].stage
        BY DEF Flushed, TypeInv, TypeOK, Row
      <3>2. \A w \in new : \E i \in queue : w \in SpawnJobs(i, Flushed(row[i]))
        OBVIOUS
      <3> HIDE DEF queue, new
      <3>3. \A w \in new : w \in SpawnJobs(w.item, Flushed(row[w.item])) /\ w.item \in queue
        BY <3>2, SpawnJobsOne
      <3> QED BY <3>1, <3>3, SpawnJobsOne
    <2> SUFFICES ASSUME NEW j \in Items PROVE Owned(j)'
      BY DEF EveryOwned
    <2>3. Owned(j)
      BY DEF EveryOwned
    <2>4. CASE j \notin queue
      <3>1. row'[j] = row[j]
        BY <2>1, <2>4
      <3>2. (Active(j)' <=> Active(j)) /\ (Preparing(j)' <=> Preparing(j))
        BY <2>1, <3>1 DEF Active, Preparing
      <3>3. \A w \in sending' : w.item = j => w \in sending
        BY <2>1, <2>2, <2>4
      <3> HIDE DEF queue, new
      <3> QED BY <2>1, <2>3, <3>1, <3>2, <3>3 DEF Owned
    <2>5. CASE j \in queue
      <3>1. j \in pend /\ row[j].queued /\ ~row[j].failed /\ ~Active(j)
        BY <2>3, <2>5 DEF Owned, Active
      <3>2. (\A w \in sending : w.item # j) /\ (\A d \in done \cup batch : d.item # j)
        BY <2>3, <3>1 DEF Owned
      <3>3. row'[j] = SpawnRow(Flushed(row[j])) /\ row[j] \in Row
        BY <2>1, <2>5 DEF TypeInv, TypeOK
      <3>4. /\ row'[j].stage = row[j].stage /\ ~row'[j].queued /\ ~row'[j].failed
            /\ row[j].stage = "send" => row'[j].job = row[j].job
        BY <3>1, <3>3 DEF SpawnRow, Flushed, Row
      <3>5. row[j].stage = "send" => Active(j)'
        BY <2>1, <3>1, <3>4 DEF Active
      <3>6. row'[j].job = "running" => Preparing(j)'
        <4>1. row[j].stage = "send" => row[j].job # "running"
          BY <2>3 DEF Owned, Preparing
        <4> QED BY <3>4, <4>1 DEF Preparing
      <3>7. \A w \in sending' : w.item = j => w \in new /\ row[j].stage = "send"
        BY <2>1, <2>2, <3>2
      <3> HIDE DEF queue, new
      <3> QED BY <2>1, <2>2, <3>1, <3>2, <3>4, <3>5, <3>6, <3>7 DEF Owned
    <2> QED BY <2>4, <2>5
  <1> QED BY <1>1, <1>2, <1>3, <1>4, <1>5, <1>6, <1>7, <1>8, <1>9, <1>10 DEF Frame

LEMMA OwnedUser == TypeInv /\ EveryOwned /\ Aux /\ User => EveryOwned'
  <1> SUFFICES ASSUME TypeInv, EveryOwned, Aux, User PROVE EveryOwned'
    OBVIOUS
  <1> USE DEF rowVars, mailVars
  <1>0. sending' \subseteq Job
    BY TypeUser DEF TypeInv, TypeOK
  <1>1. ASSUME NEW m \in Messages, NEW stage \in {"gif", "forward", "send"}, Compose(m, stage)
        PROVE  EveryOwned'
    <2> DEFINE i == <<m, "body">>
               new == NewRow(stage, IF Kind[m] = "text" THEN NoAccount ELSE account,
                             Kind[m] = "forward")
               jobs == SpawnJobs(i, new)
    <2>1. i \in Items /\ account \in Accounts
      BY <1>1 DEF Compose, Items, TypeInv, TypeOK
    <2>2. i \notin pend
      BY <1>1, <2>1 DEF Compose, Aux, OnlyComposed
    <2>3. new \in Row /\ new.stage = stage /\ new.job = "idle" /\ ~new.queued /\ ~new.failed
      BY <2>1, NewRowType DEF NewRow
    <2>4. \A w \in jobs : w.item = i /\ new.stage = "send" /\ \A v \in jobs : v = w
      BY SpawnJobsOne
    <2> HIDE DEF new, jobs
    <2>5. /\ pend' = pend \cup {i} /\ row' = [row EXCEPT ![i] = SpawnRow(new)]
          /\ sending' = sending \cup jobs /\ UNCHANGED <<done, batch>>
      BY <1>1 DEF Compose, new, jobs
    <2>6. row'[i] = SpawnRow(new) /\ \A j \in Items : j # i => row'[j] = row[j]
      BY <2>1, <2>5 DEF TypeInv, TypeOK
    <2>7. /\ row'[i].stage = stage /\ ~row'[i].queued /\ ~row'[i].failed
          /\ row'[i].job = "running" => stage # "send"
      BY <2>3, <2>6 DEF SpawnRow, Row
    <2>8. jobs # {} => Active(i)'
      BY <2>1, <2>3, <2>4, <2>5, <2>7 DEF Active
    <2>9. row'[i].job = "running" => i \in pend' /\ Preparing(i)'
      BY <2>5, <2>7 DEF Preparing
    <2>10. ~Active(i) /\ jobs \subseteq Job /\ pend \ {i} = pend' \ {i}
      BY <1>0, <2>2, <2>5 DEF Active
    <2> QED BY <2>1, <2>4, <2>5, <2>6, <2>7, <2>8, <2>9, <2>10, OwnedOne
  <1>2. ASSUME NEW i \in Items, Dismiss(i) PROVE EveryOwned'
    <2>1. /\ row' = [row EXCEPT ![i].dismissed = TRUE]
          /\ UNCHANGED <<pend, sending, done, batch>>
      BY <1>2 DEF Dismiss
    <2>2. \A j \in Items : /\ row'[j].stage = row[j].stage /\ row'[j].job = row[j].job
                           /\ row'[j].queued = row[j].queued /\ row'[j].failed = row[j].failed
      BY <2>1 DEF TypeInv, TypeOK, Row
    <2> SUFFICES ASSUME NEW j \in Items PROVE Owned(j)'
      BY DEF EveryOwned
    <2>3. Owned(j)
      BY DEF EveryOwned
    <2>4. (Active(j)' <=> Active(j)) /\ (Preparing(j)' <=> Preparing(j))
      BY <2>1, <2>2 DEF Active, Preparing
    <2> QED BY <2>1, <2>2, <2>3, <2>4 DEF Owned
  <1>3. ASSUME NEW i \in Items, Delete(i) PROVE EveryOwned'
    <2>1. ~Active(i) /\ Remove(i, TRUE) /\ UNCHANGED <<sending, done, batch>>
      BY <1>3 DEF Delete, Borrowed, Active
    <2> QED BY <2>1, Unused, RemoveRows, OwnedLess
  <1>4. ASSUME NEW i \in Items, Retry(i) PROVE EveryOwned'
    <2> DEFINE fresh == [row[i] EXCEPT !.failed = FALSE, !.attempts = 0]
               jobs == SpawnJobs(i, fresh)
    <2>1. i \in pend /\ row[i].failed /\ ~Active(i) /\ Owned(i) /\ row[i] \in Row
      BY <1>4 DEF Retry, Drawn, Active, EveryOwned, TypeInv, TypeOK
    <2>2. ~row[i].queued /\ row[i].job # "running"
      BY <2>1 DEF Owned, Preparing
    <2>3. /\ fresh \in Row /\ fresh.stage = row[i].stage /\ fresh.job = row[i].job
          /\ fresh.queued = row[i].queued /\ fresh.failed = FALSE
      BY <2>1 DEF Row
    <2>4. \A w \in jobs : w.item = i /\ fresh.stage = "send" /\ \A v \in jobs : v = w
      BY SpawnJobsOne
    <2> HIDE DEF fresh, jobs
    <2>5. /\ row' = [row EXCEPT ![i] = SpawnRow(fresh)] /\ sending' = sending \cup jobs
          /\ UNCHANGED <<pend, done, batch>>
      BY <1>4 DEF Retry, fresh, jobs
    <2>6. row'[i] = SpawnRow(fresh) /\ \A j \in Items : j # i => row'[j] = row[j]
      BY <2>5 DEF TypeInv, TypeOK
    <2>7. /\ row'[i].stage = row[i].stage /\ ~row'[i].queued /\ ~row'[i].failed
          /\ row'[i].job = "running" => row[i].stage # "send"
      BY <2>2, <2>3, <2>6 DEF SpawnRow, Row
    <2>8. jobs # {} => Active(i)'
      BY <2>1, <2>3, <2>4, <2>5, <2>7 DEF Active
    <2>9. row'[i].job = "running" => i \in pend' /\ Preparing(i)'
      BY <2>1, <2>5, <2>7 DEF Preparing
    <2>10. jobs \subseteq Job /\ pend \ {i} = pend' \ {i}
      BY <1>0, <2>5
    <2> QED BY <2>1, <2>4, <2>5, <2>6, <2>7, <2>8, <2>9, <2>10, OwnedOne
  <1>5. ASSUME (\E c \in Chats : SelectChat(c)) \/ (\E a \in Accounts \cup {NoAccount} : SwitchAccount(a))
        PROVE  EveryOwned'
    BY <1>5, OwnedSame DEF SelectChat, SwitchAccount
  <1> QED BY <1>1, <1>2, <1>3, <1>4, <1>5 DEF User

LEMMA OwnedWorkers == TypeInv /\ EveryOwned /\ Workers => EveryOwned'
  <1> SUFFICES ASSUME TypeInv, EveryOwned, Workers PROVE EveryOwned'
    OBVIOUS
  <1> USE DEF rowVars, mailVars
  <1>1. ASSUME NEW i \in Items, NEW outcome \in {"ready", "broken"}, PrepEnds(i, outcome)
        PROVE  EveryOwned'
    <2>1. /\ row' = [row EXCEPT ![i].job = outcome] /\ row[i].job = "running"
          /\ UNCHANGED <<pend, sending, done, batch>>
      BY <1>1 DEF PrepEnds
    <2>2. \A j \in Items : /\ row'[j].stage = row[j].stage
                           /\ row'[j].queued = row[j].queued /\ row'[j].failed = row[j].failed
                           /\ row'[j].job = "running" => row[j].job = "running"
      BY <2>1 DEF TypeInv, TypeOK, Row
    <2> SUFFICES ASSUME NEW j \in Items PROVE Owned(j)'
      BY DEF EveryOwned
    <2>3. Owned(j)
      BY DEF EveryOwned
    <2>4. (Active(j)' <=> Active(j)) /\ (Preparing(j)' <=> Preparing(j))
      BY <2>1, <2>2 DEF Active, Preparing
    <2> QED BY <2>1, <2>2, <2>3, <2>4 DEF Owned
  <1>2. ASSUME NEW w \in sending, NEW ok \in BOOLEAN, NEW retryable \in BOOLEAN,
               NEW arrived \in BOOLEAN, SendEnds(w, ok, retryable, arrived)
        PROVE  EveryOwned'
    <2> DEFINE d == [item |-> w.item, ok |-> ok, retryable |-> retryable, asked |-> FALSE]
    <2>1. d.item = w.item
      OBVIOUS
    <2> HIDE DEF d
    <2>2. sending' = sending \ {w} /\ done' = done \cup {d} /\ UNCHANGED <<pend, row, batch>>
      BY <1>2 DEF SendEnds, d
    <2> SUFFICES ASSUME NEW j \in Items PROVE Owned(j)'
      BY DEF EveryOwned
    <2>3. Owned(j)
      BY DEF EveryOwned
    <2>4. (Active(j)' <=> Active(j)) /\ (Preparing(j)' <=> Preparing(j))
      BY <2>2 DEF Active, Preparing
    <2> QED BY <2>1, <2>2, <2>3, <2>4 DEF Owned
  <1> QED BY <1>1, <1>2 DEF Workers

LEMMA OwnedSession == TypeInv /\ EveryOwned /\ Aux /\ Session => EveryOwned'
  <1> SUFFICES ASSUME TypeInv, EveryOwned, Aux, Session PROVE EveryOwned'
    OBVIOUS
  <1> USE DEF rowVars, mailVars
  <1>1. ASSUME Lock PROVE EveryOwned'
    BY <1>1, OwnedSame DEF Lock
  <1>2. ASSUME SessionStops \/ Crash PROVE EveryOwned'
    <2>1. SessionEnds
      BY <1>2 DEF SessionStops, Crash
    <2> QED BY <2>1 DEF SessionEnds, Blank, NewRow, EveryOwned, Owned
  <1>3. ASSUME Unlock PROVE EveryOwned'
    <2>1. \A i \in Items : ~Active(i)
      BY <1>3 DEF Unlock, Active, Aux, LockedIsEmpty
    <2>2. sending = {} /\ done \cup batch = {}
      <3>1. \A i \in Items : (\A w \in sending : w.item # i) /\ (\A d \in done \cup batch : d.item # i)
        BY <2>1, Unused
      <3> QED BY <3>1 DEF TypeInv, TypeOK, Job, Done
    <2>3. UNCHANGED <<sending, done, batch>>
      BY <1>3 DEF Unlock
    <2>4. \A i \in Items : row'[i].job = "idle" /\ ~row'[i].failed
      BY <1>3 DEF Unlock, Blank, NewRow
    <2> QED BY <2>2, <2>3, <2>4 DEF EveryOwned, Owned
  <1> QED BY <1>1, <1>2, <1>3 DEF Session

LEMMA OwnerStep == OwnerInv /\ [Next]_vars => OwnerInv'
  <1> SUFFICES ASSUME OwnerInv, [Next]_vars PROVE OwnerInv'
    OBVIOUS
  <1>1. TypeInv /\ TypeOK /\ SingleOwner /\ Aux
    BY DEF OwnerInv, TypeInv, Aux
  <1>2. EveryOwned
    BY <1>1, OwnedPerItem
  <1>3. TypeInv' /\ TypeOK'
    <2>1. TypeInv'
      BY <1>1, TypeStep
    <2> QED BY <2>1 DEF TypeInv
  <1>4. CASE UNCHANGED vars
    <2>1. EveryOwned'
      BY <1>2, <1>4, OwnedSame DEF vars
    <2>2. Aux'
      BY <1>1, <1>4 DEF vars, Aux, PreparingNotQueued, CaptionFollows, OnlyComposed, OnDisk,
                        LockedIsEmpty
    <2> QED BY <1>3, <2>1, <2>2, OwnedNext DEF OwnerInv, Aux
  <1>5. CASE Next
    <2>1. EveryOwned'
      BY <1>1, <1>2, <1>5, OwnedFrame, OwnedUser, OwnedWorkers, OwnedSession DEF Next
    <2>2. Aux'
      BY <1>1, <1>5, AuxFrame, AuxRest DEF Next
    <2> QED BY <1>3, <2>1, <2>2, OwnedNext DEF OwnerInv, Aux
  <1> QED BY <1>4, <1>5

LEMMA OwnerInit == Init => OwnerInv
  <1> SUFFICES ASSUME Init PROVE OwnerInv
    OBVIOUS
  <1>1. TypeInv
    BY TypeInit
  <1> QED BY <1>1 DEF Init, OwnerInv, SingleOwner, PreparingNotQueued, CaptionFollows, OnlyComposed,
                      OnDisk, LockedIsEmpty, Blank, NewRow

LEMMA OwnerInvariant == Spec => []OwnerInv
  <1> QED BY OwnerInit, OwnerStep, PTL DEF Spec

\* No row of ui.pending is freed under the worker that borrows its bytes, no two
\* workers share one, and every completion of drain_sends finds its row exactly once.
THEOREM OwnerCorrect == Spec => []SingleOwner
  <1>1. OwnerInv => SingleOwner
    BY DEF OwnerInv
  <1> QED BY <1>1, OwnerInvariant, PTL

-----------------------------------------------------------------------------
(* What became of the parts of a message: a deleted or a delivered one     *)
(* never returns, no part vanishes, and a forward is confirmed as a whole  *)
(* only when it went out as a whole.                                       *)

\* The user started this part: its message was composed, and a caption exists only
\* once its forward was split.
Started(i) == ghost.author[i[1]] # NoAccount /\ (i[2] = "text" => i[1] \in ghost.split)

\* What has a row, an entry in the queue file or a history was started by the user.
KnownStarted ==
  \A i \in Items :
    i \in pend \/ OnDisk(i) \/ i \in ghost.deleted \cup ghost.drained \cup ghost.settled => Started(i)

\* A forward that was split never prepares its attachments again.
SplitOnce ==
  \A m \in ghost.split :
    ghost.author[m] # NoAccount /\ row[<<m, "body">>].stage # "forward"

\* Only delete_pending hides a row.
DismissedDeleted == \A i \in Items : i \in pend /\ row[i].dismissed => i \in ghost.deleted

SettledAway == \A i \in Items : i \in ghost.settled => i \notin pend /\ ~OnDisk(i)

\* Until a session has ended no row can come back from the queue file.
FirstSession ==
  restarts = 0 => phase # "locked" /\ \A i \in Items : i \in ghost.drained => i \notin pend

\* The mark of a forward is on the rows of forwards, those in preparation included.
ForwardMarks ==
  \A i \in Items : /\ i \notin pend => ~row[i].fwd
                   /\ row[i].stage = "forward" => row[i].fwd

\* The other part of a forward that is not cut short is pending, or was delivered and
\* is not deleted.
OtherPart(i) ==
  LET s == Sibling(i) IN
  IF s \in pend THEN row[s].fwd ELSE s \in ghost.drained /\ s \notin ghost.deleted
ForwardWhole ==
  \A i \in Items :
    i \in pend /\ row[i].fwd /\ ~row[i].cut /\ Sibling(i) \in Parts(i[1]) => OtherPart(i)

\* The parts that the user deleted or that were delivered...
AwayInv == KnownStarted /\ SplitOnce /\ DismissedDeleted /\ DeletedNeverReturns /\ SettledAway
\* ... and the parts that are still somewhere.
FateInv ==
  FirstSession /\ DeletedIsHidden /\ NothingVanishes /\ ForwardMarks /\ ForwardWhole

HistInv == OwnerInv /\ AwayInv /\ FateInv

LEMMA PartsItems == \A m \in Messages : Parts(m) \subseteq Items
  BY DEF Parts, Items

LEMMA GhostType ==
  TypeInv => /\ ghost = [author |-> ghost.author, split |-> ghost.split, drained |-> ghost.drained,
                         settled |-> ghost.settled, deleted |-> ghost.deleted]
             /\ ghost.author \in [Messages -> Accounts \cup {NoAccount}]
             /\ ghost.split \subseteq Messages
             /\ ghost.drained \subseteq Items /\ ghost.settled \subseteq Items
             /\ ghost.deleted \subseteq Items
  BY DEF TypeInv, TypeOK, Ghost

-----------------------------------------------------------------------------
(* Steps that leave the set of rows, the queue file and the history alone.  *)

Steady ==
  /\ UNCHANGED <<pend, disk, ghost, hidden, restarts>>
  /\ phase' = "locked" => phase = "locked"
  /\ \A i \in Items :
       /\ row'[i].stage = row[i].stage \/ row'[i].stage = "send"
       /\ row'[i].dismissed = row[i].dismissed
       /\ row'[i].fwd = row[i].fwd /\ row'[i].cut = row[i].cut
       /\ row'[i].queued => row[i].queued \/ i \notin ghost.deleted
       /\ row'[i].failed => row[i].failed \/ i \notin ghost.deleted

LEMMA HistSteady ==
  ASSUME TypeInv, AwayInv, FateInv, Steady
  PROVE  AwayInv' /\ FateInv'
  <1> USE DEF Steady
  <1>1. \A i \in Items : OnDisk(i)' <=> OnDisk(i)
    BY DEF OnDisk
  <1>2. KnownStarted'
    BY <1>1 DEF AwayInv, KnownStarted, Started
  <1>3. SplitOnce'
    <2>1. \A m \in ghost.split : <<m, "body">> \in Items
      BY GhostType DEF Items
    <2> QED BY <2>1 DEF AwayInv, SplitOnce
  <1>4. DismissedDeleted' /\ SettledAway'
    BY <1>1 DEF AwayInv, DismissedDeleted, SettledAway
  <1>5. DeletedNeverReturns'
    <2>1. \A i \in ghost.deleted : i \in Items
      BY GhostType
    <2> QED BY <1>1, <2>1 DEF AwayInv, DeletedNeverReturns
  <1>6. FirstSession' /\ DeletedIsHidden'
    BY DEF FateInv, FirstSession, DeletedIsHidden
  <1>7. NothingVanishes'
    BY DEF FateInv, NothingVanishes, Parts
  <1>8. ForwardMarks'
    <2> SUFFICES ASSUME NEW i \in Items
                 PROVE  (i \notin pend' => ~row'[i].fwd) /\ (row'[i].stage = "forward" => row'[i].fwd)
      BY DEF ForwardMarks
    <2> QED BY DEF FateInv, ForwardMarks
  <1>9. ForwardWhole'
    <2> SUFFICES ASSUME NEW i \in Items, i \in pend, row[i].fwd, ~row[i].cut,
                        Sibling(i) \in Parts(i[1])'
                 PROVE  OtherPart(i)'
      BY DEF ForwardWhole
    <2>1. OtherPart(i)
      BY DEF FateInv, ForwardWhole, Parts
    <2> QED BY <2>1, SiblingType DEF OtherPart
  <1> QED BY <1>2, <1>3, <1>4, <1>5, <1>6, <1>7, <1>8, <1>9 DEF AwayInv, FateInv

\* The steps that touch no row at all.
LEMMA SteadyQuiet ==
  ASSUME HistInv,
         \/ PageArrives \/ (\E i \in Items : UpdateArrives(i)) \/ TakeMailbox
         \/ (\E d \in batch : KeepPreview(d)) \/ TooEarly \/ Idle
         \/ (\E c \in Chats : SelectChat(c)) \/ (\E a \in Accounts \cup {NoAccount} : SwitchAccount(a))
         \/ Lock
  PROVE  Steady
  <1>1. UNCHANGED <<pend, row, disk, ghost, hidden, restarts>> /\ phase' # "locked"
    BY DEF PageArrives, UpdateArrives, TakeMailbox, KeepPreview, TooEarly, Idle, SelectChat,
           SwitchAccount, Lock, Goto, rowVars, fileVars, outVars
  <1> QED BY <1>1 DEF Steady

\* A worker that returns, with its preparation or with its send.
LEMMA SteadyWorkers ==
  ASSUME HistInv, Workers
  PROVE  UNCHANGED <<pend, disk, ghost, hidden, restarts, phase>>
         /\ \A i \in Items : /\ row'[i].stage = row[i].stage /\ row'[i].dismissed = row[i].dismissed
                             /\ row'[i].fwd = row[i].fwd /\ row'[i].cut = row[i].cut
                             /\ row'[i].queued = row[i].queued /\ row'[i].failed = row[i].failed
                             /\ row'[i].acct = row[i].acct /\ row'[i].attempts = row[i].attempts
  <1> USE DEF rowVars, fileVars, outVars
  <1>1. ASSUME NEW i \in Items, NEW outcome \in {"ready", "broken"}, PrepEnds(i, outcome)
        PROVE  UNCHANGED <<pend, disk, ghost, hidden, restarts, phase>>
               /\ row' = [row EXCEPT ![i].job = outcome]
    BY <1>1 DEF PrepEnds
  <1>2. ASSUME NEW w \in sending, NEW ok \in BOOLEAN, NEW retryable \in BOOLEAN,
               NEW arrived \in BOOLEAN, SendEnds(w, ok, retryable, arrived)
        PROVE  UNCHANGED <<pend, disk, ghost, hidden, restarts, phase, row>>
    BY <1>2 DEF SendEnds
  <1>3. row \in [Items -> Row]
    BY DEF HistInv, OwnerInv, TypeInv, TypeOK
  <1>4. ASSUME NEW i \in Items, NEW outcome \in {"ready", "broken"},
               row' = [row EXCEPT ![i].job = outcome], NEW j \in Items
        PROVE  /\ row'[j].stage = row[j].stage /\ row'[j].dismissed = row[j].dismissed
               /\ row'[j].fwd = row[j].fwd /\ row'[j].cut = row[j].cut
               /\ row'[j].queued = row[j].queued /\ row'[j].failed = row[j].failed
               /\ row'[j].acct = row[j].acct /\ row'[j].attempts = row[j].attempts
    BY <1>3, <1>4 DEF Row
  <1> QED BY <1>1, <1>2, <1>4 DEF Workers

LEMMA FlushFields ==
  ASSUME NEW r \in Row, NEW next,
         \/ next = r \/ next = [r EXCEPT !.queued = FALSE]
         \/ next = [[r EXCEPT !.queued = FALSE] EXCEPT !.job = "running"]
  PROVE  /\ next.stage = r.stage /\ next.dismissed = r.dismissed
         /\ next.fwd = r.fwd /\ next.cut = r.cut
         /\ next.acct = r.acct /\ next.attempts = r.attempts
         /\ next.queued => r.queued
         /\ next.failed = r.failed
  BY DEF Row

\* The frame loop's own changes of a row.
LEMMA SteadyRows ==
  ASSUME HistInv,
         \/ \E i \in Items : PrepFailed(i) \/ PrepSends(i) \/ Retry(i)
         \/ \E d \in batch : SettleFailed(d)
         \/ FlushQueued
  PROVE  Steady
  <1> USE DEF rowVars, fileVars, outVars
  <1>a. row \in [Items -> Row] /\ PreparingNotQueued /\ SingleOwner /\ DeletedNeverReturns
        /\ batch \subseteq Done
    BY DEF HistInv, AwayInv, OwnerInv, TypeInv, TypeOK
  <1>1. ASSUME NEW i \in Items, PrepFailed(i) PROVE Steady
    <2>1. i \in pend /\ ~row[i].dismissed /\ i \notin ghost.deleted
      BY <1>1, <1>a DEF PrepFailed, Prepared, DeletedNeverReturns
    <2>2. row' = [row EXCEPT ![i].failed = TRUE]
          /\ UNCHANGED <<pend, disk, ghost, hidden, restarts, phase>>
      BY <1>1 DEF PrepFailed
    <2> QED BY <1>a, <2>1, <2>2 DEF Steady, Row
  <1>2. ASSUME NEW i \in Items, PrepSends(i) PROVE Steady
    <2>1. row' = [row EXCEPT ![i].stage = "send", ![i].job = "idle"]
          /\ UNCHANGED <<pend, disk, ghost, hidden, restarts, phase>>
      BY <1>2 DEF PrepSends
    <2> QED BY <1>a, <2>1 DEF Steady, Row
  <1>3. ASSUME NEW i \in Items, Retry(i) PROVE Steady
    <2> DEFINE fresh == [row[i] EXCEPT !.failed = FALSE, !.attempts = 0]
    <2>1. /\ fresh.stage = row[i].stage /\ fresh.dismissed = row[i].dismissed
          /\ fresh.fwd = row[i].fwd /\ fresh.cut = row[i].cut
          /\ fresh.queued = row[i].queued /\ fresh.failed = FALSE /\ fresh \in Row
      BY <1>a DEF Row
    <2>2. row' = [row EXCEPT ![i] = SpawnRow(fresh)]
          /\ UNCHANGED <<pend, disk, ghost, hidden, restarts>> /\ phase' = "drain"
      BY <1>3 DEF Retry, Goto
    <2> HIDE DEF fresh
    <2>3. \A j \in Items : j # i => row'[j] = row[j]
      BY <1>a, <2>2
    <2>4. row'[i] = fresh \/ row'[i] = [fresh EXCEPT !.job = "running"]
      BY <1>a, <2>2 DEF SpawnRow
    <2>5. /\ row'[i].stage = fresh.stage /\ row'[i].dismissed = fresh.dismissed
          /\ row'[i].fwd = fresh.fwd /\ row'[i].cut = fresh.cut
          /\ row'[i].queued = fresh.queued /\ row'[i].failed = fresh.failed
      BY <2>1, <2>4 DEF Row
    <2> QED BY <2>1, <2>2, <2>3, <2>5 DEF Steady
  <1>4. ASSUME NEW d \in batch, SettleFailed(d) PROVE Steady
    <2> DEFINE i == d.item
    <2>1. i \in Items /\ d.retryable \in BOOLEAN
      BY <1>a DEF Done
    <2>2. i \in pend /\ ~row[i].dismissed /\ i \notin ghost.deleted
      BY <1>4, <1>a DEF SettleFailed, DeletedNeverReturns
    <2>3. row' = [row EXCEPT ![i] = Tried(row[i], d.retryable)]
          /\ UNCHANGED <<pend, disk, ghost, hidden, restarts, phase>>
      BY <1>4 DEF SettleFailed
    <2>4. \A j \in Items : j # i => row'[j] = row[j]
      BY <1>a, <2>1, <2>3
    <2>5. row'[i] = Tried(row[i], d.retryable) /\ row[i] \in Row
      BY <1>a, <2>1, <2>3
    <2>6. /\ row'[i].stage = row[i].stage /\ row'[i].dismissed = row[i].dismissed
          /\ row'[i].fwd = row[i].fwd /\ row'[i].cut = row[i].cut
      BY <2>5 DEF Tried, Row
    <2> HIDE DEF i
    <2> QED BY <2>2, <2>3, <2>4, <2>6 DEF Steady
  <1>5. ASSUME FlushQueued PROVE Steady
    <2>1. UNCHANGED <<pend, disk, ghost, hidden, restarts>> /\ phase' = "input"
      BY <1>5 DEF FlushQueued, Goto
    <2>2. ASSUME NEW i \in Items
          PROVE  \/ row'[i] = row[i]
                 \/ row'[i] = [row[i] EXCEPT !.queued = FALSE]
                 \/ row'[i] = [[row[i] EXCEPT !.queued = FALSE] EXCEPT !.job = "running"]
      BY <1>5 DEF FlushQueued, SpawnRow, Flushed
    <2>3. ASSUME NEW i \in Items
          PROVE  /\ row'[i].stage = row[i].stage /\ row'[i].dismissed = row[i].dismissed
                 /\ row'[i].fwd = row[i].fwd /\ row'[i].cut = row[i].cut
                 /\ row'[i].queued => row[i].queued
                 /\ row'[i].failed = row[i].failed
      <3>1. row[i] \in Row
        BY <1>a
      <3> DEFINE next == row'[i]
      <3>2. \/ next = row[i] \/ next = [row[i] EXCEPT !.queued = FALSE]
            \/ next = [[row[i] EXCEPT !.queued = FALSE] EXCEPT !.job = "running"]
        BY <2>2
      <3> HIDE DEF next
      <3>3. /\ next.stage = row[i].stage /\ next.dismissed = row[i].dismissed
            /\ next.fwd = row[i].fwd /\ next.cut = row[i].cut
            /\ next.queued => row[i].queued
            /\ next.failed = row[i].failed
        BY <3>1, <3>2, FlushFields
      <3> QED BY <3>3 DEF next
    <2> QED BY <2>1, <2>3 DEF Steady
  <1> QED BY <1>1, <1>2, <1>3, <1>4, <1>5

-----------------------------------------------------------------------------
(* Steps that take a row away.                                             *)

LEMMA RemoveFields ==
  ASSUME TypeInv, NEW i \in Items, NEW b \in BOOLEAN, Remove(i, b)
  PROVE  /\ pend' = pend \ {i}
         /\ row'[i].fwd = FALSE /\ row'[i].stage = "send"
         /\ \A j \in Items : j # i =>
              /\ row'[j].stage = row[j].stage /\ row'[j].dismissed = row[j].dismissed
              /\ row'[j].fwd = row[j].fwd /\ row'[j].acct = row[j].acct
              /\ row'[j].queued = row[j].queued /\ row'[j].failed = row[j].failed
              /\ row'[j].attempts = row[j].attempts
              /\ row[j].cut => row'[j].cut
              /\ b /\ j = Sibling(i) /\ row[i].fwd /\ row[j].fwd => row'[j].cut
  BY DEF Remove, Blank, NewRow, TypeInv, TypeOK, Row

\* The queue file a save leaves holds rows the user has not deleted.
LEMMA SavedRows ==
  ASSUME NEW rows \in SUBSET Items, NEW fields, SaveOffline(rows, fields)
  PROVE  \A i \in Items : OnDisk(i)' => i \in rows /\ ~fields[i].dismissed /\ fields[i].stage = "send"
  BY DEF SaveOffline, Entries, OnDisk, Durable

\* What the history gains when a row goes: the part is deleted or drained.
Leaves(i) ==
  /\ ghost'.author = ghost.author /\ ghost'.split = ghost.split
  /\ ghost'.settled = ghost.settled
  /\ \/ ghost'.deleted = ghost.deleted /\ ghost'.drained = ghost.drained \cup {i}
     \/ ghost'.deleted = ghost.deleted \cup {i} /\ ghost'.drained = ghost.drained

\* A row goes because its part was deleted, which cuts its forward short, or because it
\* was delivered; then a deleted part is hidden.
LEMMA HistRemove ==
  ASSUME HistInv, NEW i \in Items, i \in pend, NEW b \in BOOLEAN, Remove(i, b), Leaves(i),
         phase' # "locked", restarts' = restarts, hidden \subseteq hidden',
         \A j \in Items : OnDisk(j)' => \/ OnDisk(j) /\ (j \in ghost'.deleted => j \in ghost.deleted)
                                        \/ j \in pend' /\ ~row'[j].dismissed,
         ~b => i \in ghost'.drained /\ i \notin ghost'.deleted,
         i \in ghost'.deleted /\ i \in ghost'.drained => i \in hidden' \/ restarts # 0
  PROVE  AwayInv' /\ FateInv'
  <1>a. TypeInv /\ AwayInv /\ FateInv
    BY DEF HistInv, OwnerInv
  <1>b. /\ pend' = pend \ {i}
        /\ row'[i].fwd = FALSE /\ row'[i].stage = "send"
        /\ \A j \in Items : j # i =>
              /\ row'[j].stage = row[j].stage /\ row'[j].dismissed = row[j].dismissed
              /\ row'[j].fwd = row[j].fwd /\ row'[j].acct = row[j].acct
              /\ row'[j].queued = row[j].queued /\ row'[j].failed = row[j].failed
              /\ row'[j].attempts = row[j].attempts
              /\ row[j].cut => row'[j].cut
              /\ b /\ j = Sibling(i) /\ row[i].fwd /\ row[j].fwd => row'[j].cut
    BY <1>a, RemoveFields
  <1>c. /\ \A j \in Items : j # i => /\ j \in ghost'.deleted <=> j \in ghost.deleted
                                     /\ j \in ghost'.drained <=> j \in ghost.drained
        /\ ghost'.settled = ghost.settled /\ ghost'.author = ghost.author
        /\ ghost'.split = ghost.split
        /\ i \in ghost'.deleted \cup ghost'.drained
        /\ ghost.drained \subseteq ghost'.drained /\ ghost.deleted \subseteq ghost'.deleted
    BY DEF Leaves
  <1>d. ghost.deleted \subseteq Items /\ ghost'.deleted \subseteq Items
        /\ ghost'.drained \subseteq Items /\ ghost.split \subseteq Messages
    BY <1>a, GhostType DEF Leaves
  <1>1. KnownStarted'
    <2> SUFFICES ASSUME NEW j \in Items,
                        j \in pend' \/ OnDisk(j)'
                          \/ j \in ghost'.deleted \cup ghost'.drained \cup ghost'.settled
                 PROVE  Started(j)'
      BY DEF KnownStarted
    <2>1. j \in pend \/ OnDisk(j) \/ j \in ghost.deleted \cup ghost.drained \cup ghost.settled
      BY <1>b, <1>c
    <2>2. Started(j)
      BY <1>a, <2>1 DEF AwayInv, KnownStarted
    <2> QED BY <1>c, <2>2 DEF Started
  <1>2. SplitOnce'
    <2> SUFFICES ASSUME NEW m \in ghost'.split
                 PROVE  ghost'.author[m] # NoAccount /\ row'[<<m, "body">>].stage # "forward"
      BY DEF SplitOnce
    <2> DEFINE k == <<m, "body">>
    <2>1. m \in ghost.split /\ k \in Items
      BY <1>c, <1>d DEF Items
    <2>2. ghost.author[m] # NoAccount /\ row[k].stage # "forward"
      BY <1>a, <2>1 DEF AwayInv, SplitOnce
    <2> HIDE DEF k
    <2>3. row'[k].stage = row[k].stage \/ row'[k].stage = "send"
      BY <1>b, <2>1
    <2>4. row'[k].stage # "forward"
      BY <2>2, <2>3
    <2> QED BY <1>c, <2>2, <2>4 DEF k
  <1>3. DismissedDeleted'
    BY <1>a, <1>b, <1>c DEF AwayInv, DismissedDeleted
  <1>4. DeletedNeverReturns'
    <2> SUFFICES ASSUME NEW j \in ghost'.deleted
                 PROVE  /\ ~OnDisk(j)'
                        /\ j \in pend' => row'[j].dismissed /\ ~row'[j].queued /\ ~row'[j].failed
      BY DEF DeletedNeverReturns
    <2>1. j \in Items
      BY <1>d
    <2>2. j \in pend' => j # i /\ j \in ghost.deleted
      BY <1>b, <1>c, <2>1
    <2>3. j \in pend' => row'[j].dismissed /\ ~row'[j].queued /\ ~row'[j].failed
      BY <1>a, <1>b, <2>1, <2>2 DEF AwayInv, DeletedNeverReturns
    <2>4. ~OnDisk(j)'
      BY <1>a, <2>1, <2>3 DEF AwayInv, DeletedNeverReturns
    <2> QED BY <2>3, <2>4
  <1>5. SettledAway'
    BY <1>a, <1>b, <1>c DEF AwayInv, SettledAway
  <1>6. FirstSession'
    BY <1>a, <1>b, <1>c DEF FateInv, FirstSession
  <1>7. DeletedIsHidden'
    BY <1>a, <1>c, <1>d DEF FateInv, DeletedIsHidden
  <1>8. NothingVanishes'
    <2>1. \A m \in Messages : Parts(m)' = Parts(m)
      BY <1>c DEF Parts
    <2>2. \A m \in Messages : \A j \in Parts(m) : j \in Items
      BY PartsItems
    <2> QED BY <1>a, <1>b, <1>c, <2>1, <2>2 DEF FateInv, NothingVanishes
  <1>9. ForwardMarks'
    BY <1>a, <1>b DEF FateInv, ForwardMarks
  <1>10. ForwardWhole'
    <2> SUFFICES ASSUME NEW j \in Items, j \in pend', row'[j].fwd, ~row'[j].cut,
                        Sibling(j) \in Parts(j[1])'
                 PROVE  OtherPart(j)'
      BY DEF ForwardWhole
    <2>1. j # i /\ j \in pend /\ row[j].fwd /\ ~row[j].cut
      BY <1>b
    <2>2. OtherPart(j)
      BY <1>a, <1>c, <2>1 DEF FateInv, ForwardWhole, Parts
    <2>3. CASE Sibling(j) # i
      BY <1>b, <1>c, <2>2, <2>3, SiblingType DEF OtherPart
    <2>4. CASE Sibling(j) = i
      <3>1. j = Sibling(i) /\ row[i].fwd
        BY <2>2, <2>4, SiblingTwice DEF OtherPart
      <3>2. ~b
        BY <1>b, <2>1, <3>1
      <3>3. i \notin pend' /\ i \in ghost'.drained /\ i \notin ghost'.deleted
        BY <1>b, <3>2 DEF Leaves
      <3> QED BY <2>4, <3>3 DEF OtherPart
    <2> QED BY <2>3, <2>4
  <1> QED BY <1>1, <1>2, <1>3, <1>4, <1>5, <1>6, <1>7, <1>8, <1>9, <1>10 DEF AwayInv, FateInv

\* PrepDismissed, SettleGone and Delete.
LEMMA HistRemoves ==
  ASSUME HistInv,
         \/ \E i \in Items : PrepDismissed(i) \/ Delete(i)
         \/ \E d \in batch : SettleGone(d)
  PROVE  AwayInv' /\ FateInv'
  <1> USE DEF rowVars, fileVars, outVars
  <1>a. /\ TypeInv /\ row \in [Items -> Row] /\ pend \subseteq Items /\ batch \subseteq Done
        /\ DismissedDeleted /\ DeletedNeverReturns /\ DeletedIsHidden /\ FirstSession
        /\ LockedIsEmpty /\ SingleOwner
    BY DEF HistInv, AwayInv, FateInv, OwnerInv, TypeInv, TypeOK
  <1>b. ghost.drained \subseteq Items /\ ghost.deleted \subseteq Items
    BY <1>a, GhostType
  <1>1. ASSUME NEW i \in Items, PrepDismissed(i) PROVE AwayInv' /\ FateInv'
    <2>1. /\ i \in pend /\ row[i].dismissed /\ Remove(i, TRUE)
          /\ UNCHANGED <<disk, ghost, hidden, restarts>> /\ phase' # "locked"
      BY <1>1 DEF PrepDismissed, Prepared
    <2>2. i \in ghost.deleted
      BY <1>a, <2>1 DEF DismissedDeleted
    <2>3. Leaves(i)
      BY <2>1, <2>2 DEF Leaves
    <2>4. \A j \in Items : OnDisk(j)' => OnDisk(j)
      BY <2>1 DEF OnDisk
    <2>5. i \in ghost.drained => i \in hidden \/ restarts # 0
      BY <1>a, <2>2 DEF DeletedIsHidden
    <2> QED BY <2>1, <2>3, <2>4, <2>5, HistRemove
  <1>2. ASSUME NEW i \in Items, Delete(i) PROVE AwayInv' /\ FateInv'
    <2>1. /\ i \in pend /\ Remove(i, TRUE) /\ SaveOffline(pend', row')
          /\ ghost' = [ghost EXCEPT !.deleted = @ \cup {i}]
          /\ UNCHANGED <<hidden, restarts>> /\ phase' = "drain"
      BY <1>2 DEF Delete, Drawn, Goto
    <2>2. Leaves(i)
      BY <1>a, <2>1, GhostType DEF Leaves
    <2>3. pend' \subseteq Items
      BY <1>a, <2>1 DEF Remove
    <2>4. \A j \in Items : OnDisk(j)' => j \in pend' /\ ~row'[j].dismissed
      BY <2>1, <2>3, SavedRows
    <2>5. i \in ghost'.drained => restarts # 0
      BY <1>a, <2>1, GhostType DEF FirstSession
    <2> QED BY <2>1, <2>2, <2>4, <2>5, HistRemove
  <1>3. ASSUME NEW d \in batch, SettleGone(d) PROVE AwayInv' /\ FateInv'
    <2> DEFINE i == d.item
               b == row[i].dismissed
    <2>1. i \in Items /\ i \in pend /\ b \in BOOLEAN /\ d.ok \in BOOLEAN
      BY <1>a, <1>3 DEF SettleGone, Done, Row
    <2>2. /\ Remove(i, b) /\ (b \/ d.ok)
          /\ UNCHANGED <<disk, restarts>> /\ phase' = "settle"
          /\ hidden' = IF Hides(d) THEN hidden \cup {i} ELSE hidden
          /\ ghost' = IF d.ok THEN [ghost EXCEPT !.drained = @ \cup {i}] ELSE ghost
      BY <1>3 DEF SettleGone
    <2>3. Hides(d) <=> b /\ d.ok
      BY DEF Hides
    <2>4. b <=> i \in ghost.deleted
      BY <1>a, <2>1 DEF DismissedDeleted, DeletedNeverReturns
    <2> HIDE DEF i, b
    <2>5. /\ ghost'.author = ghost.author /\ ghost'.split = ghost.split
          /\ ghost'.settled = ghost.settled /\ ghost'.deleted = ghost.deleted
          /\ ghost'.drained = IF d.ok THEN ghost.drained \cup {i} ELSE ghost.drained
      BY <1>a, <2>2, GhostType
    <2>6. Leaves(i)
      BY <2>2, <2>4, <2>5 DEF Leaves
    <2>7. \A j \in Items : OnDisk(j)' => OnDisk(j)
      BY <2>2 DEF OnDisk
    <2>8. i \in ghost'.deleted /\ i \in ghost'.drained => i \in hidden' \/ restarts # 0
      BY <1>a, <2>2, <2>3, <2>4, <2>5 DEF DeletedIsHidden
    <2>9. ~b => i \in ghost'.drained /\ i \notin ghost'.deleted
      BY <2>2, <2>4, <2>5
    <2>10. hidden \subseteq hidden'
      BY <2>2
    <2> QED BY <2>1, <2>2, <2>5, <2>6, <2>7, <2>8, <2>9, <2>10, HistRemove
  <1> QED BY <1>1, <1>2, <1>3

-----------------------------------------------------------------------------
(* The steps that hide, save or add rows.                                  *)

LEMMA HistDismiss ==
  ASSUME HistInv, NEW i \in Items, Dismiss(i)
  PROVE  AwayInv' /\ FateInv'
  <1>a. /\ TypeInv /\ AwayInv /\ FateInv /\ row \in [Items -> Row] /\ pend \subseteq Items
    BY DEF HistInv, OwnerInv, TypeInv, TypeOK
  <1>1. /\ i \in pend /\ ~row[i].failed /\ ~row[i].queued
        /\ row' = [row EXCEPT ![i].dismissed = TRUE] /\ SaveOffline(pend, row')
        /\ ghost' = [ghost EXCEPT !.deleted = @ \cup {i}] /\ phase' = "drain"
        /\ UNCHANGED <<pend, hidden, restarts>>
    BY DEF Dismiss, Drawn, Borrowed, Goto, outVars
  <1>2. /\ ghost'.author = ghost.author /\ ghost'.split = ghost.split
        /\ ghost'.settled = ghost.settled /\ ghost'.drained = ghost.drained
        /\ ghost'.deleted = ghost.deleted \cup {i} /\ ghost.deleted \subseteq Items
        /\ ghost.split \subseteq Messages
    BY <1>a, <1>1, GhostType
  <1>3. /\ row'[i].dismissed = TRUE
        /\ \A j \in Items : /\ row'[j].stage = row[j].stage /\ row'[j].fwd = row[j].fwd
                            /\ row'[j].cut = row[j].cut
                            /\ row'[j].queued = row[j].queued /\ row'[j].failed = row[j].failed
                            /\ j # i => row'[j].dismissed = row[j].dismissed
    BY <1>a, <1>1 DEF Row
  <1>4. \A j \in Items : OnDisk(j)' => j \in pend /\ ~row'[j].dismissed
    BY <1>a, <1>1, SavedRows
  <1>5. KnownStarted'
    BY <1>a, <1>1, <1>2, <1>4 DEF AwayInv, KnownStarted, Started
  <1>6. SplitOnce'
    <2>1. \A m \in ghost.split : <<m, "body">> \in Items
      BY <1>2 DEF Items
    <2> QED BY <1>a, <1>2, <1>3, <2>1 DEF AwayInv, SplitOnce
  <1>7. DismissedDeleted'
    BY <1>a, <1>1, <1>2, <1>3 DEF AwayInv, DismissedDeleted
  <1>8. DeletedNeverReturns'
    <2> SUFFICES ASSUME NEW j \in ghost'.deleted
                 PROVE  /\ ~OnDisk(j)'
                        /\ j \in pend' => row'[j].dismissed /\ ~row'[j].queued /\ ~row'[j].failed
      BY DEF DeletedNeverReturns
    <2>1. j \in Items
      BY <1>2
    <2>2. j \in pend => row'[j].dismissed /\ ~row'[j].queued /\ ~row'[j].failed
      BY <1>a, <1>1, <1>2, <1>3, <2>1 DEF AwayInv, DeletedNeverReturns
    <2> QED BY <1>1, <1>4, <2>1, <2>2
  <1>9. SettledAway'
    BY <1>a, <1>1, <1>2, <1>4 DEF AwayInv, SettledAway
  <1>10. FirstSession' /\ DeletedIsHidden'
    BY <1>a, <1>1, <1>2 DEF FateInv, FirstSession, DeletedIsHidden
  <1>11. NothingVanishes'
    BY <1>a, <1>1, <1>2 DEF FateInv, NothingVanishes, Parts
  <1>12. ForwardMarks'
    BY <1>a, <1>1, <1>3 DEF FateInv, ForwardMarks
  <1>13. ForwardWhole'
    <2> SUFFICES ASSUME NEW j \in Items, j \in pend, row[j].fwd, ~row[j].cut,
                        Sibling(j) \in Parts(j[1])
                 PROVE  OtherPart(j)'
      BY <1>1, <1>2, <1>3 DEF ForwardWhole, Parts
    <2>1. OtherPart(j)
      BY <1>a DEF FateInv, ForwardWhole
    <2> QED BY <1>1, <1>2, <1>3, <2>1, SiblingType DEF OtherPart
  <1> QED BY <1>5, <1>6, <1>7, <1>8, <1>9, <1>10, <1>11, <1>12, <1>13 DEF AwayInv, FateInv

LEMMA HistDrainEnds ==
  ASSUME HistInv, DrainEnds
  PROVE  AwayInv' /\ FateInv'
  <1>a. /\ TypeInv /\ AwayInv /\ FateInv /\ pend \subseteq Items
    BY DEF HistInv, OwnerInv, TypeInv, TypeOK
  <1>1. /\ UNCHANGED <<pend, row, hidden, restarts>> /\ phase' = "flush"
        /\ \/ /\ SaveOffline(pend, row)
              /\ ghost' = [ghost EXCEPT !.settled = @ \cup (ghost.drained \ pend)]
           \/ UNCHANGED <<disk, ghost>>
    BY DEF DrainEnds, Goto, rowVars, outVars, fileVars
  <1>2. /\ ghost'.author = ghost.author /\ ghost'.split = ghost.split
        /\ ghost'.deleted = ghost.deleted /\ ghost'.drained = ghost.drained
        /\ \/ SaveOffline(pend, row) /\ ghost'.settled = ghost.settled \cup (ghost.drained \ pend)
           \/ disk' = disk /\ ghost'.settled = ghost.settled
        /\ ghost.deleted \subseteq Items
    BY <1>a, <1>1, GhostType
  <1>3. \A j \in Items : OnDisk(j)' => \/ SaveOffline(pend, row) /\ j \in pend /\ ~row[j].dismissed
                                       \/ disk' = disk /\ ghost'.settled = ghost.settled /\ OnDisk(j)
    BY <1>a, <1>2, SavedRows DEF OnDisk
  <1>4. KnownStarted'
    BY <1>a, <1>1, <1>2, <1>3 DEF AwayInv, KnownStarted, Started
  <1>5. SplitOnce' /\ DismissedDeleted'
    BY <1>a, <1>1, <1>2 DEF AwayInv, SplitOnce, DismissedDeleted
  <1>6. DeletedNeverReturns'
    <2> SUFFICES ASSUME NEW j \in ghost.deleted PROVE ~OnDisk(j)'
      BY <1>a, <1>1, <1>2 DEF AwayInv, DeletedNeverReturns
    <2> QED BY <1>a, <1>2, <1>3 DEF AwayInv, DeletedNeverReturns
  <1>7. SettledAway'
    <2> SUFFICES ASSUME NEW j \in Items, j \in ghost'.settled PROVE j \notin pend /\ ~OnDisk(j)'
      BY <1>1 DEF SettledAway
    <2>1. j \notin pend
      BY <1>a, <1>2 DEF AwayInv, SettledAway
    <2> QED BY <1>a, <1>3, <2>1 DEF AwayInv, SettledAway
  <1>8. FateInv'
    <2>1. FirstSession' /\ DeletedIsHidden'
      BY <1>a, <1>1, <1>2 DEF FateInv, FirstSession, DeletedIsHidden
    <2>2. NothingVanishes' /\ ForwardMarks'
      BY <1>a, <1>1, <1>2 DEF FateInv, NothingVanishes, Parts, ForwardMarks
    <2>3. ForwardWhole'
      BY <1>a, <1>1, <1>2 DEF FateInv, ForwardWhole, OtherPart, Parts
    <2> QED BY <2>1, <2>2, <2>3 DEF FateInv
  <1> QED BY <1>4, <1>5, <1>6, <1>7, <1>8 DEF AwayInv

\* A new message has no history, so its row is the first thing known of it.
LEMMA HistCompose ==
  ASSUME HistInv, NEW m \in Messages, NEW stage \in {"gif", "forward", "send"}, Compose(m, stage)
  PROVE  AwayInv' /\ FateInv'
  <1> DEFINE i == <<m, "body">>
             t == <<m, "text">>
             new == NewRow(stage, IF Kind[m] = "text" THEN NoAccount ELSE account, Kind[m] = "forward")
  <1>a. /\ TypeInv /\ AwayInv /\ FateInv /\ row \in [Items -> Row] /\ pend \subseteq Items
    BY DEF HistInv, OwnerInv, TypeInv, TypeOK
  <1>b. i \in Items /\ t \in Items /\ i[1] = m /\ t[1] = m /\ i[2] = "body" /\ t[2] = "text"
    BY DEF Items
  <1>1. /\ ghost.author[m] = NoAccount /\ account # NoAccount /\ account \in Accounts
        /\ stage = "forward" => Kind[m] = "forward"
        /\ pend' = pend \cup {i} /\ row' = [row EXCEPT ![i] = SpawnRow(new)]
        /\ ghost' = [ghost EXCEPT !.author[m] = account] /\ phase' = "drain"
        /\ UNCHANGED <<disk, hidden, restarts>>
    BY <1>a DEF Compose, Composer, Typed, PicksGif, Forwards, Goto, fileVars, outVars, TypeInv, TypeOK
  <1>2. /\ ghost'.author = [ghost.author EXCEPT ![m] = account] /\ ghost'.split = ghost.split
        /\ ghost'.settled = ghost.settled /\ ghost'.drained = ghost.drained
        /\ ghost'.deleted = ghost.deleted /\ ghost.deleted \subseteq Items
        /\ ghost.split \subseteq Messages
        /\ ghost.author \in [Messages -> Accounts \cup {NoAccount}]
    BY <1>a, <1>1, GhostType
  <1>3. /\ ghost'.author[m] # NoAccount
        /\ \A n \in Messages : n # m => ghost'.author[n] = ghost.author[n]
    BY <1>1, <1>2
  <1>4. /\ i \notin pend /\ ~OnDisk(i) /\ t \notin pend
        /\ i \notin ghost.deleted \cup ghost.drained \cup ghost.settled
    BY <1>a, <1>b, <1>1 DEF AwayInv, KnownStarted, Started
  <1>5. m \notin ghost.split
    BY <1>a, <1>1 DEF AwayInv, SplitOnce
  <1>6. new \in Row /\ new.stage = stage /\ new.fwd = (Kind[m] = "forward") /\ ~new.dismissed
        /\ ~new.queued /\ ~new.failed
    BY <1>1, NewRowType DEF NewRow
  <1> HIDE DEF new
  <1>7. row'[i] = SpawnRow(new) /\ \A j \in Items : j # i => row'[j] = row[j]
    BY <1>a, <1>b, <1>1
  <1>8. /\ row'[i].stage = stage /\ row'[i].fwd = (Kind[m] = "forward") /\ ~row'[i].dismissed
        /\ ~row'[i].queued /\ ~row'[i].failed
    BY <1>6, <1>7 DEF SpawnRow, Row
  <1>9. \A j \in Items : OnDisk(j)' <=> OnDisk(j)
    BY <1>1 DEF OnDisk
  <1>10. KnownStarted'
    <2> SUFFICES ASSUME NEW j \in Items,
                        j \in pend' \/ OnDisk(j)'
                          \/ j \in ghost'.deleted \cup ghost'.drained \cup ghost'.settled
                 PROVE  Started(j)'
      BY DEF KnownStarted
    <2>1. CASE j = i
      BY <1>b, <1>3, <2>1 DEF Started
    <2>2. CASE j # i
      <3>1. Started(j)
        BY <1>a, <1>1, <1>2, <1>9, <2>2 DEF AwayInv, KnownStarted
      <3>2. j[1] \in Messages
        BY DEF Items
      <3> QED BY <1>1, <1>2, <1>3, <3>1, <3>2 DEF Started
    <2> QED BY <2>1, <2>2
  <1>11. SplitOnce'
    <2> SUFFICES ASSUME NEW n \in ghost.split
                 PROVE  ghost'.author[n] # NoAccount /\ row'[<<n, "body">>].stage # "forward"
      BY <1>2 DEF SplitOnce
    <2>1. n # m /\ n \in Messages /\ <<n, "body">> \in Items /\ <<n, "body">> # i
      BY <1>2, <1>5 DEF Items
    <2> QED BY <1>a, <1>3, <1>7, <2>1 DEF AwayInv, SplitOnce
  <1>12. DismissedDeleted' /\ SettledAway'
    BY <1>a, <1>1, <1>2, <1>4, <1>7, <1>8, <1>9 DEF AwayInv, DismissedDeleted, SettledAway
  <1>13. DeletedNeverReturns'
    <2> SUFFICES ASSUME NEW j \in ghost.deleted
                 PROVE  /\ ~OnDisk(j)'
                        /\ j \in pend' => row'[j].dismissed /\ ~row'[j].queued /\ ~row'[j].failed
      BY <1>2 DEF DeletedNeverReturns
    <2>1. j \in Items /\ j # i
      BY <1>2, <1>4
    <2> QED BY <1>a, <1>1, <1>7, <1>9, <2>1 DEF AwayInv, DeletedNeverReturns
  <1>14. FirstSession' /\ DeletedIsHidden'
    BY <1>a, <1>1, <1>2, <1>4 DEF FateInv, FirstSession, DeletedIsHidden
  <1>15. NothingVanishes'
    <2> SUFFICES ASSUME restarts = 0, NEW n \in Messages, ghost'.author[n] # NoAccount, NEW j \in Parts(n)
                 PROVE  j \in pend' \cup ghost.drained \cup ghost.deleted
      BY <1>1, <1>2 DEF NothingVanishes, Parts
    <2>1. CASE n = m
      BY <1>1, <1>5, <2>1 DEF Parts
    <2>2. CASE n # m
      BY <1>a, <1>1, <1>3, <2>2 DEF FateInv, NothingVanishes
    <2> QED BY <2>1, <2>2
  <1>16. ForwardMarks'
    BY <1>a, <1>1, <1>7, <1>8 DEF FateInv, ForwardMarks
  <1>17. ForwardWhole'
    <2> SUFFICES ASSUME NEW j \in Items, j \in pend', row'[j].fwd, ~row'[j].cut,
                        Sibling(j) \in Parts(j[1])
                 PROVE  OtherPart(j)'
      BY <1>2 DEF ForwardWhole, Parts
    <2>1. j # i
      BY <1>b, <1>5 DEF Sibling, Parts
    <2>2. Sibling(j) # i
      BY <1>1, <1>4, <2>1 DEF Sibling, Items
    <2>3. OtherPart(j)
      BY <1>a, <1>1, <1>7, <2>1 DEF FateInv, ForwardWhole
    <2> QED BY <1>1, <1>2, <1>7, <2>2, <2>3, SiblingType DEF OtherPart
  <1> QED BY <1>10, <1>11, <1>12, <1>13, <1>14, <1>15, <1>16, <1>17 DEF AwayInv, FateInv

\* The caption of a forward gets its row: it had none before, and no history.
LEMMA CaptionIsNew ==
  ASSUME HistInv, NEW i \in Items, PrepSplits(i)
  PROVE  /\ i \in pend /\ i[2] = "body" /\ i[1] \in Messages /\ i = <<i[1], "body">>
         /\ Sibling(i) = <<i[1], "text">> /\ i[1] \notin ghost.split
         /\ Sibling(i) \notin pend /\ ~OnDisk(Sibling(i))
         /\ Sibling(i) \notin ghost.deleted \cup ghost.drained \cup ghost.settled
         /\ row[i].fwd /\ ~row[i].dismissed /\ ghost.author[i[1]] # NoAccount
  <1>a. CaptionFollows /\ AwayInv /\ ForwardMarks
    BY DEF HistInv, OwnerInv, FateInv
  <1>1. i \in pend /\ row[i].stage = "forward" /\ ~row[i].dismissed
    BY DEF PrepSplits, Usable, Prepared
  <1>2. i[2] = "body" /\ row[i].fwd
    BY <1>a, <1>1 DEF CaptionFollows, ForwardMarks
  <1>3. i[1] \in Messages /\ i = <<i[1], "body">> /\ Sibling(i) = <<i[1], "text">>
    BY <1>2 DEF Items, Sibling
  <1>4. i[1] \notin ghost.split
    BY <1>a, <1>1, <1>3 DEF AwayInv, SplitOnce
  <1>5. ~Started(Sibling(i)) /\ Started(i)
    BY <1>a, <1>1, <1>3, <1>4 DEF AwayInv, KnownStarted, Started
  <1>6. Sibling(i) \in Items
    BY SiblingType
  <1> QED BY <1>a, <1>1, <1>2, <1>3, <1>4, <1>5, <1>6 DEF AwayInv, KnownStarted, Started

LEMMA HistSplits ==
  ASSUME HistInv, NEW i \in Items, PrepSplits(i)
  PROVE  AwayInv' /\ FateInv'
  <1> DEFINE t == Sibling(i)
             caption == [NewRow("send", row[i].acct, TRUE) EXCEPT !.cut = row[i].cut]
  <1>a. TypeInv /\ AwayInv /\ FateInv /\ row \in [Items -> Row] /\ pend \subseteq Items
    BY DEF HistInv, OwnerInv, TypeInv, TypeOK
  <1>b. /\ i \in pend /\ i[2] = "body" /\ i[1] \in Messages /\ i = <<i[1], "body">>
        /\ t = <<i[1], "text">> /\ i[1] \notin ghost.split
        /\ t \notin pend /\ ~OnDisk(t)
        /\ t \notin ghost.deleted \cup ghost.drained \cup ghost.settled
        /\ row[i].fwd /\ ~row[i].dismissed /\ ghost.author[i[1]] # NoAccount
    BY CaptionIsNew
  <1>c. t \in Items /\ t # i
    BY SiblingType
  <1>1. /\ pend' = pend \cup {t}
        /\ row' = [row EXCEPT ![i].stage = "send", ![i].job = "idle", ![t] = caption]
        /\ ghost' = [ghost EXCEPT !.split = @ \cup {i[1]}] /\ phase' = "drain"
        /\ UNCHANGED <<disk, hidden, restarts>>
    BY DEF PrepSplits, fileVars, outVars
  <1>2. caption.fwd /\ ~caption.dismissed /\ ~caption.queued /\ ~caption.failed /\ caption.stage = "send"
    BY DEF NewRow
  <1> HIDE DEF caption
  <1>3. /\ row'[t] = caption
        /\ row'[i].stage = "send" /\ row'[i].fwd = row[i].fwd /\ row'[i].dismissed = row[i].dismissed
        /\ row'[i].queued = row[i].queued /\ row'[i].failed = row[i].failed
        /\ \A j \in Items : j # i /\ j # t => row'[j] = row[j]
    BY <1>a, <1>c, <1>1 DEF Row
  <1>4. /\ ghost'.author = ghost.author /\ ghost'.split = ghost.split \cup {i[1]}
        /\ ghost'.settled = ghost.settled /\ ghost'.drained = ghost.drained
        /\ ghost'.deleted = ghost.deleted /\ ghost.deleted \subseteq Items
        /\ ghost.split \subseteq Messages
    BY <1>a, <1>1, GhostType
  <1>5. \A j \in Items : OnDisk(j)' <=> OnDisk(j)
    BY <1>1 DEF OnDisk
  <1>6. \A j \in Items : j # i /\ j # t => j[1] # i[1]
    BY <1>b DEF Items
  <1> HIDE DEF t
  <1>7. KnownStarted'
    <2> SUFFICES ASSUME NEW j \in Items,
                        j \in pend' \/ OnDisk(j)'
                          \/ j \in ghost'.deleted \cup ghost'.drained \cup ghost'.settled
                 PROVE  Started(j)'
      BY DEF KnownStarted
    <2>1. CASE j = t
      <3>1. j[1] = i[1]
        BY <1>b, <2>1
      <3> QED BY <1>b, <1>4, <3>1 DEF Started
    <2>2. CASE j # t
      <3>1. Started(j)
        BY <1>a, <1>1, <1>4, <1>5, <2>2 DEF AwayInv, KnownStarted
      <3> QED BY <1>4, <3>1 DEF Started
    <2> QED BY <2>1, <2>2
  <1>8. SplitOnce'
    <2> SUFFICES ASSUME NEW n \in ghost'.split
                 PROVE  ghost.author[n] # NoAccount /\ row'[<<n, "body">>].stage # "forward"
      BY <1>4 DEF SplitOnce
    <2>1. CASE n = i[1]
      BY <1>b, <1>3, <2>1
    <2>2. CASE n # i[1]
      <3>1. n \in ghost.split /\ <<n, "body">> \in Items /\ <<n, "body">> # i /\ <<n, "body">> # t
        BY <1>b, <1>4, <2>2 DEF Items
      <3> QED BY <1>a, <1>3, <3>1 DEF AwayInv, SplitOnce
    <2> QED BY <2>1, <2>2
  <1>9. DismissedDeleted' /\ SettledAway'
    BY <1>a, <1>b, <1>1, <1>2, <1>3, <1>4, <1>5 DEF AwayInv, DismissedDeleted, SettledAway
  <1>10. DeletedNeverReturns'
    <2> SUFFICES ASSUME NEW j \in ghost.deleted
                 PROVE  /\ ~OnDisk(j)'
                        /\ j \in pend' => row'[j].dismissed /\ ~row'[j].queued /\ ~row'[j].failed
      BY <1>4 DEF DeletedNeverReturns
    <2>1. j \in Items /\ j # t
      BY <1>b, <1>4
    <2>2. ~OnDisk(j) /\ (j \in pend => row[j].dismissed /\ ~row[j].queued /\ ~row[j].failed)
      BY <1>a DEF AwayInv, DeletedNeverReturns
    <2>3. j # i
      BY <1>b, <2>2
    <2> QED BY <1>1, <1>3, <1>5, <2>1, <2>2, <2>3
  <1>11. FirstSession' /\ DeletedIsHidden'
    BY <1>a, <1>b, <1>1, <1>4 DEF FateInv, FirstSession, DeletedIsHidden
  <1>12. NothingVanishes'
    <2> SUFFICES ASSUME restarts = 0, NEW n \in Messages, ghost.author[n] # NoAccount, NEW j \in Parts(n)'
                 PROVE  j \in pend' \cup ghost.drained \cup ghost.deleted
      BY <1>1, <1>4 DEF NothingVanishes
    <2>1. j \in Parts(n) \/ j = t
      BY <1>b, <1>4 DEF Parts
    <2>2. j \in Parts(n) => j \in pend \cup ghost.drained \cup ghost.deleted
      BY <1>a DEF FateInv, NothingVanishes
    <2> QED BY <1>1, <2>1, <2>2
  <1>13. ForwardMarks'
    BY <1>a, <1>1, <1>2, <1>3 DEF FateInv, ForwardMarks
  <1>14. ForwardWhole'
    <2> SUFFICES ASSUME NEW j \in Items, j \in pend', row'[j].fwd, ~row'[j].cut,
                        Sibling(j) \in Parts(j[1])'
                 PROVE  OtherPart(j)'
      BY DEF ForwardWhole
    <2>1. CASE j = i
      <3>1. Sibling(j) = t /\ t \in pend'
        BY <1>1, <2>1 DEF t
      <3> QED BY <1>2, <1>3, <3>1 DEF OtherPart
    <2>2. CASE j = t
      <3>1. Sibling(j) = i
        BY <1>c, <2>2, SiblingTwice DEF t
      <3> QED BY <1>b, <1>1, <1>3, <3>1 DEF OtherPart
    <2>3. CASE j # i /\ j # t
      <3>1. j[1] # i[1] /\ Sibling(j) # i /\ Sibling(j) # t
        BY <1>c, <1>6, <2>3, SiblingType, SiblingTwice DEF t
      <3>2. Sibling(j) \in Parts(j[1])
        BY <1>4, <3>1 DEF Parts
      <3>3. OtherPart(j)
        BY <1>a, <1>1, <1>3, <2>3, <3>2 DEF FateInv, ForwardWhole
      <3> QED BY <1>1, <1>3, <1>4, <3>1, <3>3, SiblingType DEF OtherPart
    <2> QED BY <2>1, <2>2, <2>3
  <1> QED BY <1>7, <1>8, <1>9, <1>10, <1>11, <1>12, <1>13, <1>14 DEF AwayInv, FateInv

\* A session that ends leaves the queue file, less what a torn write loses, and no row.
LEMMA HistEnds ==
  ASSUME HistInv, SessionStops \/ Crash
  PROVE  AwayInv' /\ FateInv'
  <1>a. TypeInv /\ AwayInv /\ FateInv /\ restarts \in Nat
    BY DEF HistInv, OwnerInv, TypeInv, TypeOK
  <1>1. SessionEnds
    BY DEF SessionStops, Crash
  <1>2. \A j \in Items : OnDisk(j)' => OnDisk(j)
    BY DEF SessionStops, Crash, OnDisk, fileVars
  <1>3. /\ pend' = {} /\ restarts' = restarts + 1 /\ UNCHANGED <<ghost, hidden>>
        /\ \A j \in Items : row'[j].stage = "send" /\ row'[j].fwd = FALSE
    BY <1>1 DEF SessionEnds, Blank, NewRow
  <1>4. restarts' # 0
    BY <1>a, <1>3
  <1>5. KnownStarted' /\ DismissedDeleted' /\ SettledAway'
    BY <1>a, <1>2, <1>3 DEF AwayInv, KnownStarted, Started, DismissedDeleted, SettledAway
  <1>6. SplitOnce'
    <2>1. \A m \in ghost.split : <<m, "body">> \in Items
      BY <1>a, GhostType DEF Items
    <2> QED BY <1>a, <1>3, <2>1 DEF AwayInv, SplitOnce
  <1>7. DeletedNeverReturns'
    <2>1. \A j \in ghost.deleted : j \in Items
      BY <1>a, GhostType
    <2> QED BY <1>a, <1>2, <1>3, <2>1 DEF AwayInv, DeletedNeverReturns
  <1>8. FateInv'
    BY <1>3, <1>4 DEF FateInv, FirstSession, DeletedIsHidden, NothingVanishes, ForwardMarks, ForwardWhole
  <1> QED BY <1>5, <1>6, <1>7, <1>8 DEF AwayInv

\* What comes back from the queue file was neither deleted nor settled.
LEMMA HistUnlock ==
  ASSUME HistInv, Unlock
  PROVE  AwayInv' /\ FateInv'
  <1>a. TypeInv /\ AwayInv /\ FateInv
    BY DEF HistInv, OwnerInv
  <1>1. UNCHANGED <<disk, ghost, hidden, restarts>> /\ phase = "locked" /\ phase' = "drain"
    BY DEF Unlock, Goto, outVars
  <1>2. \A j \in Items : OnDisk(j)' <=> OnDisk(j)
    BY <1>1 DEF OnDisk
  <1>3. \A j \in Items : /\ j \in pend' => OnDisk(j)
                         /\ row'[j].stage = "send" /\ row'[j].fwd = FALSE /\ row'[j].dismissed = FALSE
    BY DEF Unlock, Blank, NewRow, OnDisk
  <1>4. restarts' # 0
    BY <1>a, <1>1 DEF FateInv, FirstSession
  <1>5. KnownStarted' /\ DismissedDeleted' /\ SettledAway'
    BY <1>a, <1>1, <1>2, <1>3 DEF AwayInv, KnownStarted, Started, DismissedDeleted, SettledAway
  <1>6. SplitOnce'
    <2>1. \A m \in ghost.split : <<m, "body">> \in Items
      BY <1>a, GhostType DEF Items
    <2> QED BY <1>a, <1>1, <1>3, <2>1 DEF AwayInv, SplitOnce
  <1>7. DeletedNeverReturns'
    <2>1. \A j \in ghost.deleted : j \in Items
      BY <1>a, GhostType
    <2> QED BY <1>a, <1>1, <1>2, <1>3, <2>1 DEF AwayInv, DeletedNeverReturns
  <1>8. FateInv'
    BY <1>3, <1>4 DEF FateInv, FirstSession, DeletedIsHidden, NothingVanishes, ForwardMarks, ForwardWhole
  <1> QED BY <1>5, <1>6, <1>7, <1>8 DEF AwayInv

LEMMA SteadyReturns ==
  ASSUME HistInv, Workers
  PROVE  Steady
  BY SteadyWorkers DEF Steady

LEMMA HistStep == HistInv /\ [Next]_vars => HistInv'
  <1> SUFFICES ASSUME HistInv, [Next]_vars PROVE HistInv'
    OBVIOUS
  <1>1. OwnerInv'
    BY OwnerStep DEF HistInv
  <1>2. TypeInv /\ AwayInv /\ FateInv
    BY DEF HistInv, OwnerInv
  <1>3. CASE UNCHANGED vars
    <2>1. Steady
      BY <1>3 DEF vars, Steady
    <2> QED BY <1>1, <1>2, <2>1, HistSteady DEF HistInv
  <1>4. CASE Frame
    <2>1. CASE \/ PageArrives \/ (\E i \in Items : UpdateArrives(i)) \/ TakeMailbox
               \/ (\E d \in batch : KeepPreview(d)) \/ TooEarly \/ Idle
      BY <1>1, <1>2, <2>1, SteadyQuiet, HistSteady DEF HistInv
    <2>2. CASE \/ \E i \in Items : PrepFailed(i) \/ PrepSends(i)
               \/ \E d \in batch : SettleFailed(d)
               \/ FlushQueued
      BY <1>1, <1>2, <2>2, SteadyRows, HistSteady DEF HistInv
    <2>3. CASE (\E i \in Items : PrepDismissed(i)) \/ (\E d \in batch : SettleGone(d))
      BY <1>1, <2>3, HistRemoves DEF HistInv
    <2>4. CASE (\E i \in Items : PrepSplits(i)) \/ DrainEnds
      BY <1>1, <2>4, HistSplits, HistDrainEnds DEF HistInv
    <2> QED BY <1>4, <2>1, <2>2, <2>3, <2>4 DEF Frame
  <1>5. CASE User
    <2>1. CASE (\E c \in Chats : SelectChat(c)) \/ (\E a \in Accounts \cup {NoAccount} : SwitchAccount(a))
      BY <1>1, <1>2, <2>1, SteadyQuiet, HistSteady DEF HistInv
    <2>2. CASE \E i \in Items : Retry(i)
      BY <1>1, <1>2, <2>2, SteadyRows, HistSteady DEF HistInv
    <2>3. CASE \E i \in Items : Delete(i)
      BY <1>1, <2>3, HistRemoves DEF HistInv
    <2>4. CASE \E i \in Items : Dismiss(i)
      BY <1>1, <2>4, HistDismiss DEF HistInv
    <2>5. CASE \E m \in Messages, stage \in {"gif", "forward", "send"} : Compose(m, stage)
      BY <1>1, <2>5, HistCompose DEF HistInv
    <2> QED BY <1>5, <2>1, <2>2, <2>3, <2>4, <2>5 DEF User
  <1>6. CASE Workers
    BY <1>1, <1>2, <1>6, SteadyReturns, HistSteady DEF HistInv
  <1>7. CASE Session
    <2>1. CASE Lock
      BY <1>1, <1>2, <2>1, SteadyQuiet, HistSteady DEF HistInv
    <2>2. CASE SessionStops \/ Crash \/ Unlock
      BY <1>1, <2>2, HistEnds, HistUnlock DEF HistInv
    <2> QED BY <1>7, <2>1, <2>2 DEF Session
  <1> QED BY <1>3, <1>4, <1>5, <1>6, <1>7 DEF Next

LEMMA HistInit == Init => HistInv
  <1> SUFFICES ASSUME Init PROVE HistInv
    OBVIOUS
  <1>1. OwnerInv
    BY OwnerInit
  <1>2. /\ pend = {} /\ disk = {} /\ phase = "drain"
        /\ \A m \in Messages : ghost.author[m] = NoAccount
        /\ ghost.split = {} /\ ghost.drained = {} /\ ghost.settled = {} /\ ghost.deleted = {}
        /\ \A i \in Items : ~row[i].fwd /\ row[i].stage = "send"
    BY DEF Init, Blank, NewRow
  <1>3. AwayInv
    BY <1>2 DEF AwayInv, KnownStarted, SplitOnce, DismissedDeleted, DeletedNeverReturns, SettledAway,
                OnDisk
  <1>4. FateInv
    BY <1>2 DEF FateInv, FirstSession, DeletedIsHidden, NothingVanishes, ForwardMarks, ForwardWhole
  <1> QED BY <1>1, <1>3, <1>4 DEF HistInv

LEMMA HistInvariant == Spec => []HistInv
  <1> QED BY HistInit, HistStep, PTL DEF Spec

\* A worker runs for a row, so nothing that is settled is being sent.
LEMMA HistAway == HistInv => NothingReturns
  <1> SUFFICES ASSUME HistInv PROVE NothingReturns
    OBVIOUS
  <1>1. SingleOwner /\ SettledAway /\ DeletedNeverReturns /\ ghost.settled \subseteq Items
    BY GhostType DEF HistInv, AwayInv, OwnerInv
  <1>2. \A i \in Items : Flying(i) => i \in pend
    BY <1>1 DEF SingleOwner, Active, Flying
  <1> QED BY <1>1, <1>2 DEF NothingReturns, SettledNeverReturns, SettledAway

\* delete_pending and save_offline: what was deleted or delivered is never loaded, queued
\* or sent again, across locks, crashes and torn queue files.
THEOREM AwayForever == Spec => []NothingReturns
  <1> QED BY HistInvariant, HistAway, PTL

\* drain_sends: a deleted part whose delivery was drained is hidden, until a session ends.
THEOREM DeletedHides == Spec => []Inv
  <1>1. HistInv => Inv
    BY DEF HistInv, FateInv, OwnerInv, TypeInv, Inv
  <1> QED BY <1>1, HistInvariant, PTL

\* ui.pending: in a session that never ended every part of a message is still there, was
\* drained as delivered, or was deleted by the user.
THEOREM NothingLost == Spec => []NothingVanishes
  <1>1. HistInv => NothingVanishes
    BY DEF HistInv, FateInv
  <1> QED BY <1>1, HistInvariant, PTL

-----------------------------------------------------------------------------
(* Action properties.                                                      *)

\* A worker that starts has a row of its own that nobody deleted.
LEMMA StartsUndeleted ==
  ASSUME HistInv, Next, NEW w \in sending', w.item \in ghost.deleted
  PROVE  Flying(w.item)
  <1> USE DEF rowVars, mailVars, fileVars, outVars
  <1>a. /\ TypeInv /\ row \in [Items -> Row] /\ pend \subseteq Items /\ DeletedNeverReturns
        /\ CaptionFollows /\ OnlyComposed
    BY DEF HistInv, AwayInv, OwnerInv, TypeInv, TypeOK
  <1>1. ASSUME w \in sending PROVE Flying(w.item)
    BY <1>1 DEF Flying
  <1>2. ASSUME sending' \subseteq sending PROVE Flying(w.item)
    BY <1>1, <1>2
  <1>3. ASSUME NEW i \in Items, PrepSends(i) PROVE Flying(w.item)
    <2>1. i \notin ghost.deleted /\ sending' = sending \cup SpawnJobs(i, row'[i])
      BY <1>3, <1>a DEF PrepSends, Usable, Prepared, DeletedNeverReturns
    <2> QED BY <1>1, <2>1, SpawnJobsOne
  <1>4. ASSUME NEW i \in Items, PrepSplits(i) PROVE Flying(w.item)
    <2> DEFINE caption == [NewRow("send", row[i].acct, TRUE) EXCEPT !.cut = row[i].cut]
    <2>1. i \notin ghost.deleted /\ Sibling(i) \notin ghost.deleted
      BY <1>4, <1>a, CaptionIsNew DEF DeletedNeverReturns
    <2>2. sending' = sending \cup SpawnJobs(Sibling(i), caption) \cup SpawnJobs(i, row'[i])
      BY <1>4 DEF PrepSplits
    <2> HIDE DEF caption
    <2> QED BY <1>1, <2>1, <2>2, SpawnJobsOne
  <1>5. ASSUME FlushQueued PROVE Flying(w.item)
    <2>1. \/ w \in sending
          \/ \E i \in pend : row[i].queued /\ w \in SpawnJobs(i, Flushed(row[i]))
      BY <1>5 DEF FlushQueued
    <2>2. ASSUME NEW i \in pend, row[i].queued, w \in SpawnJobs(i, Flushed(row[i])) PROVE FALSE
      <3>1. w.item = i
        BY <2>2, SpawnJobsOne
      <3> QED BY <1>a, <2>2, <3>1 DEF DeletedNeverReturns
    <2> QED BY <1>1, <2>1, <2>2
  <1>6. ASSUME NEW m \in Messages, NEW stage \in {"gif", "forward", "send"}, Compose(m, stage)
        PROVE  Flying(w.item)
    <2> DEFINE i == <<m, "body">>
               new == NewRow(stage, IF Kind[m] = "text" THEN NoAccount ELSE account, Kind[m] = "forward")
    <2>1. sending' = sending \cup SpawnJobs(i, new) /\ ghost.author[m] = NoAccount
      BY <1>6 DEF Compose
    <2>2. i \in Items /\ i[1] = m
      BY DEF Items
    <2> HIDE DEF new, i
    <2>3. i \notin ghost.deleted
      BY <2>1, <2>2 DEF HistInv, AwayInv, KnownStarted, Started
    <2> QED BY <1>1, <2>1, <2>3, SpawnJobsOne
  <1>7. ASSUME NEW i \in Items, Retry(i) PROVE Flying(w.item)
    <2> DEFINE fresh == [row[i] EXCEPT !.failed = FALSE, !.attempts = 0]
    <2>1. sending' = sending \cup SpawnJobs(i, fresh) /\ i \notin ghost.deleted
      BY <1>7, <1>a DEF Retry, Drawn, DeletedNeverReturns
    <2> HIDE DEF fresh
    <2> QED BY <1>1, <2>1, SpawnJobsOne
  <1>8. ASSUME \/ PageArrives \/ (\E i \in Items : UpdateArrives(i)) \/ TakeMailbox
               \/ (\E d \in batch : KeepPreview(d) \/ SettleGone(d) \/ SettleFailed(d))
               \/ (\E i \in Items : PrepDismissed(i) \/ PrepFailed(i)) \/ DrainEnds \/ TooEarly \/ Idle
        PROVE  sending' \subseteq sending
    BY <1>8 DEF PageArrives, UpdateArrives, TakeMailbox, KeepPreview, SettleGone, SettleFailed,
                PrepDismissed, PrepFailed, DrainEnds, TooEarly, Idle
  <1>9. ASSUME \/ \E i \in Items : Dismiss(i) \/ Delete(i)
               \/ (\E c \in Chats : SelectChat(c)) \/ (\E a \in Accounts \cup {NoAccount} : SwitchAccount(a))
        PROVE  sending' \subseteq sending
    BY <1>9 DEF Dismiss, Delete, SelectChat, SwitchAccount
  <1>10. ASSUME Workers \/ Session PROVE sending' \subseteq sending
    BY <1>10 DEF Workers, Session, PrepEnds, SendEnds, Lock, SessionStops, Crash, SessionEnds, Unlock
  <1>11. CASE Frame
    BY <1>2, <1>3, <1>4, <1>5, <1>8, <1>11 DEF Frame
  <1>12. CASE User
    BY <1>2, <1>6, <1>7, <1>9, <1>12 DEF User
  <1> QED BY <1>2, <1>10, <1>11, <1>12 DEF Next

\* drain_gif_sends, drain_forwards, flush_queued and load_offline start no worker for a
\* part the user deleted.
THEOREM DeletedIsNotSent == Spec => NoSendAfterDelete
  <1>1. HistInv /\ [Next]_vars => [\A w \in sending' : w.item \in ghost.deleted => Flying(w.item)]_vars
    BY StartsUndeleted
  <1> QED BY <1>1, HistInvariant, PTL DEF Spec, NoSendAfterDelete

\* forward_settled confirms a whole forward.
LEMMA ToldIsWhole ==
  ASSUME HistInv, Next, NEW t \in told' \ told, t.by = "whole"
  PROVE  Whole(t.forward)'
  <1> USE DEF rowVars, mailVars, fileVars, outVars
  <1>a. /\ TypeInv /\ row \in [Items -> Row] /\ batch \subseteq Done
        /\ DeletedNeverReturns /\ DismissedDeleted /\ ForwardWhole /\ ForwardMarks
    BY DEF HistInv, AwayInv, FateInv, OwnerInv, TypeInv, TypeOK
  <1>1. ASSUME NEW d \in batch, SettleGone(d) PROVE Whole(t.forward)'
    <2> DEFINE i == d.item
    <2>1. i \in Items /\ i \in pend /\ d.ok \in BOOLEAN /\ row[i].dismissed \in BOOLEAN
      BY <1>1, <1>a DEF SettleGone, Done, Row
    <2>2. /\ row[i].dismissed \/ d.ok
          /\ told' = IF row[i].dismissed THEN told ELSE told \cup Toasts(i)
          /\ ghost' = IF d.ok THEN [ghost EXCEPT !.drained = @ \cup {i}] ELSE ghost
      BY <1>1 DEF SettleGone
    <2>3. ~row[i].dismissed /\ t \in Toasts(i) /\ d.ok
      BY <2>2
    <2>4. t.forward = i[1] /\ SentWhole(i)
      BY <2>3 DEF Toasts
    <2>5. /\ ghost'.split = ghost.split /\ ghost'.deleted = ghost.deleted
          /\ ghost'.drained = ghost.drained \cup {i}
      BY <1>a, <2>2, <2>3, GhostType
    <2>6. i \notin ghost.deleted
      BY <1>a, <2>1, <2>3 DEF DeletedNeverReturns
    <2>7. Sibling(i) \in Parts(i[1]) => Sibling(i) \in ghost.drained /\ Sibling(i) \notin ghost.deleted
      BY <1>a, <2>1, <2>4 DEF SentWhole, ForwardWhole, OtherPart
    <2>8. \A j \in Parts(i[1]) : j = i \/ j = Sibling(i)
      BY <2>1 DEF Parts, Sibling, Items
    <2>9. Parts(i[1])' = Parts(i[1])
      BY <2>5 DEF Parts
    <2> HIDE DEF i
    <2> QED BY <2>4, <2>5, <2>6, <2>7, <2>8, <2>9 DEF Whole
  <1>2. told' \subseteq told \/ \E d \in batch : SettleGone(d)
    <2>1. CASE Frame
      BY <2>1 DEF Frame, PageArrives, UpdateArrives, PrepDismissed, PrepFailed, PrepSends, PrepSplits,
                  TakeMailbox, KeepPreview, SettleFailed, DrainEnds, FlushQueued, TooEarly, Idle
    <2>2. CASE User
      BY <2>2 DEF User, Compose, Dismiss, Delete, Retry, SelectChat, SwitchAccount
    <2>3. CASE Workers \/ Session
      BY <2>3 DEF Workers, Session, PrepEnds, SendEnds, Lock, SessionStops, Crash, SessionEnds, Unlock
    <2> QED BY <2>1, <2>2, <2>3 DEF Next
  <1> QED BY <1>1, <1>2

\* forward_settled toasts a forward as forwarded only when every part of it was delivered
\* and none was deleted, whatever came between its parts.
THEOREM WholeForwardTold == Spec => ConfirmsWholeForward
  <1>1. HistInv /\ [Next]_vars => [\A t \in told' \ told : t.by = "whole" => Whole(t.forward)']_vars
    BY ToldIsWhole
  <1> QED BY <1>1, HistInvariant, PTL DEF Spec, ConfirmsWholeForward

-----------------------------------------------------------------------------
(* How a row goes on: every row of ui.pending is owned or waits, its       *)
(* failed tries are on disk and bounded, a GIF or a forward keeps the      *)
(* account that started it, and all of it together implements the outbox.  *)

\* A row is on its way, or it waits, or it shows failure.
Held(i) == row[i].queued \/ row[i].failed \/ Preparing(i) \/ Flying(i) \/ Landed(i)
EveryHeld == \A i \in Items : i \in pend => Held(i)

\* drain_sends handles the completions it took before the frame goes on.
BatchSettles == batch # {} => phase = "settle"

\* A row has a try left in this session unless it failed; each session adds one.
TriesLeft ==
  /\ \A i \in Items : i \in pend =>
       /\ row[i].attempts <= MaxAttempts + restarts
       /\ row[i].attempts = MaxAttempts + restarts => row[i].failed
  /\ \A e \in disk : /\ e.attempts <= MaxAttempts + restarts
                     /\ phase = "locked" => e.attempts < MaxAttempts + restarts

\* A part sent under a pinned account, while it waits, while it is sent and ever after.
Pinned(i, a) == Kind[i[1]] # "text" => a = ghost.author[i[1]]
EveryPinned ==
  restarts = 0 =>
    /\ \A i \in Items : i \in pend => Pinned(i, row[i].acct)
    /\ \A w \in sending : Pinned(w.item, w.acct)
    /\ \A p \in published : Pinned(p[1], p[2])

RowInv == HistInv /\ EveryHeld /\ BatchSettles /\ TriesLeft /\ FailuresAreOnDisk /\ EveryPinned

-----------------------------------------------------------------------------
(* What the steps that change a row make of it.                            *)

\* The fields that decide how a row goes on, the mark of a failure left out.
Alike(r, q) ==
  /\ r.stage = q.stage /\ r.acct = q.acct /\ r.attempts = q.attempts
  /\ r.dismissed = q.dismissed /\ r.queued = q.queued

LEMMA JobOf ==
  ASSUME NEW i, NEW r, r.stage = "send"
  PROVE  \E w \in SpawnJobs(i, r) : w.item = i /\ w.acct = Sender(r)
  BY DEF SpawnJobs

LEMMA JobsOf ==
  ASSUME NEW i, NEW r, NEW w \in SpawnJobs(i, r)
  PROVE  w.item = i /\ w.acct = Sender(r) /\ r.stage = "send"
  <1> DEFINE job == [item |-> i, acct |-> Sender(r)]
  <1>1. job.item = i /\ job.acct = Sender(r)
    OBVIOUS
  <1>2. SpawnJobs(i, r) = IF r.stage = "send" THEN {job} ELSE {}
    BY DEF SpawnJobs
  <1> HIDE DEF job
  <1> QED BY <1>1, <1>2

LEMMA SpawnAlike ==
  ASSUME NEW r \in Row
  PROVE  Alike(SpawnRow(r), r) /\ SpawnRow(r).failed = r.failed
  BY DEF SpawnRow, Alike, Row

LEMMA PrepFailedRow ==
  ASSUME TypeInv, NEW i \in Items, PrepFailed(i)
  PROVE  /\ row'[i].failed /\ Alike(row'[i], row[i])
         /\ \A j \in Items : j # i => row'[j] = row[j]
  <1>1. row' = [row EXCEPT ![i].failed = TRUE] /\ row \in [Items -> Row]
    BY DEF PrepFailed, TypeInv, TypeOK
  <1> QED BY <1>1 DEF Alike, Row

LEMMA PrepSendsRow ==
  ASSUME TypeInv, NEW i \in Items, PrepSends(i)
  PROVE  /\ row'[i].stage = "send" /\ row'[i].acct = row[i].acct
         /\ row'[i].attempts = row[i].attempts /\ row'[i].failed = row[i].failed
         /\ \A j \in Items : j # i => row'[j] = row[j]
  <1>1. row' = [row EXCEPT ![i].stage = "send", ![i].job = "idle"] /\ row \in [Items -> Row]
    BY DEF PrepSends, TypeInv, TypeOK
  <1> QED BY <1>1 DEF Row

LEMMA PrepSplitsRow ==
  ASSUME TypeInv, NEW i \in Items, PrepSplits(i)
  PROVE  LET t == Sibling(i) IN
         /\ row'[i].stage = "send" /\ row'[i].acct = row[i].acct
         /\ row'[i].attempts = row[i].attempts /\ row'[i].failed = row[i].failed
         /\ row'[t].stage = "send" /\ row'[t].acct = row[i].acct
         /\ row'[t].attempts = 0 /\ row'[t].failed = FALSE
         /\ \A j \in Items : j # i /\ j # t => row'[j] = row[j]
         /\ sending' = sending \cup SpawnJobs(t, row'[t]) \cup SpawnJobs(i, row'[i])
  <1> DEFINE t == Sibling(i)
             caption == [NewRow("send", row[i].acct, TRUE) EXCEPT !.cut = row[i].cut]
  <1>1. /\ row' = [row EXCEPT ![i].stage = "send", ![i].job = "idle", ![t] = caption]
        /\ row \in [Items -> Row] /\ t \in Items /\ t # i
        /\ sending' = sending \cup SpawnJobs(t, caption) \cup SpawnJobs(i, row'[i])
    BY SiblingType DEF PrepSplits, TypeInv, TypeOK
  <1>2. /\ caption.stage = "send" /\ caption.acct = row[i].acct /\ caption.attempts = 0
        /\ caption.failed = FALSE
    BY DEF NewRow
  <1> HIDE DEF caption, t
  <1>3. row'[t] = caption
    BY <1>1
  <1>4. /\ row'[i].stage = "send" /\ row'[i].acct = row[i].acct
        /\ row'[i].attempts = row[i].attempts /\ row'[i].failed = row[i].failed
        /\ \A j \in Items : j # i /\ j # t => row'[j] = row[j]
    BY <1>1 DEF Row
  <1> QED BY <1>1, <1>2, <1>3, <1>4 DEF t

LEMMA SettleFailedRow ==
  ASSUME TypeInv, NEW d \in batch, SettleFailed(d)
  PROVE  LET i == d.item IN
         /\ i \in Items /\ i \in pend
         /\ row'[i].stage = row[i].stage /\ row'[i].acct = row[i].acct
         /\ row'[i].attempts = row[i].attempts + 1
         /\ row'[i].failed \/ row'[i].queued
         /\ row'[i].failed \/ row[i].attempts + 1 < MaxAttempts
         /\ \A j \in Items : j # i => row'[j] = row[j]
  <1> DEFINE i == d.item
             again == d.retryable /\ row[i].attempts + 1 < MaxAttempts
  <1>1. row' = [row EXCEPT ![i] = Tried(row[i], d.retryable)] /\ i \in pend
    BY DEF SettleFailed
  <1>2. row \in [Items -> Row] /\ i \in Items /\ d.retryable \in BOOLEAN
    BY DEF TypeInv, TypeOK, Done
  <1>3. Tried(row[i], d.retryable)
          = [row[i] EXCEPT !.attempts = @ + 1, !.queued = again, !.failed = ~again]
    BY DEF Tried
  <1>4. again \in BOOLEAN /\ (again => row[i].attempts + 1 < MaxAttempts)
    BY <1>2 DEF Row
  <1> HIDE DEF i, again
  <1>5. row'[i] = [row[i] EXCEPT !.attempts = @ + 1, !.queued = again, !.failed = ~again]
        /\ row[i] \in Row
    BY <1>1, <1>2, <1>3
  <1>6. /\ row'[i].stage = row[i].stage /\ row'[i].acct = row[i].acct
        /\ row'[i].attempts = row[i].attempts + 1
        /\ row'[i].failed = ~again /\ row'[i].queued = again
    BY <1>5 DEF Row
  <1>7. \A j \in Items : j # i => row'[j] = row[j]
    BY <1>1, <1>2
  <1> QED BY <1>1, <1>2, <1>4, <1>6, <1>7 DEF i

LEMMA FlushRow ==
  ASSUME TypeInv, FlushQueued, NEW i \in Items
  PROVE  /\ row'[i].stage = row[i].stage /\ row'[i].acct = row[i].acct
         /\ row'[i].attempts = row[i].attempts /\ row'[i].dismissed = row[i].dismissed
         /\ row'[i].failed = row[i].failed
         /\ ~(i \in pend /\ row[i].queued) => row'[i] = row[i]
  <1>1. row[i] \in Row
    BY DEF TypeInv, TypeOK
  <1>2. row' = [j \in Items |-> IF j \in {k \in pend : row[k].queued}
                                THEN SpawnRow(Flushed(row[j])) ELSE row[j]]
    BY DEF FlushQueued
  <1>3. ~(i \in pend /\ row[i].queued) => row'[i] = row[i]
    BY <1>2
  <1>4. row'[i] = row[i] \/ row'[i] = SpawnRow(Flushed(row[i]))
    BY <1>2
  <1>5. /\ Flushed(row[i]) \in Row
        /\ Flushed(row[i]).stage = row[i].stage /\ Flushed(row[i]).acct = row[i].acct
        /\ Flushed(row[i]).attempts = row[i].attempts /\ Flushed(row[i]).dismissed = row[i].dismissed
        /\ Flushed(row[i]).failed = row[i].failed
    BY <1>1 DEF Flushed, Row
  <1> QED BY <1>3, <1>4, <1>5, SpawnAlike DEF Alike

LEMMA RetryRow ==
  ASSUME TypeInv, NEW i \in Items, Retry(i)
  PROVE  /\ row'[i].stage = row[i].stage /\ row'[i].acct = row[i].acct
         /\ row'[i].attempts = 0 /\ row'[i].dismissed = row[i].dismissed
         /\ \A j \in Items : j # i => row'[j] = row[j]
         /\ \E r \in Row : /\ r.stage = row[i].stage /\ r.acct = row[i].acct
                           /\ sending' = sending \cup SpawnJobs(i, r)
  <1> DEFINE fresh == [row[i] EXCEPT !.failed = FALSE, !.attempts = 0]
  <1>1. row' = [row EXCEPT ![i] = SpawnRow(fresh)] /\ sending' = sending \cup SpawnJobs(i, fresh)
        /\ row \in [Items -> Row]
    BY DEF Retry, TypeInv, TypeOK
  <1>2. /\ fresh \in Row /\ fresh.stage = row[i].stage /\ fresh.acct = row[i].acct
        /\ fresh.attempts = 0 /\ fresh.dismissed = row[i].dismissed
    BY <1>1 DEF Row
  <1> HIDE DEF fresh
  <1>3. row'[i] = SpawnRow(fresh) /\ \A j \in Items : j # i => row'[j] = row[j]
    BY <1>1
  <1> QED BY <1>1, <1>2, <1>3, SpawnAlike DEF Alike

LEMMA ComposeRow ==
  ASSUME TypeInv, NEW m \in Messages, NEW stage \in {"gif", "forward", "send"}, Compose(m, stage)
  PROVE  LET i == <<m, "body">>
             acct == IF Kind[m] = "text" THEN NoAccount ELSE account IN
         /\ i \in Items /\ account \in Accounts /\ pend' = pend \cup {i}
         /\ row'[i].stage = stage /\ row'[i].acct = acct /\ row'[i].attempts = 0
         /\ \A j \in Items : j # i => row'[j] = row[j]
         /\ \E r \in Row : /\ r.stage = stage /\ r.acct = acct
                           /\ sending' = sending \cup SpawnJobs(i, r)
  <1> DEFINE i == <<m, "body">>
             acct == IF Kind[m] = "text" THEN NoAccount ELSE account
             new == NewRow(stage, acct, Kind[m] = "forward")
  <1>1. /\ row' = [row EXCEPT ![i] = SpawnRow(new)] /\ sending' = sending \cup SpawnJobs(i, new)
        /\ row \in [Items -> Row] /\ i \in Items /\ account \in Accounts
        /\ acct \in Accounts \cup {NoAccount} /\ pend' = pend \cup {i}
    BY DEF Compose, TypeInv, TypeOK, Items
  <1>2. new \in Row /\ new.stage = stage /\ new.acct = acct /\ new.attempts = 0
    BY <1>1, NewRowType DEF NewRow
  <1> HIDE DEF new, acct, i
  <1>3. row'[i] = SpawnRow(new) /\ \A j \in Items : j # i => row'[j] = row[j]
    BY <1>1
  <1>4. row'[i].stage = stage /\ row'[i].acct = acct /\ row'[i].attempts = 0
    BY <1>2, <1>3, SpawnAlike DEF Alike
  <1> QED BY <1>1, <1>2, <1>3, <1>4 DEF i, acct

LEMMA DismissRow ==
  ASSUME TypeInv, NEW i \in Items, Dismiss(i), NEW j \in Items
  PROVE  /\ row'[j].stage = row[j].stage /\ row'[j].acct = row[j].acct
         /\ row'[j].attempts = row[j].attempts
         /\ row'[j].queued = row[j].queued /\ row'[j].failed = row[j].failed
         /\ row[j].dismissed => row'[j].dismissed
  <1>1. row' = [row EXCEPT ![i].dismissed = TRUE] /\ row \in [Items -> Row]
    BY DEF Dismiss, TypeInv, TypeOK
  <1> QED BY <1>1 DEF Row

LEMMA UnlockRow ==
  ASSUME Unlock, NEW i \in Items, i \in pend'
  PROVE  /\ row'[i].queued = TRUE /\ row'[i].dismissed = FALSE
         /\ row'[i].stage = "send" /\ row'[i].acct = NoAccount /\ row'[i].failed = FALSE
         /\ \E e \in disk : e.item = i /\ row'[i].attempts = e.attempts
  <1> DEFINE e == CHOOSE x \in disk : x.item = i
  <1>1. e \in disk /\ e.item = i
    BY DEF Unlock
  <1>2. row'[i] = [Blank EXCEPT !.queued = TRUE, !.attempts = e.attempts]
    BY DEF Unlock
  <1> HIDE DEF e
  <1>3. /\ row'[i].queued = TRUE /\ row'[i].dismissed = FALSE
        /\ row'[i].stage = "send" /\ row'[i].acct = NoAccount /\ row'[i].failed = FALSE
        /\ row'[i].attempts = e.attempts
    BY <1>2 DEF Blank, NewRow
  <1> QED BY <1>1, <1>3

-----------------------------------------------------------------------------
(* No row is orphaned.                                                     *)

LEMMA HeldKept ==
  ASSUME NEW j \in Items, Held(j),
         row'[j].stage = row[j].stage, row'[j].queued = row[j].queued,
         row'[j].failed = row[j].failed,
         Flying(j) => Flying(j)' \/ Landed(j)', Landed(j) => Landed(j)'
  PROVE  Held(j)'
  BY DEF Held, Preparing

LEMMA HeldFrame ==
  ASSUME HistInv, EveryHeld, BatchSettles, Frame
  PROVE  EveryHeld'
  <1> USE DEF rowVars, mailVars
  <1>a. TypeInv /\ pend \subseteq Items /\ batch \subseteq Done
    BY DEF HistInv, OwnerInv, TypeInv, TypeOK
  <1>b. \A j \in Items : j \in pend => Held(j)
    BY DEF EveryHeld
  <1>1. ASSUME PageArrives \/ (\E i \in Items : UpdateArrives(i)) \/ DrainEnds \/ TooEarly \/ Idle
        PROVE  EveryHeld'
    <2>1. UNCHANGED <<pend, row, sending, done, batch>>
      BY <1>1 DEF PageArrives, UpdateArrives, DrainEnds, TooEarly, Idle
    <2> QED BY <2>1 DEF EveryHeld, Held, Preparing, Flying, Landed
  <1>2. ASSUME TakeMailbox PROVE EveryHeld'
    <2>1. UNCHANGED <<pend, row, sending>> /\ batch = {} /\ batch' = done
      BY <1>2 DEF TakeMailbox, BatchSettles
    <2> QED BY <2>1 DEF EveryHeld, Held, Preparing, Flying, Landed
  <1>3. ASSUME NEW d \in batch, KeepPreview(d) PROVE EveryHeld'
    <2> DEFINE again == [d EXCEPT !.asked = TRUE]
    <2>1. again.item = d.item
      BY <1>a DEF Done
    <2>2. UNCHANGED <<pend, row, sending>> /\ batch' = batch \ {d} /\ done' = done \cup {again}
      BY <1>3 DEF KeepPreview
    <2> HIDE DEF again
    <2>3. \A j \in Items : Landed(j) => Landed(j)'
      BY <2>1, <2>2 DEF Landed
    <2> QED BY <2>2, <2>3 DEF EveryHeld, Held, Preparing, Flying
  <1>4. ASSUME NEW i \in Items, PrepDismissed(i) PROVE EveryHeld'
    <2>1. Remove(i, TRUE) /\ UNCHANGED <<sending, done, batch>>
      BY <1>4 DEF PrepDismissed
    <2> SUFFICES ASSUME NEW j \in Items, j \in pend' PROVE Held(j)'
      BY DEF EveryHeld
    <2>2. j # i /\ j \in pend /\ row'[j].stage = row[j].stage
          /\ row'[j].queued = row[j].queued /\ row'[j].failed = row[j].failed
      BY <1>a, <2>1, RemoveFields
    <2> QED BY <1>b, <2>1, <2>2, HeldKept DEF Flying, Landed
  <1>5. ASSUME NEW d \in batch, SettleGone(d) PROVE EveryHeld'
    <2>1. /\ d.item \in Items /\ row[d.item].dismissed \in BOOLEAN
          /\ Remove(d.item, row[d.item].dismissed)
          /\ UNCHANGED <<sending, done>> /\ batch' = batch \ {d}
      BY <1>5, <1>a DEF SettleGone, Done, Row, TypeInv, TypeOK
    <2> SUFFICES ASSUME NEW j \in Items, j \in pend' PROVE Held(j)'
      BY DEF EveryHeld
    <2>2. j # d.item /\ j \in pend /\ row'[j].stage = row[j].stage
          /\ row'[j].queued = row[j].queued /\ row'[j].failed = row[j].failed
      BY <1>a, <2>1, RemoveFields
    <2>3. (Flying(j) => Flying(j)') /\ (Landed(j) => Landed(j)')
      BY <2>1, <2>2 DEF Flying, Landed
    <2> QED BY <1>b, <2>2, <2>3, HeldKept
  <1>6. ASSUME NEW d \in batch, SettleFailed(d) PROVE EveryHeld'
    <2>1. UNCHANGED <<pend, sending, done>> /\ batch' = batch \ {d}
      BY <1>6 DEF SettleFailed
    <2> SUFFICES ASSUME NEW j \in Items, j \in pend PROVE Held(j)'
      BY <2>1 DEF EveryHeld
    <2>2. CASE j = d.item
      BY <1>a, <1>6, <2>2, SettleFailedRow DEF Held
    <2>3. CASE j # d.item
      <3>1. row'[j] = row[j]
        BY <1>a, <1>6, <2>3, SettleFailedRow
      <3>2. (Flying(j) => Flying(j)') /\ (Landed(j) => Landed(j)')
        BY <2>1, <2>3 DEF Flying, Landed
      <3> QED BY <1>b, <3>1, <3>2, HeldKept
    <2> QED BY <2>2, <2>3
  <1>7. ASSUME NEW i \in Items, PrepFailed(i) PROVE EveryHeld'
    <2>1. UNCHANGED <<pend, sending, done, batch>>
      BY <1>7 DEF PrepFailed
    <2>2. row'[i].failed /\ \A j \in Items : j # i => row'[j] = row[j]
      BY <1>a, <1>7, PrepFailedRow
    <2> QED BY <2>1, <2>2 DEF EveryHeld, Held, Preparing, Flying, Landed
  <1>8. ASSUME NEW i \in Items, PrepSends(i) PROVE EveryHeld'
    <2>1. UNCHANGED <<pend, done, batch>> /\ sending' = sending \cup SpawnJobs(i, row'[i])
      BY <1>8 DEF PrepSends
    <2>2. row'[i].stage = "send" /\ \A j \in Items : j # i => row'[j] = row[j]
      BY <1>a, <1>8, PrepSendsRow
    <2>3. Flying(i)'
      BY <2>1, <2>2, JobOf DEF Flying
    <2> QED BY <2>1, <2>2, <2>3 DEF EveryHeld, Held, Preparing, Flying, Landed
  <1>9. ASSUME NEW i \in Items, PrepSplits(i) PROVE EveryHeld'
    <2> DEFINE t == Sibling(i)
    <2>1. UNCHANGED <<done, batch>> /\ pend' = pend \cup {t}
      BY <1>9 DEF PrepSplits
    <2>2. /\ row'[i].stage = "send" /\ row'[t].stage = "send"
          /\ \A j \in Items : j # i /\ j # t => row'[j] = row[j]
          /\ sending' = sending \cup SpawnJobs(t, row'[t]) \cup SpawnJobs(i, row'[i])
      BY <1>a, <1>9, PrepSplitsRow
    <2> HIDE DEF t
    <2>3. Flying(i)' /\ Flying(t)'
      BY <2>2, JobOf DEF Flying
    <2> QED BY <2>1, <2>2, <2>3 DEF EveryHeld, Held, Preparing, Flying, Landed
  <1>10. ASSUME FlushQueued PROVE EveryHeld'
    <2>1. /\ UNCHANGED <<pend, done, batch>>
          /\ sending' = sending \cup
               UNION {SpawnJobs(i, Flushed(row[i])) : i \in {k \in pend : row[k].queued}}
      BY <1>10 DEF FlushQueued
    <2> SUFFICES ASSUME NEW j \in Items, j \in pend PROVE Held(j)'
      BY <2>1 DEF EveryHeld
    <2>2. CASE row[j].queued
      <3>1. row[j].stage = "send" /\ row[j] \in Row
        BY <2>2 DEF HistInv, OwnerInv, PreparingNotQueued, TypeInv, TypeOK
      <3>2. Flushed(row[j]).stage = "send"
        BY <3>1 DEF Flushed, Row
      <3>3. \E w \in SpawnJobs(j, Flushed(row[j])) : w.item = j
        BY <3>2, JobOf
      <3>4. Flying(j)'
        BY <2>1, <2>2, <3>3 DEF Flying
      <3> QED BY <3>4 DEF Held
    <2>3. CASE ~row[j].queued
      <3>1. row'[j] = row[j]
        BY <1>a, <1>10, <2>3, FlushRow
      <3>2. (Flying(j) => Flying(j)') /\ (Landed(j) => Landed(j)')
        BY <2>1 DEF Flying, Landed
      <3> QED BY <1>b, <3>1, <3>2, HeldKept
    <2> QED BY <2>2, <2>3
  <1> QED BY <1>1, <1>2, <1>3, <1>4, <1>5, <1>6, <1>7, <1>8, <1>9, <1>10 DEF Frame

LEMMA HeldRest ==
  ASSUME HistInv, EveryHeld, User \/ Workers \/ Session
  PROVE  EveryHeld'
  <1> USE DEF rowVars, mailVars
  <1>a. TypeInv /\ pend \subseteq Items
    BY DEF HistInv, OwnerInv, TypeInv, TypeOK
  <1>b. \A j \in Items : j \in pend => Held(j)
    BY DEF EveryHeld
  <1>1. ASSUME NEW m \in Messages, NEW stage \in {"gif", "forward", "send"}, Compose(m, stage)
        PROVE  EveryHeld'
    <2> DEFINE i == <<m, "body">>
    <2>1. UNCHANGED <<done, batch>>
      BY <1>1 DEF Compose
    <2>2. /\ pend' = pend \cup {i} /\ row'[i].stage = stage
          /\ \A j \in Items : j # i => row'[j] = row[j]
          /\ \E r \in Row : r.stage = stage /\ sending' = sending \cup SpawnJobs(i, r)
      BY <1>a, <1>1, ComposeRow
    <2>3. i \in Items
      BY DEF Items
    <2> HIDE DEF i
    <2>4. stage = "send" => Flying(i)'
      BY <2>2, JobOf DEF Flying
    <2>5. stage # "send" => Preparing(i)' \/ row'[i].failed
      BY <2>2 DEF Preparing
    <2>6. Held(i)'
      BY <2>4, <2>5 DEF Held
    <2>7. \A j \in Items : (Flying(j) => Flying(j)') /\ (Landed(j) => Landed(j)')
      BY <2>1, <2>2 DEF Flying, Landed
    <2> SUFFICES ASSUME NEW j \in Items, j \in pend' PROVE Held(j)'
      BY DEF EveryHeld
    <2> QED BY <1>b, <2>2, <2>6, <2>7, HeldKept
  <1>2. ASSUME NEW i \in Items, Dismiss(i) PROVE EveryHeld'
    <2>1. UNCHANGED <<pend, sending, done, batch>>
      BY <1>2 DEF Dismiss
    <2> SUFFICES ASSUME NEW j \in Items, j \in pend PROVE Held(j)'
      BY <2>1 DEF EveryHeld
    <2>2. /\ row'[j].stage = row[j].stage /\ row'[j].queued = row[j].queued
          /\ row'[j].failed = row[j].failed
      BY <1>a, <1>2, DismissRow
    <2> QED BY <1>b, <2>1, <2>2, HeldKept DEF Flying, Landed
  <1>3. ASSUME NEW i \in Items, Delete(i) PROVE EveryHeld'
    <2>1. Remove(i, TRUE) /\ UNCHANGED <<sending, done, batch>>
      BY <1>3 DEF Delete
    <2> SUFFICES ASSUME NEW j \in Items, j \in pend' PROVE Held(j)'
      BY DEF EveryHeld
    <2>2. j # i /\ j \in pend /\ row'[j].stage = row[j].stage
          /\ row'[j].queued = row[j].queued /\ row'[j].failed = row[j].failed
      BY <1>a, <2>1, RemoveFields
    <2> QED BY <1>b, <2>1, <2>2, HeldKept DEF Flying, Landed
  <1>4. ASSUME NEW i \in Items, Retry(i) PROVE EveryHeld'
    <2>1. UNCHANGED <<pend, done, batch>>
      BY <1>4 DEF Retry
    <2>2. /\ row'[i].stage = row[i].stage /\ \A j \in Items : j # i => row'[j] = row[j]
          /\ \E r \in Row : r.stage = row[i].stage /\ sending' = sending \cup SpawnJobs(i, r)
      BY <1>a, <1>4, RetryRow
    <2>3. row[i].stage = "send" => Flying(i)'
      BY <2>2, JobOf DEF Flying
    <2>4. row[i].stage # "send" => Preparing(i)' \/ row'[i].failed
      BY <2>2 DEF Preparing
    <2>5. \A j \in Items : (Flying(j) => Flying(j)') /\ (Landed(j) => Landed(j)')
      BY <2>1, <2>2 DEF Flying, Landed
    <2> SUFFICES ASSUME NEW j \in Items, j \in pend PROVE Held(j)'
      BY <2>1 DEF EveryHeld
    <2>6. CASE j = i
      BY <2>3, <2>4, <2>6 DEF Held
    <2>7. CASE j # i
      BY <1>b, <2>2, <2>5, <2>7, HeldKept
    <2> QED BY <2>6, <2>7
  <1>5. ASSUME (\E c \in Chats : SelectChat(c)) \/ (\E a \in Accounts \cup {NoAccount} : SwitchAccount(a))
               \/ Lock
        PROVE  EveryHeld'
    <2>1. UNCHANGED <<pend, row, sending, done, batch>>
      BY <1>5 DEF SelectChat, SwitchAccount, Lock
    <2> QED BY <2>1 DEF EveryHeld, Held, Preparing, Flying, Landed
  <1>6. ASSUME Workers PROVE EveryHeld'
    <2>1. pend' = pend
      BY <1>6, SteadyWorkers
    <2>2. \A j \in Items : (Flying(j) => Flying(j)' \/ Landed(j)') /\ (Landed(j) => Landed(j)')
      <3>1. ASSUME NEW i \in Items, NEW outcome \in {"ready", "broken"}, PrepEnds(i, outcome)
            PROVE  UNCHANGED <<sending, done, batch>>
        BY <3>1 DEF PrepEnds
      <3>2. ASSUME NEW w \in sending, NEW ok \in BOOLEAN, NEW retryable \in BOOLEAN,
                   NEW arrived \in BOOLEAN, SendEnds(w, ok, retryable, arrived)
            PROVE  /\ sending' = sending \ {w} /\ done \subseteq done' /\ batch' = batch
                   /\ \E d \in done' : d.item = w.item
        <4> DEFINE d == [item |-> w.item, ok |-> ok, retryable |-> retryable, asked |-> FALSE]
        <4>1. d.item = w.item
          OBVIOUS
        <4>2. sending' = sending \ {w} /\ done' = done \cup {d} /\ batch' = batch
          BY <3>2 DEF SendEnds
        <4> HIDE DEF d
        <4> QED BY <4>1, <4>2
      <3> QED BY <1>6, <3>1, <3>2 DEF Workers, Flying, Landed
    <2> SUFFICES ASSUME NEW j \in Items, j \in pend PROVE Held(j)'
      BY <2>1 DEF EveryHeld
    <2>3. /\ row'[j].stage = row[j].stage /\ row'[j].queued = row[j].queued
          /\ row'[j].failed = row[j].failed
      BY <1>6, SteadyWorkers
    <2> QED BY <1>b, <2>2, <2>3, HeldKept
  <1>7. ASSUME SessionStops \/ Crash PROVE EveryHeld'
    BY <1>7 DEF SessionStops, Crash, SessionEnds, EveryHeld
  <1>8. ASSUME Unlock PROVE EveryHeld'
    BY <1>8, UnlockRow DEF EveryHeld, Held
  <1>9. CASE User
    BY <1>1, <1>2, <1>3, <1>4, <1>5, <1>9 DEF User
  <1>10. CASE Session
    BY <1>5, <1>7, <1>8, <1>10 DEF Session
  <1> QED BY <1>6, <1>9, <1>10

LEMMA BatchStep ==
  ASSUME BatchSettles, [Next]_vars
  PROVE  BatchSettles'
  <1> USE DEF mailVars, Goto, BatchSettles
  <1>1. CASE UNCHANGED vars
    BY <1>1 DEF vars
  <1>2. CASE Frame
    BY <1>2 DEF Frame, PageArrives, UpdateArrives, PrepDismissed, PrepFailed, PrepSends, PrepSplits,
                TakeMailbox, KeepPreview, SettleGone, SettleFailed, DrainEnds, FlushQueued, TooEarly, Idle
  <1>3. CASE User
    BY <1>3 DEF User, Compose, Dismiss, Delete, Retry, SelectChat, SwitchAccount
  <1>4. CASE Workers \/ Session
    BY <1>4 DEF Workers, Session, PrepEnds, SendEnds, Lock, SessionStops, Crash, SessionEnds, Unlock
  <1> QED BY <1>1, <1>2, <1>3, <1>4 DEF Next

-----------------------------------------------------------------------------
(* Tries are bounded, and the failed ones are in the queue file.            *)

\* A row that counts failed tries and that save_offline writes.
Due(i) == row[i].attempts > 0 /\ row[i].stage = "send" /\ row[i].acct = NoAccount /\ ~row[i].dismissed

\* A row goes on as it is, or it has not been tried yet.
Calm(i) ==
  \/ row'[i].attempts = 0
  \/ /\ i \in pend /\ row'[i].attempts = row[i].attempts
     /\ row[i].failed => row'[i].failed
     /\ Due(i)' => Due(i)

TriesInv == TriesLeft /\ FailuresAreOnDisk

LEMMA Numbers ==
  TypeInv => /\ restarts \in Nat /\ MaxAttempts \in Nat \ {0}
             /\ \A i \in Items : row[i].attempts \in Nat
             /\ \A e \in disk : e.attempts \in Nat
  BY SendQueueAssumption DEF TypeInv, TypeOK, Row, Entry

\* Saved or left alone, the queue file of calm rows is in order.
LEMMA CalmRows ==
  ASSUME TypeInv, TypeInv', TriesInv, restarts' = restarts,
         phase' = "locked" => phase = "locked" /\ disk' = disk,
         \A j \in Items : j \in pend' => Calm(j),
         \/ disk' = disk /\ (phase = "settle" /\ changed => phase' = "settle" /\ changed')
         \/ SaveOffline(pend', row')
  PROVE  TriesInv'
  <1>a. /\ restarts \in Nat /\ MaxAttempts \in Nat \ {0}
        /\ \A i \in Items : row[i].attempts \in Nat /\ row'[i].attempts \in Nat
        /\ pend' \subseteq Items
    <2>1. \A i \in Items : row'[i].attempts \in Nat
      BY DEF TypeInv, TypeOK, Row
    <2> QED BY <2>1, Numbers DEF TypeInv, TypeOK
  <1>1. ASSUME NEW i \in Items, i \in pend'
        PROVE  /\ row'[i].attempts <= MaxAttempts + restarts
               /\ row'[i].attempts = MaxAttempts + restarts => row'[i].failed
    <2>1. CASE row'[i].attempts = 0
      BY <1>a, <2>1
    <2>2. CASE row'[i].attempts # 0
      <3>1. /\ i \in pend /\ row'[i].attempts = row[i].attempts
            /\ row[i].failed => row'[i].failed
        BY <1>1, <2>2 DEF Calm
      <3>2. /\ row[i].attempts <= MaxAttempts + restarts
            /\ row[i].attempts = MaxAttempts + restarts => row[i].failed
        BY <3>1 DEF TriesInv, TriesLeft
      <3> QED BY <3>1, <3>2
    <2> QED BY <2>1, <2>2
  <1>2. CASE SaveOffline(pend', row')
    <2>2. \A e \in disk' : \E i \in pend' : e.attempts = row'[i].attempts
      BY <1>2 DEF SaveOffline, Entries
    <2>3. TriesLeft'
      <3>1. \A e \in disk' : e.attempts <= MaxAttempts + restarts
        BY <1>a, <1>1, <2>2
      <3>2. phase' = "locked" => \A e \in disk' : e.attempts < MaxAttempts + restarts
        BY DEF TriesInv, TriesLeft
      <3> QED BY <1>1, <3>1, <3>2 DEF TriesLeft
    <2>4. FailuresAreOnDisk'
      BY <1>2 DEF FailuresAreOnDisk, SaveOffline, Entries, Durable
    <2> QED BY <2>3, <2>4 DEF TriesInv
  <1>3. CASE disk' = disk /\ (phase = "settle" /\ changed => phase' = "settle" /\ changed')
    <2>1. TriesLeft'
      BY <1>1, <1>3 DEF TriesInv, TriesLeft
    <2>2. ASSUME ~(phase' = "settle" /\ changed'), NEW i \in pend', Due(i)'
          PROVE  [item |-> i, attempts |-> row'[i].attempts] \in disk'
      <3>1. i \in Items /\ i \in pend /\ row'[i].attempts = row[i].attempts /\ Due(i)
        BY <1>a, <2>2 DEF Calm, Due
      <3>2. [item |-> i, attempts |-> row[i].attempts] \in disk
        BY <1>3, <2>2, <3>1 DEF TriesInv, FailuresAreOnDisk, Due
      <3> QED BY <1>3, <3>1, <3>2
    <2>3. FailuresAreOnDisk'
      BY <2>2 DEF FailuresAreOnDisk, Due
    <2> QED BY <2>1, <2>3 DEF TriesInv
  <1> QED BY <1>2, <1>3

LEMMA CalmRemove ==
  ASSUME TypeInv, NEW i \in Items, NEW b \in BOOLEAN, Remove(i, b)
  PROVE  \A j \in Items : j \in pend' => Calm(j)
  <1> SUFFICES ASSUME NEW j \in Items, j \in pend' PROVE Calm(j)
    OBVIOUS
  <1>1. j \in pend /\ j # i
    BY DEF Remove
  <1>2. /\ row'[j].stage = row[j].stage /\ row'[j].dismissed = row[j].dismissed
        /\ row'[j].acct = row[j].acct /\ row'[j].failed = row[j].failed
        /\ row'[j].attempts = row[j].attempts
    BY <1>1, RemoveFields
  <1> QED BY <1>1, <1>2 DEF Calm, Due

LEMMA TriesFrame ==
  ASSUME HistInv, TypeInv', TriesInv, Frame
  PROVE  TriesInv'
  <1> USE DEF rowVars, mailVars, fileVars, outVars
  <1>a. TypeInv /\ pend \subseteq Items /\ batch \subseteq Done
    BY DEF HistInv, OwnerInv, TypeInv, TypeOK
  <1>1. ASSUME PageArrives \/ (\E i \in Items : UpdateArrives(i)) \/ TakeMailbox \/ TooEarly \/ Idle
               \/ \E d \in batch : KeepPreview(d)
        PROVE  TriesInv'
    <2>1. /\ UNCHANGED <<pend, row, disk, restarts>> /\ phase' # "locked"
          /\ phase = "settle" /\ changed => phase' = "settle" /\ changed'
      BY <1>1 DEF PageArrives, UpdateArrives, TakeMailbox, TooEarly, Idle, KeepPreview, Goto
    <2>2. \A j \in Items : j \in pend' => Calm(j)
      BY <2>1 DEF Calm, Due
    <2> QED BY <1>a, <2>1, <2>2, CalmRows
  <1>2. ASSUME NEW i \in Items, PrepDismissed(i) PROVE TriesInv'
    <2>1. Remove(i, TRUE) /\ UNCHANGED <<disk, restarts>> /\ phase = "drain" /\ phase' = "drain"
      BY <1>2 DEF PrepDismissed
    <2> QED BY <1>a, <2>1, CalmRemove, CalmRows
  <1>3. ASSUME NEW d \in batch, SettleGone(d) PROVE TriesInv'
    <2>1. d.item \in Items /\ row[d.item].dismissed \in BOOLEAN
      BY <1>a DEF Done, Row, TypeInv, TypeOK
    <2>2. Remove(d.item, row[d.item].dismissed) /\ UNCHANGED <<disk, restarts>>
          /\ phase' = "settle" /\ changed'
      BY <1>3 DEF SettleGone
    <2> QED BY <1>a, <2>1, <2>2, CalmRemove, CalmRows
  <1>4. ASSUME NEW i \in Items, PrepFailed(i) PROVE TriesInv'
    <2>1. UNCHANGED <<pend, disk, restarts>> /\ phase = "drain" /\ phase' = "drain"
      BY <1>4 DEF PrepFailed
    <2>2. \A j \in Items : j \in pend' => Calm(j)
      BY <1>a, <1>4, <2>1, PrepFailedRow DEF Calm, Due, Alike
    <2> QED BY <1>a, <2>1, <2>2, CalmRows
  <1>5. ASSUME NEW i \in Items, PrepSends(i) PROVE TriesInv'
    <2>1. UNCHANGED <<pend, disk, restarts>> /\ phase = "drain" /\ phase' = "drain"
          /\ row[i].stage # "send" /\ i \in pend
      BY <1>5 DEF PrepSends, Usable, Prepared
    <2>2. row[i].acct # NoAccount
      BY <1>a, <2>1, SendQueueAssumption DEF TypeInv, PreparedIsPinned
    <2>3. \A j \in Items : j \in pend' => Calm(j)
      BY <1>a, <1>5, <2>1, <2>2, PrepSendsRow DEF Calm, Due
    <2> QED BY <1>a, <2>1, <2>3, CalmRows
  <1>6. ASSUME NEW i \in Items, PrepSplits(i) PROVE TriesInv'
    <2>1. UNCHANGED <<disk, restarts>> /\ phase = "drain" /\ phase' = "drain"
          /\ row[i].stage # "send" /\ i \in pend /\ pend' = pend \cup {Sibling(i)}
      BY <1>6 DEF PrepSplits, Usable, Prepared
    <2>2. row[i].acct # NoAccount
      BY <1>a, <2>1, SendQueueAssumption DEF TypeInv, PreparedIsPinned
    <2>3. /\ row'[i].acct = row[i].acct /\ row'[i].attempts = row[i].attempts
          /\ row'[i].failed = row[i].failed
          /\ row'[Sibling(i)].attempts = 0
          /\ \A j \in Items : j # i /\ j # Sibling(i) => row'[j] = row[j]
      BY <1>a, <1>6, PrepSplitsRow
    <2>4. \A j \in Items : j \in pend' => Calm(j)
      BY <2>1, <2>2, <2>3 DEF Calm, Due
    <2> QED BY <1>a, <2>1, <2>4, CalmRows
  <1>7. ASSUME NEW d \in batch, SettleFailed(d) PROVE TriesInv'
    <2> DEFINE i == d.item
    <2>1. UNCHANGED <<pend, disk, restarts>> /\ phase' = "settle" /\ changed'
      BY <1>7 DEF SettleFailed
    <2>2. /\ i \in Items /\ i \in pend
          /\ row'[i].attempts = row[i].attempts + 1
          /\ row'[i].failed \/ row[i].attempts + 1 < MaxAttempts
          /\ \A j \in Items : j # i => row'[j] = row[j]
      BY <1>a, <1>7, SettleFailedRow
    <2>3. ~row[i].failed
      BY <2>2 DEF HistInv, OwnerInv, SingleOwner, Active
    <2> HIDE DEF i
    <2>4. row[i].attempts <= MaxAttempts + restarts /\ row[i].attempts # MaxAttempts + restarts
      BY <2>2, <2>3 DEF TriesInv, TriesLeft
    <2>5. /\ row'[i].attempts <= MaxAttempts + restarts
          /\ row'[i].attempts = MaxAttempts + restarts => row'[i].failed
      <3>1. row[i].attempts \in Nat /\ restarts \in Nat /\ MaxAttempts \in Nat
        BY <1>a, <2>2, Numbers
      <3> QED BY <2>2, <2>4, <3>1
    <2>6. TriesLeft'
      BY <2>1, <2>2, <2>5 DEF TriesInv, TriesLeft
    <2> QED BY <2>1, <2>6 DEF TriesInv, FailuresAreOnDisk
  <1>8. ASSUME DrainEnds PROVE TriesInv'
    <2>1. UNCHANGED <<pend, row, restarts>> /\ phase' = "flush"
          /\ IF changed THEN SaveOffline(pend', row') ELSE disk' = disk
      BY <1>8 DEF DrainEnds, Goto, SaveOffline
    <2>2. \A j \in Items : j \in pend' => Calm(j)
      BY <2>1 DEF Calm, Due
    <2> QED BY <1>a, <2>1, <2>2, CalmRows
  <1>9. ASSUME FlushQueued PROVE TriesInv'
    <2>1. UNCHANGED <<pend, disk, restarts>> /\ phase = "flush" /\ phase' = "input"
      BY <1>9 DEF FlushQueued, Goto
    <2>2. \A j \in Items : j \in pend' => Calm(j)
      BY <1>a, <1>9, <2>1, FlushRow DEF Calm, Due
    <2> QED BY <1>a, <2>1, <2>2, CalmRows
  <1> QED BY <1>1, <1>2, <1>3, <1>4, <1>5, <1>6, <1>7, <1>8, <1>9 DEF Frame

LEMMA TriesRest ==
  ASSUME HistInv, TypeInv', TriesInv, User \/ Workers \/ Session
  PROVE  TriesInv'
  <1> USE DEF rowVars, mailVars, fileVars, outVars
  <1>a. TypeInv /\ pend \subseteq Items
    BY DEF HistInv, OwnerInv, TypeInv, TypeOK
  <1>1. ASSUME NEW m \in Messages, NEW stage \in {"gif", "forward", "send"}, Compose(m, stage)
        PROVE  TriesInv'
    <2> DEFINE i == <<m, "body">>
    <2>1. UNCHANGED <<disk, restarts>> /\ phase = "input" /\ phase' = "drain"
      BY <1>1 DEF Compose, Goto
    <2>2. /\ pend' = pend \cup {i} /\ row'[i].attempts = 0
          /\ \A j \in Items : j # i => row'[j] = row[j]
      BY <1>a, <1>1, ComposeRow
    <2> HIDE DEF i
    <2>3. \A j \in Items : j \in pend' => Calm(j)
      BY <2>2 DEF Calm, Due
    <2> QED BY <1>a, <2>1, <2>3, CalmRows
  <1>2. ASSUME NEW i \in Items, Dismiss(i) PROVE TriesInv'
    <2>1. pend' = pend /\ SaveOffline(pend', row') /\ restarts' = restarts /\ phase' = "drain"
      BY <1>2 DEF Dismiss, Goto
    <2>2. \A j \in Items : j \in pend' => Calm(j)
      BY <1>a, <1>2, <2>1, DismissRow DEF Calm, Due
    <2> QED BY <1>a, <2>1, <2>2, CalmRows
  <1>3. ASSUME NEW i \in Items, Delete(i) PROVE TriesInv'
    <2>1. Remove(i, TRUE) /\ SaveOffline(pend', row') /\ restarts' = restarts /\ phase' = "drain"
      BY <1>3 DEF Delete, Goto
    <2> QED BY <1>a, <2>1, CalmRemove, CalmRows
  <1>4. ASSUME NEW i \in Items, Retry(i) PROVE TriesInv'
    <2>1. UNCHANGED <<pend, disk, restarts>> /\ phase = "input" /\ phase' = "drain"
      BY <1>4 DEF Retry, Goto
    <2>2. row'[i].attempts = 0 /\ \A j \in Items : j # i => row'[j] = row[j]
      BY <1>a, <1>4, RetryRow
    <2>3. \A j \in Items : j \in pend' => Calm(j)
      BY <2>1, <2>2 DEF Calm, Due
    <2> QED BY <1>a, <2>1, <2>3, CalmRows
  <1>5. ASSUME (\E c \in Chats : SelectChat(c)) \/ (\E a \in Accounts \cup {NoAccount} : SwitchAccount(a))
               \/ Lock
        PROVE  TriesInv'
    <2>1. UNCHANGED <<pend, row, disk, restarts>> /\ phase = "input" /\ phase' # "locked"
      BY <1>5 DEF SelectChat, SwitchAccount, Lock, Goto
    <2>2. \A j \in Items : j \in pend' => Calm(j)
      BY <2>1 DEF Calm, Due
    <2> QED BY <1>a, <2>1, <2>2, CalmRows
  <1>6. ASSUME Workers PROVE TriesInv'
    <2>1. UNCHANGED <<pend, disk, restarts, phase>>
      BY <1>6, SteadyWorkers
    <2>2. changed' = changed
      BY <1>6 DEF Workers, PrepEnds, SendEnds
    <2>3. \A j \in Items : j \in pend' => Calm(j)
      BY <1>6, <2>1, SteadyWorkers DEF Calm, Due
    <2> QED BY <1>a, <2>1, <2>2, <2>3, CalmRows
  <1>7. ASSUME SessionStops \/ Crash PROVE TriesInv'
    <2>1. pend' = {} /\ restarts' = restarts + 1 /\ disk' \subseteq disk
      BY <1>7 DEF SessionStops, Crash, SessionEnds
    <2>2. restarts \in Nat /\ MaxAttempts \in Nat /\ \A e \in disk : e.attempts \in Nat
      BY <1>a, Numbers
    <2>3. \A e \in disk : e.attempts <= MaxAttempts + restarts
      BY DEF TriesInv, TriesLeft
    <2>4. \A e \in disk' : e.attempts <= MaxAttempts + restarts' /\ e.attempts < MaxAttempts + restarts'
      BY <2>1, <2>2, <2>3
    <2> QED BY <2>1, <2>4 DEF TriesInv, TriesLeft, FailuresAreOnDisk
  <1>8. ASSUME Unlock PROVE TriesInv'
    <2>1. UNCHANGED <<disk, restarts>> /\ phase = "locked" /\ phase' = "drain"
      BY <1>8 DEF Unlock, Goto
    <2>2. \A e \in disk : e.attempts < MaxAttempts + restarts /\ e.attempts <= MaxAttempts + restarts
      BY <2>1 DEF TriesInv, TriesLeft
    <2>3. \A j \in Items : j \in pend' => \E e \in disk : e.item = j /\ row'[j].attempts = e.attempts
      BY <1>8, UnlockRow
    <2>4. restarts \in Nat /\ MaxAttempts \in Nat /\ \A e \in disk : e.attempts \in Nat
      BY <1>a, Numbers
    <2>5. TriesLeft'
      BY <2>1, <2>2, <2>3, <2>4 DEF TriesLeft
    <2>6. FailuresAreOnDisk'
      <3>1. \A e \in disk : e = [item |-> e.item, attempts |-> e.attempts]
        BY <1>a DEF TypeInv, TypeOK, Entry
      <3>2. pend' \subseteq Items
        BY DEF TypeInv, TypeOK
      <3> QED BY <2>1, <2>3, <3>1, <3>2 DEF FailuresAreOnDisk
    <2> QED BY <2>5, <2>6 DEF TriesInv
  <1>9. CASE User
    BY <1>1, <1>2, <1>3, <1>4, <1>5, <1>9 DEF User
  <1>10. CASE Session
    BY <1>5, <1>7, <1>8, <1>10 DEF Session
  <1> QED BY <1>6, <1>9, <1>10

-----------------------------------------------------------------------------
(* A part keeps the account that started it.                               *)

\* A step that starts workers only for the pins of their rows.
LEMMA PinnedKept ==
  ASSUME HistInv, EveryPinned, restarts' = restarts, published' = published,
         ghost'.author = ghost.author,
         \A j \in Items : j \in pend' => \/ j \in pend /\ row'[j].acct = row[j].acct
                                         \/ restarts = 0 => Pinned(j, row'[j].acct),
         \A w \in sending' : \/ w \in sending
                             \/ \E r : /\ w.item \in pend /\ r.acct = row[w.item].acct
                                       /\ w.acct = Sender(r)
  PROVE  EveryPinned'
  <1> SUFFICES ASSUME restarts = 0
               PROVE  /\ \A i \in Items : i \in pend' => Pinned(i, row[i].acct)'
                      /\ \A w \in sending' : Pinned(w.item, w.acct)'
                      /\ \A p \in published : Pinned(p[1], p[2])'
    BY DEF EveryPinned
  <1>1. \A i, a : Pinned(i, a)' <=> Pinned(i, a)
    BY DEF Pinned
  <1>2. \A i \in Items : i \in pend => Pinned(i, row[i].acct) /\ ghost.author[i[1]] # NoAccount
    BY DEF EveryPinned, HistInv, OwnerInv, OnlyComposed
  <1>3. pend \subseteq Items
    BY DEF HistInv, OwnerInv, TypeInv, TypeOK
  <1>4. ASSUME NEW w, NEW r, w.item \in pend, r.acct = row[w.item].acct, w.acct = Sender(r)
        PROVE  Pinned(w.item, w.acct)
    BY <1>2, <1>3, <1>4 DEF Pinned, Sender
  <1>5. \A i \in Items : i \in pend' => Pinned(i, row[i].acct)'
    BY <1>2 DEF Pinned
  <1>6. \A w \in sending' : Pinned(w.item, w.acct)'
    BY <1>1, <1>4 DEF EveryPinned
  <1>7. \A p \in published : Pinned(p[1], p[2])'
    BY <1>1 DEF EveryPinned
  <1> QED BY <1>5, <1>6, <1>7

LEMMA PinnedFrame ==
  ASSUME HistInv, EveryPinned, Frame
  PROVE  EveryPinned'
  <1> USE DEF rowVars, mailVars, fileVars, outVars
  <1>a. TypeInv /\ pend \subseteq Items /\ batch \subseteq Done /\ row \in [Items -> Row]
    BY DEF HistInv, OwnerInv, TypeInv, TypeOK
  <1>1. ASSUME PageArrives \/ (\E i \in Items : UpdateArrives(i)) \/ TakeMailbox \/ TooEarly \/ Idle
               \/ (\E d \in batch : KeepPreview(d)) \/ DrainEnds
        PROVE  EveryPinned'
    <2>1. UNCHANGED <<pend, row, sending, published, restarts>>
      BY <1>1 DEF PageArrives, UpdateArrives, TakeMailbox, TooEarly, Idle, KeepPreview, DrainEnds
    <2>2. ghost'.author = ghost.author
      BY <1>1, <1>a, GhostType DEF PageArrives, UpdateArrives, TakeMailbox, TooEarly, Idle,
                                   KeepPreview, DrainEnds
    <2> QED BY <2>1, <2>2, PinnedKept
  <1>2. ASSUME NEW i \in Items, NEW b \in BOOLEAN, Remove(i, b),
               UNCHANGED <<sending, published, restarts>>, ghost'.author = ghost.author
        PROVE  EveryPinned'
    <2>1. \A j \in Items : j \in pend' => j \in pend /\ row'[j].acct = row[j].acct
      <3> SUFFICES ASSUME NEW j \in Items, j \in pend' PROVE j \in pend /\ row'[j].acct = row[j].acct
        OBVIOUS
      <3>1. j \in pend /\ j # i
        BY <1>2 DEF Remove
      <3> QED BY <1>a, <1>2, <3>1, RemoveFields
    <2> QED BY <1>2, <2>1, PinnedKept
  <1>3. ASSUME NEW i \in Items, PrepDismissed(i) PROVE EveryPinned'
    BY <1>2, <1>3 DEF PrepDismissed
  <1>4. ASSUME NEW d \in batch, SettleGone(d) PROVE EveryPinned'
    <2>1. d.item \in Items /\ row[d.item].dismissed \in BOOLEAN
      BY <1>a DEF Done, Row
    <2>2. Remove(d.item, row[d.item].dismissed) /\ UNCHANGED <<sending, published, restarts>>
      BY <1>4 DEF SettleGone
    <2>3. ghost'.author = ghost.author
      BY <1>a, <1>4, GhostType DEF SettleGone
    <2> QED BY <1>2, <2>1, <2>2, <2>3
  <1>5. ASSUME NEW i \in Items, PrepFailed(i) PROVE EveryPinned'
    <2>1. UNCHANGED <<pend, sending, published, restarts, ghost>>
      BY <1>5 DEF PrepFailed
    <2>2. \A j \in Items : row'[j].acct = row[j].acct
      BY <1>a, <1>5, PrepFailedRow DEF Alike
    <2> QED BY <2>1, <2>2, PinnedKept
  <1>6. ASSUME NEW i \in Items, PrepSends(i) PROVE EveryPinned'
    <2>1. /\ UNCHANGED <<pend, published, restarts, ghost>> /\ i \in pend
          /\ sending' = sending \cup SpawnJobs(i, row'[i])
      BY <1>6 DEF PrepSends, Usable, Prepared
    <2>2. \A j \in Items : row'[j].acct = row[j].acct
      BY <1>a, <1>6, PrepSendsRow
    <2>3. \A w \in sending' : w \in sending \/ (w.item = i /\ w.acct = Sender(row'[i]))
      <3>1. \A w \in SpawnJobs(i, row'[i]) : w.item = i /\ w.acct = Sender(row'[i])
        BY JobsOf
      <3> QED BY <2>1, <3>1
    <2> QED BY <2>1, <2>2, <2>3, PinnedKept
  <1>7. ASSUME NEW i \in Items, PrepSplits(i) PROVE EveryPinned'
    <2> DEFINE t == Sibling(i)
    <2>1. /\ UNCHANGED <<published, restarts>> /\ i \in pend /\ pend' = pend \cup {t}
      BY <1>7 DEF PrepSplits, Usable, Prepared
    <2>2. /\ \A j \in Items : j # t => row'[j].acct = row[j].acct
          /\ row'[t].acct = row[i].acct
          /\ sending' = sending \cup SpawnJobs(t, row'[t]) \cup SpawnJobs(i, row'[i])
      BY <1>a, <1>7, PrepSplitsRow
    <2>3. t[1] = i[1] /\ t # i /\ ghost.author[i[1]] # NoAccount
      BY <1>7, CaptionIsNew, SiblingType
    <2>4. ghost'.author = ghost.author
      BY <1>7, <1>a, GhostType DEF PrepSplits
    <2> HIDE DEF t
    <2> SUFFICES ASSUME restarts = 0
                 PROVE  /\ \A j \in Items : j \in pend' => Pinned(j, row[j].acct)'
                        /\ \A w \in sending' : Pinned(w.item, w.acct)'
                        /\ \A p \in published : Pinned(p[1], p[2])'
      BY <2>1 DEF EveryPinned
    <2>5. \A j, a : Pinned(j, a)' <=> Pinned(j, a)
      BY <2>4 DEF Pinned
    <2>6. Pinned(i, row[i].acct)
      BY <2>1 DEF EveryPinned
    <2>7. Pinned(t, row'[t].acct) /\ Pinned(i, row'[i].acct)
      BY <2>2, <2>3, <2>6 DEF Pinned
    <2>8. ASSUME NEW j \in {i, t}, NEW w \in SpawnJobs(j, row'[j]) PROVE Pinned(w.item, w.acct)
      <3>1. w.item = j /\ w.acct = Sender(row'[j])
        BY JobsOf
      <3> QED BY <2>3, <2>7, <3>1 DEF Pinned, Sender
    <2>9. \A w \in sending' : Pinned(w.item, w.acct)
      BY <2>2, <2>8 DEF EveryPinned
    <2>10. \A j \in Items : j \in pend' => Pinned(j, row'[j].acct)
      BY <2>1, <2>2, <2>7 DEF EveryPinned
    <2> QED BY <2>5, <2>9, <2>10 DEF EveryPinned
  <1>8. ASSUME NEW d \in batch, SettleFailed(d) PROVE EveryPinned'
    <2>1. UNCHANGED <<pend, sending, published, restarts, ghost>>
      BY <1>8 DEF SettleFailed
    <2>2. \A j \in Items : row'[j].acct = row[j].acct
      BY <1>a, <1>8, SettleFailedRow
    <2> QED BY <2>1, <2>2, PinnedKept
  <1>9. ASSUME FlushQueued PROVE EveryPinned'
    <2>1. /\ UNCHANGED <<pend, published, restarts, ghost>>
          /\ sending' = sending \cup
               UNION {SpawnJobs(i, Flushed(row[i])) : i \in {k \in pend : row[k].queued}}
      BY <1>9 DEF FlushQueued
    <2>2. \A j \in Items : row'[j].acct = row[j].acct
      BY <1>a, <1>9, FlushRow
    <2>3. \A i \in Items : Flushed(row[i]).acct = row[i].acct
      BY <1>a DEF Flushed, Row
    <2>4. \A w \in sending' : w \in sending \/ \E i \in pend : w \in SpawnJobs(i, Flushed(row[i]))
      BY <2>1
    <2>5. ASSUME NEW w, NEW i \in pend, w \in SpawnJobs(i, Flushed(row[i]))
          PROVE  \E r : w.item \in pend /\ r.acct = row[w.item].acct /\ w.acct = Sender(r)
      BY <1>a, <2>3, <2>5, JobsOf
    <2> QED BY <2>1, <2>2, <2>4, <2>5, PinnedKept
  <1> QED BY <1>1, <1>3, <1>4, <1>5, <1>6, <1>7, <1>8, <1>9 DEF Frame

\* A message that is composed has no row, no worker and no delivery yet.
LEMMA PinnedCompose ==
  ASSUME HistInv, EveryPinned, NEW m \in Messages, NEW stage \in {"gif", "forward", "send"},
         Compose(m, stage)
  PROVE  EveryPinned'
  <1> DEFINE i == <<m, "body">>
             acct == IF Kind[m] = "text" THEN NoAccount ELSE account
  <1>a. /\ TypeInv /\ pend \subseteq Items /\ sending \subseteq Job /\ published \subseteq Items \X Accounts
    BY DEF HistInv, OwnerInv, TypeInv, TypeOK
  <1>1. /\ i \in Items /\ account \in Accounts /\ pend' = pend \cup {i} /\ row'[i].acct = acct
        /\ \A j \in Items : j # i => row'[j] = row[j]
        /\ \E r \in Row : r.acct = acct /\ sending' = sending \cup SpawnJobs(i, r)
    BY <1>a, ComposeRow
  <1>2. /\ ghost.author[m] = NoAccount /\ account # NoAccount
        /\ ghost' = [ghost EXCEPT !.author[m] = account]
        /\ UNCHANGED <<published, restarts>>
    BY DEF Compose, outVars
  <1>3. /\ ghost'.author[m] = account
        /\ \A n \in Messages : n # m => ghost'.author[n] = ghost.author[n]
    BY <1>a, <1>2, GhostType
  <1>4. i[1] = m
    OBVIOUS
  <1> HIDE DEF i
  <1> SUFFICES ASSUME restarts = 0
               PROVE  /\ \A j \in Items : j \in pend' => Pinned(j, row[j].acct)'
                      /\ \A w \in sending' : Pinned(w.item, w.acct)'
                      /\ \A p \in published : Pinned(p[1], p[2])'
    BY <1>2 DEF EveryPinned
  <1>5. ASSUME NEW j \in Items, NEW a, Pinned(j, a), a # NoAccount \/ j[1] # m PROVE Pinned(j, a)'
    <2>1. j[1] \in Messages
      BY DEF Items
    <2> QED BY <1>2, <1>3, <1>5, <2>1 DEF Pinned
  <1>6. \A j \in Items : j \in pend' => Pinned(j, row[j].acct)'
    <2> SUFFICES ASSUME NEW j \in Items, j \in pend' PROVE Pinned(j, row[j].acct)'
      OBVIOUS
    <2>1. CASE j = i
      BY <1>1, <1>3, <1>4, <2>1 DEF Pinned, acct
    <2>2. CASE j # i
      <3>1. j \in pend /\ row'[j] = row[j]
        BY <1>1, <2>2
      <3>2. j[1] # m
        BY <1>2, <3>1 DEF HistInv, OwnerInv, OnlyComposed
      <3>3. Pinned(j, row[j].acct)
        BY <3>1 DEF EveryPinned
      <3> QED BY <1>5, <3>1, <3>2, <3>3
    <2> QED BY <2>1, <2>2
  <1>7. \A w \in sending' : Pinned(w.item, w.acct)'
    <2> SUFFICES ASSUME NEW w \in sending' PROVE Pinned(w.item, w.acct)'
      OBVIOUS
    <2>1. CASE w \in sending
      <3>1. w.item \in Items /\ w.acct \in Accounts
        BY <1>a, <2>1 DEF Job
      <3>2. Pinned(w.item, w.acct) /\ w.acct # NoAccount
        BY <2>1, <3>1, SendQueueAssumption DEF EveryPinned
      <3> QED BY <1>5, <3>1, <3>2
    <2>2. CASE w \notin sending
      <3>1. PICK r \in Row : r.acct = acct /\ w \in SpawnJobs(i, r)
        BY <1>1, <2>2
      <3>2. w.item = i /\ w.acct = Sender(r)
        BY <3>1, JobsOf
      <3> QED BY <1>2, <1>3, <1>4, <3>1, <3>2 DEF Pinned, Sender, acct
    <2> QED BY <2>1, <2>2
  <1>8. \A p \in published : Pinned(p[1], p[2])'
    <2> SUFFICES ASSUME NEW p \in published PROVE Pinned(p[1], p[2])'
      OBVIOUS
    <2>1. p[1] \in Items /\ p[2] \in Accounts
      BY <1>a
    <2>2. Pinned(p[1], p[2]) /\ p[2] # NoAccount
      BY <2>1, SendQueueAssumption DEF EveryPinned
    <2> QED BY <1>5, <2>1, <2>2
  <1> QED BY <1>6, <1>7, <1>8

LEMMA PinnedRest ==
  ASSUME HistInv, EveryPinned, User \/ Workers \/ Session
  PROVE  EveryPinned'
  <1> USE DEF rowVars, mailVars, fileVars, outVars
  <1>a. TypeInv /\ pend \subseteq Items /\ row \in [Items -> Row] /\ restarts \in Nat
    BY DEF HistInv, OwnerInv, TypeInv, TypeOK
  <1>1. ASSUME NEW i \in Items, Dismiss(i) PROVE EveryPinned'
    <2>1. UNCHANGED <<pend, sending, published, restarts>>
      BY <1>1 DEF Dismiss
    <2>2. ghost'.author = ghost.author
      BY <1>1, <1>a, GhostType DEF Dismiss
    <2>3. \A j \in Items : row'[j].acct = row[j].acct
      BY <1>a, <1>1, DismissRow
    <2> QED BY <2>1, <2>2, <2>3, PinnedKept
  <1>2. ASSUME NEW i \in Items, Delete(i) PROVE EveryPinned'
    <2>1. Remove(i, TRUE) /\ UNCHANGED <<sending, published, restarts>>
      BY <1>2 DEF Delete
    <2>2. ghost'.author = ghost.author
      BY <1>2, <1>a, GhostType DEF Delete
    <2>3. \A j \in Items : j \in pend' => j \in pend /\ row'[j].acct = row[j].acct
      <3> SUFFICES ASSUME NEW j \in Items, j \in pend' PROVE j \in pend /\ row'[j].acct = row[j].acct
        OBVIOUS
      <3>1. j \in pend /\ j # i
        BY <2>1 DEF Remove
      <3> QED BY <1>a, <2>1, <3>1, RemoveFields
    <2> QED BY <2>1, <2>2, <2>3, PinnedKept
  <1>3. ASSUME NEW i \in Items, Retry(i) PROVE EveryPinned'
    <2>1. UNCHANGED <<pend, published, restarts, ghost>> /\ i \in pend
      BY <1>3 DEF Retry, Drawn
    <2>2. /\ \A j \in Items : row'[j].acct = row[j].acct
          /\ \E r \in Row : r.acct = row[i].acct /\ sending' = sending \cup SpawnJobs(i, r)
      BY <1>a, <1>3, RetryRow
    <2>3. \A w \in sending' : w \in sending \/ \E r : w.item = i /\ r.acct = row[i].acct /\ w.acct = Sender(r)
      BY <2>2, JobsOf
    <2> QED BY <2>1, <2>2, <2>3, PinnedKept
  <1>4. ASSUME (\E c \in Chats : SelectChat(c)) \/ (\E a \in Accounts \cup {NoAccount} : SwitchAccount(a))
               \/ Lock
        PROVE  EveryPinned'
    <2>1. UNCHANGED <<pend, row, sending, published, restarts, ghost>>
      BY <1>4 DEF SelectChat, SwitchAccount, Lock
    <2> QED BY <2>1, PinnedKept
  <1>5. ASSUME NEW i \in Items, NEW outcome \in {"ready", "broken"}, PrepEnds(i, outcome)
        PROVE  EveryPinned'
    <2>1. UNCHANGED <<pend, sending, published, restarts, ghost>>
      BY <1>5 DEF PrepEnds
    <2>2. \A j \in Items : row'[j].acct = row[j].acct
      BY <1>5, SteadyWorkers DEF Workers
    <2> QED BY <2>1, <2>2, PinnedKept
  <1>6. ASSUME NEW w \in sending, NEW ok \in BOOLEAN, NEW retryable \in BOOLEAN,
               NEW arrived \in BOOLEAN, SendEnds(w, ok, retryable, arrived)
        PROVE  EveryPinned'
    <2>1. /\ UNCHANGED <<pend, row, restarts, ghost>> /\ sending' \subseteq sending
          /\ published' \subseteq published \cup {<<w.item, w.acct>>}
      BY <1>6 DEF SendEnds
    <2> QED BY <2>1 DEF EveryPinned, Pinned
  <1>7. ASSUME SessionStops \/ Crash \/ Unlock PROVE EveryPinned'
    <2>1. restarts' # 0
      <3>1. restarts' = restarts + 1 \/ (restarts' = restarts /\ phase = "locked")
        <4>1. SessionEnds => restarts' = restarts + 1
          BY DEF SessionEnds
        <4>2. Unlock => restarts' = restarts /\ phase = "locked"
          BY DEF Unlock
        <4> QED BY <1>7, <4>1, <4>2 DEF SessionStops, Crash
      <3>2. phase = "locked" => restarts # 0
        BY DEF HistInv, FateInv, FirstSession
      <3> QED BY <1>a, <3>1, <3>2
    <2> QED BY <2>1 DEF EveryPinned
  <1>8. CASE User
    BY <1>1, <1>2, <1>3, <1>4, <1>8, PinnedCompose DEF User
  <1>9. CASE Workers
    BY <1>5, <1>6, <1>9 DEF Workers
  <1>10. CASE Session
    BY <1>4, <1>7, <1>10 DEF Session
  <1> QED BY <1>8, <1>9, <1>10

-----------------------------------------------------------------------------
(* The invariant and what follows from it.                                 *)

LEMMA RowStep == RowInv /\ [Next]_vars => RowInv'
  <1> SUFFICES ASSUME RowInv, [Next]_vars PROVE RowInv'
    OBVIOUS
  <1>1. HistInv /\ EveryHeld /\ BatchSettles /\ TriesInv /\ EveryPinned
    BY DEF RowInv, TriesInv
  <1>2. HistInv' /\ TypeInv'
    <2>1. HistInv'
      BY <1>1, HistStep
    <2> QED BY <2>1 DEF HistInv, OwnerInv
  <1>3. BatchSettles'
    BY <1>1, BatchStep
  <1>4. CASE UNCHANGED vars
    <2>1. EveryHeld' /\ TriesInv'
      BY <1>1, <1>4 DEF vars, EveryHeld, Held, Preparing, Flying, Landed, TriesInv, TriesLeft,
                        FailuresAreOnDisk
    <2>2. EveryPinned'
      BY <1>1, <1>4 DEF vars, EveryPinned, Pinned
    <2> QED BY <1>2, <1>3, <2>1, <2>2 DEF RowInv, TriesInv
  <1>5. CASE Frame
    BY <1>1, <1>2, <1>3, <1>5, HeldFrame, TriesFrame, PinnedFrame DEF RowInv, TriesInv
  <1>6. CASE User \/ Workers \/ Session
    BY <1>1, <1>2, <1>3, <1>6, HeldRest, TriesRest, PinnedRest DEF RowInv, TriesInv
  <1> QED BY <1>4, <1>5, <1>6 DEF Next

LEMMA RowInit == Init => RowInv
  <1> SUFFICES ASSUME Init PROVE RowInv
    OBVIOUS
  <1>1. HistInv
    BY HistInit
  <1>2. pend = {} /\ sending = {} /\ batch = {} /\ disk = {} /\ published = {}
    BY DEF Init
  <1> QED BY <1>1, <1>2 DEF RowInv, EveryHeld, BatchSettles, TriesLeft, FailuresAreOnDisk, EveryPinned

LEMMA RowInvariant == Spec => []RowInv
  <1> QED BY RowInit, RowStep, PTL DEF Spec

LEMMA RowsGoOn == RowInv => RowsAdvance
  <1> SUFFICES ASSUME RowInv PROVE RowsAdvance
    OBVIOUS
  <1>1. pend \subseteq Items
    BY DEF RowInv, HistInv, OwnerInv, TypeInv, TypeOK
  <1>2. NoOrphanRow
    BY <1>1 DEF RowInv, EveryHeld, Held, NoOrphanRow
  <1>3. RetriesBounded
    BY <1>1 DEF RowInv, TriesLeft, RetriesBounded
  <1> QED BY <1>2, <1>3 DEF RowInv, RowsAdvance

\* The rows of ui.pending: none is shown as being sent without a worker, a completion or
\* the retry timer behind it, MAX_SEND_ATTEMPTS bounds its tries, and save_offline has
\* the count of them.
THEOREM RowsGo == Spec => []RowsAdvance
  <1> QED BY RowInvariant, RowsGoOn, PTL

\* spawn_send: until a session ends a GIF or a forward reaches its group only from the
\* account that started it.
THEOREM SenderKept == Spec => []PinnedSender
  <1>1. RowInv => PinnedSender
    BY DEF RowInv, EveryPinned, Pinned, PinnedSender
  <1> QED BY <1>1, RowInvariant, PTL

-----------------------------------------------------------------------------
(* The outbox.                                                             *)

\* A completion without an error says that the group has the part.
AckSent == \A d \in done \cup batch : d.ok => d.item \in sent

\* What the queue file still has without a row was delivered, and not saved since.
LeftSent == phase # "locked" => \A i \in Items : OnDisk(i) /\ i \notin pend => i \in sent

OutInv == HistInv /\ AckSent /\ LeftSent /\ account # NoAccount

LEMMA AckStep ==
  ASSUME HistInv, AckSent, Next
  PROVE  AckSent'
  <1> USE DEF mailVars, outVars
  <1>a. batch \subseteq Done /\ sending \subseteq Job
    BY DEF HistInv, OwnerInv, TypeInv, TypeOK
  <1>1. ASSUME published' = published, done' \cup batch' \subseteq done \cup batch PROVE AckSent'
    BY <1>1 DEF AckSent, sent
  <1>2. ASSUME NEW d \in batch, KeepPreview(d) PROVE AckSent'
    <2> DEFINE again == [d EXCEPT !.asked = TRUE]
    <2>1. again.item = d.item /\ again.ok = d.ok
      BY <1>a DEF Done
    <2>2. done' = done \cup {again} /\ batch' = batch \ {d} /\ published' = published
      BY <1>2 DEF KeepPreview
    <2> HIDE DEF again
    <2> QED BY <2>1, <2>2 DEF AckSent, sent
  <1>3. ASSUME NEW d \in batch, SettleGone(d) \/ SettleFailed(d) PROVE AckSent'
    <2>1. published' = published /\ done' = done /\ batch' = batch \ {d}
      BY <1>3 DEF SettleGone, SettleFailed
    <2> QED BY <1>1, <2>1
  <1>4. CASE Frame
    <2>1. ASSUME ~(\E d \in batch : KeepPreview(d) \/ SettleGone(d) \/ SettleFailed(d))
          PROVE  published' = published /\ done' \cup batch' \subseteq done \cup batch
      BY <1>4, <2>1 DEF Frame, PageArrives, UpdateArrives, PrepDismissed, PrepFailed, PrepSends,
                        PrepSplits, TakeMailbox, DrainEnds, FlushQueued, TooEarly, Idle
    <2> QED BY <1>1, <1>2, <1>3, <2>1
  <1>5. CASE User
    <2>1. published' = published /\ UNCHANGED <<done, batch>>
      BY <1>5 DEF User, Compose, Dismiss, Delete, Retry, SelectChat, SwitchAccount
    <2> QED BY <1>1, <2>1
  <1>6. ASSUME NEW i \in Items, NEW outcome \in {"ready", "broken"}, PrepEnds(i, outcome) PROVE AckSent'
    BY <1>1, <1>6 DEF PrepEnds
  <1>7. ASSUME NEW w \in sending, NEW ok \in BOOLEAN, NEW retryable \in BOOLEAN,
               NEW arrived \in BOOLEAN, SendEnds(w, ok, retryable, arrived)
        PROVE  AckSent'
    <2> DEFINE d == [item |-> w.item, ok |-> ok, retryable |-> retryable, asked |-> FALSE]
    <2>1. d.item = w.item /\ d.ok = ok
      OBVIOUS
    <2> HIDE DEF d
    <2>2. /\ done' = done \cup {d} /\ batch' = batch /\ (ok => arrived)
          /\ published' = IF arrived THEN published \cup {<<w.item, w.acct>>} ELSE published
      BY <1>7 DEF SendEnds, d
    <2>3. sent \subseteq sent'
      BY <2>2 DEF sent
    <2>4. arrived => w.item \in sent'
      BY <1>a, <2>2 DEF sent, Job
    <2> QED BY <2>1, <2>2, <2>3, <2>4 DEF AckSent
  <1>8. CASE Session
    <2>1. published' = published /\ done' \cup batch' \subseteq done \cup batch
      BY <1>8 DEF Session, Lock, SessionStops, Crash, SessionEnds, Unlock
    <2> QED BY <1>1, <2>1
  <1> QED BY <1>4, <1>5, <1>6, <1>7, <1>8 DEF Next, Workers

\* A step of the outbox, or none, after which LeftSent holds.
OutStep == LeftSent' /\ (Abstract!Next \/ UNCHANGED Abstract!vars)

LEMMA OutSame ==
  ASSUME OutInv, UNCHANGED <<pend, disk, published, ghost>>, phase' # "locked" => phase # "locked"
  PROVE  OutStep
  BY DEF OutStep, OutInv, LeftSent, OnDisk, Abstract!vars, seen, held, stored, sent

LEMMA OutQuiet ==
  ASSUME OutInv,
         \/ PageArrives \/ (\E i \in Items : UpdateArrives(i)) \/ TakeMailbox \/ TooEarly \/ Idle
         \/ (\E d \in batch : KeepPreview(d) \/ SettleFailed(d)) \/ FlushQueued
         \/ (\E i \in Items : PrepFailed(i) \/ PrepSends(i) \/ Retry(i))
         \/ (\E c \in Chats : SelectChat(c)) \/ (\E a \in Accounts \cup {NoAccount} : SwitchAccount(a))
         \/ Lock
         \/ (\E i \in Items, outcome \in {"ready", "broken"} : PrepEnds(i, outcome))
  PROVE  OutStep
  <1>1. UNCHANGED <<pend, disk, published, ghost>> /\ (phase' # "locked" => phase # "locked")
    BY DEF PageArrives, UpdateArrives, TakeMailbox, KeepPreview, SettleFailed, FlushQueued, TooEarly,
           Idle, PrepFailed, PrepSends, Retry, SelectChat, SwitchAccount, Lock, PrepEnds, Goto,
           rowVars, fileVars, outVars
  <1> QED BY <1>1, OutSame

\* A row goes that was delivered or deleted, and the queue file may be saved.
LEMMA OutLets ==
  ASSUME OutInv, HistInv', NEW i \in Items, i \in pend, pend' = pend \ {i},
         phase # "locked", published' = published,
         ghost'.author = ghost.author, ghost'.split = ghost.split,
         disk' = disk \/ \A j \in Items : OnDisk(j)' => j \in pend',
         \/ ghost'.deleted = ghost.deleted /\ i \in sent \cup ghost.deleted
         \/ ghost'.deleted = ghost.deleted \cup {i}
  PROVE  OutStep
  <1>1. seen' = seen /\ sent' = sent /\ i \in held
    BY DEF seen, sent, held
  <1>2. \A j \in Items : OnDisk(j)' => OnDisk(j) \/ j \in pend'
    BY DEF OnDisk
  <1>3. \A j \in Items : OnDisk(j) /\ j \notin pend => j \in sent
    BY DEF OutInv, LeftSent
  <1>4. \A j \in ghost'.deleted : ~OnDisk(j)'
    BY DEF HistInv, AwayInv, DeletedNeverReturns
  <1>5. pend \subseteq Items /\ ghost'.deleted \subseteq Items
    <2>1. TypeInv /\ TypeInv'
      BY DEF OutInv, HistInv, OwnerInv
    <2>2. ghost'.deleted \subseteq Items
      BY <2>1 DEF TypeInv, TypeOK, Ghost
    <2> QED BY <2>1, <2>2 DEF TypeInv, TypeOK
  <1>6. held' \subseteq held
    BY <1>2 DEF held, stored
  <1>7. stored' \subseteq held' \ ghost'.deleted
    BY <1>4 DEF held, stored
  <1>8. held \ held' \subseteq sent \cup ghost'.deleted
    <2> SUFFICES ASSUME NEW j \in held, j \notin held' PROVE j \in sent \cup ghost'.deleted
      OBVIOUS
    <2>1. j \in Items /\ j \notin pend' /\ ~OnDisk(j)'
      BY <1>5 DEF held, stored
    <2>2. CASE j = i
      BY <2>2
    <2>3. CASE j # i
      <3>1. j \notin pend /\ OnDisk(j)
        BY <2>1, <2>3 DEF held, stored
      <3> QED BY <1>3, <2>1, <3>1
    <2> QED BY <2>2, <2>3
  <1>9. LeftSent'
    <2> SUFFICES ASSUME NEW j \in Items, OnDisk(j)', j \notin pend' PROVE j \in sent
      BY <1>1 DEF LeftSent
    <2>1. CASE j = i
      <3>1. disk' = disk
        BY <2>1
      <3> QED BY <1>4, <2>1
    <2>2. CASE j # i
      BY <1>2, <1>3, <2>2
    <2> QED BY <2>1, <2>2
  <1>10. CASE ghost'.deleted = ghost.deleted
    <2>1. Abstract!Update
      BY <1>1, <1>6, <1>7, <1>8, <1>10 DEF Abstract!Update, Abstract!Save
    <2> QED BY <1>9, <2>1 DEF OutStep, Abstract!Next
  <1>11. CASE ghost'.deleted = ghost.deleted \cup {i}
    <2>1. Abstract!Withdraw(i) /\ Abstract!Save
      BY <1>1, <1>6, <1>7, <1>8, <1>11 DEF Abstract!Withdraw, Abstract!Save
    <2> QED BY <1>9, <2>1 DEF OutStep, Abstract!Next
  <1> QED BY <1>10, <1>11

LEMMA OutRemoves ==
  ASSUME OutInv, HistInv',
         \/ \E i \in Items : PrepDismissed(i) \/ Delete(i)
         \/ \E d \in batch : SettleGone(d)
  PROVE  OutStep
  <1> USE DEF rowVars, fileVars, outVars
  <1>a. /\ TypeInv /\ batch \subseteq Done /\ row \in [Items -> Row] /\ pend \subseteq Items
        /\ DismissedDeleted
    BY DEF OutInv, HistInv, AwayInv, OwnerInv, TypeInv, TypeOK
  <1>1. ASSUME NEW i \in Items, PrepDismissed(i) PROVE OutStep
    <2>1. /\ i \in pend /\ row[i].dismissed /\ pend' = pend \ {i} /\ phase = "drain"
          /\ UNCHANGED <<disk, published, ghost>>
      BY <1>1 DEF PrepDismissed, Prepared, Remove
    <2>2. i \in ghost.deleted
      BY <1>a, <2>1 DEF DismissedDeleted
    <2> QED BY <2>1, <2>2, OutLets
  <1>2. ASSUME NEW i \in Items, Delete(i) PROVE OutStep
    <2>1. /\ i \in pend /\ pend' = pend \ {i} /\ SaveOffline(pend', row') /\ phase = "input"
          /\ published' = published /\ ghost' = [ghost EXCEPT !.deleted = @ \cup {i}]
      BY <1>2 DEF Delete, Drawn, Remove
    <2>2. /\ ghost'.author = ghost.author /\ ghost'.split = ghost.split
          /\ ghost'.deleted = ghost.deleted \cup {i}
      BY <1>a, <2>1, GhostType
    <2>3. \A j \in Items : OnDisk(j)' => j \in pend'
      BY <1>a, <2>1, SavedRows
    <2> QED BY <2>1, <2>2, <2>3, OutLets
  <1>3. ASSUME NEW d \in batch, SettleGone(d) PROVE OutStep
    <2> DEFINE i == d.item
    <2>1. i \in Items
      BY <1>a DEF Done
    <2>2. /\ i \in pend /\ pend' = pend \ {i} /\ phase = "settle"
          /\ UNCHANGED <<disk, published>> /\ (row[i].dismissed \/ d.ok)
          /\ ghost' = IF d.ok THEN [ghost EXCEPT !.drained = @ \cup {i}] ELSE ghost
      BY <1>3 DEF SettleGone, Remove
    <2>3. i \in sent \cup ghost.deleted
      BY <1>a, <2>1, <2>2 DEF OutInv, AckSent, DismissedDeleted
    <2> HIDE DEF i
    <2>4. /\ ghost'.author = ghost.author /\ ghost'.split = ghost.split
          /\ ghost'.deleted = ghost.deleted
      BY <1>a, <2>2, GhostType
    <2> QED BY <2>1, <2>2, <2>3, <2>4, OutLets
  <1> QED BY <1>1, <1>2, <1>3

\* delete_pending hides a row, and drain_sends rewrites the queue file.
LEMMA OutSaves ==
  ASSUME OutInv, HistInv', (\E i \in Items : Dismiss(i)) \/ DrainEnds
  PROVE  OutStep
  <1> USE DEF rowVars, fileVars, outVars
  <1>a. /\ TypeInv /\ TypeInv' /\ pend \subseteq Items /\ LeftSent
    BY DEF OutInv, HistInv, OwnerInv, TypeInv, TypeOK
  <1>b. \A j \in ghost'.deleted : j \in Items /\ ~OnDisk(j)'
    <2>1. ghost'.deleted \subseteq Items
      BY <1>a DEF TypeInv, TypeOK, Ghost
    <2> QED BY <2>1 DEF HistInv, AwayInv, DeletedNeverReturns
  <1>1. ASSUME pend' = pend, SaveOffline(pend, row') \/ SaveOffline(pend, row),
               phase # "locked", published' = published
        PROVE  /\ LeftSent' /\ sent' = sent
               /\ held' \subseteq held /\ held \ held' \subseteq sent
               /\ stored' \subseteq held' \ ghost'.deleted
    <2>1. \A j \in Items : OnDisk(j)' => j \in pend'
      BY <1>a, <1>1, SavedRows
    <2>2. sent' = sent
      BY <1>1 DEF sent
    <2>3. LeftSent'
      BY <2>1 DEF LeftSent
    <2>4. held' \subseteq held /\ stored' \subseteq held'
      BY <1>1, <2>1 DEF held, stored
    <2>5. held \ held' \subseteq sent
      BY <1>a, <1>1 DEF held, stored, LeftSent
    <2>6. stored' \cap ghost'.deleted = {}
      BY <1>b DEF stored
    <2> QED BY <2>2, <2>3, <2>4, <2>5, <2>6
  <1>2. ASSUME NEW i \in Items, Dismiss(i) PROVE OutStep
    <2>1. /\ i \in pend /\ pend' = pend /\ SaveOffline(pend, row') /\ phase = "input"
          /\ published' = published /\ ghost' = [ghost EXCEPT !.deleted = @ \cup {i}]
      BY <1>2 DEF Dismiss, Drawn
    <2>2. /\ ghost'.author = ghost.author /\ ghost'.split = ghost.split
          /\ ghost'.deleted = ghost.deleted \cup {i}
      BY <1>a, <2>1, GhostType
    <2>3. seen' = seen /\ i \in held
      BY <2>1, <2>2 DEF seen, held
    <2>4. Abstract!Withdraw(i) /\ Abstract!Save
      BY <1>1, <2>1, <2>2, <2>3 DEF Abstract!Withdraw, Abstract!Save
    <2> QED BY <1>1, <2>1, <2>4 DEF OutStep, Abstract!Next
  <1>3. ASSUME DrainEnds PROVE OutStep
    <2>1. pend' = pend /\ published' = published /\ phase = "settle" /\ phase' = "flush"
      BY <1>3 DEF DrainEnds, Goto
    <2>2. CASE changed
      <3>1. SaveOffline(pend, row) /\ ghost' = [ghost EXCEPT !.settled = @ \cup (ghost.drained \ pend)]
        BY <1>3, <2>2 DEF DrainEnds
      <3>2. /\ ghost'.author = ghost.author /\ ghost'.split = ghost.split
            /\ ghost'.deleted = ghost.deleted
        BY <1>a, <3>1, GhostType
      <3>3. seen' = seen
        BY <3>2 DEF seen
      <3>4. Abstract!Update
        BY <1>1, <2>1, <3>1, <3>2, <3>3 DEF Abstract!Update, Abstract!Save
      <3> QED BY <1>1, <2>1, <3>1, <3>4 DEF OutStep, Abstract!Next
    <2>3. CASE ~changed
      <3>1. UNCHANGED <<pend, disk, published, ghost>>
        BY <1>3, <2>3 DEF DrainEnds
      <3> QED BY <2>1, <3>1, OutSame
    <2> QED BY <2>2, <2>3
  <1> QED BY <1>2, <1>3

\* A composer adds a part, and so does the caption of a forward.
LEMMA OutAdds ==
  ASSUME OutInv,
         \/ \E m \in Messages, stage \in {"gif", "forward", "send"} : Compose(m, stage)
         \/ \E i \in Items : PrepSplits(i)
  PROVE  OutStep
  <1> USE DEF rowVars, fileVars, outVars
  <1>a. TypeInv /\ LeftSent /\ HistInv /\ SplitOnce
    BY DEF OutInv, HistInv, AwayInv, OwnerInv
  <1>1. ASSUME NEW i \in Items, i \notin seen, seen' = seen \cup {i}, pend' = pend \cup {i},
               UNCHANGED <<disk, published>>, ghost'.deleted = ghost.deleted, phase # "locked"
        PROVE  OutStep
    <2>1. sent' = sent /\ stored' = stored
      BY <1>1 DEF sent, stored, OnDisk
    <2>2. held' = held \cup {i}
      BY <1>1, <2>1 DEF held
    <2>3. Abstract!Accept(i)
      BY <1>1, <2>1, <2>2 DEF Abstract!Accept
    <2>4. LeftSent'
      BY <1>a, <1>1, <2>1 DEF LeftSent, OnDisk
    <2> QED BY <2>3, <2>4 DEF OutStep, Abstract!Next
  <1>2. ASSUME NEW m \in Messages, NEW stage \in {"gif", "forward", "send"}, Compose(m, stage)
        PROVE  OutStep
    <2> DEFINE i == <<m, "body">>
    <2>1. /\ ghost.author[m] = NoAccount /\ account # NoAccount /\ phase = "input"
          /\ pend' = pend \cup {i} /\ UNCHANGED <<disk, published>>
          /\ ghost' = [ghost EXCEPT !.author[m] = account]
      BY <1>2 DEF Compose
    <2>2. /\ ghost'.author = [ghost.author EXCEPT ![m] = account]
          /\ ghost'.split = ghost.split /\ ghost'.deleted = ghost.deleted
      BY <1>a, <2>1, GhostType
    <2>3. ghost.author \in [Messages -> Accounts \cup {NoAccount}]
      BY <1>a, GhostType
    <2>4. m \notin ghost.split
      BY <1>a, <2>1 DEF SplitOnce
    <2>5. i \in Items /\ i \notin seen
      BY <2>1 DEF Items, seen
    <2>6. seen' = seen \cup {i}
      <3>1. ASSUME NEW j \in Items PROVE j \in seen' <=> j \in seen \/ j = i
        <4>1. CASE j[1] = m
          <5>1. j = i \/ j[2] = "text"
            BY <4>1 DEF Items
          <5>2. i[2] = "body" /\ i[1] = m
            OBVIOUS
          <5>3. ghost'.author[m] = account
            BY <2>2, <2>3
          <5>4. j \in seen' <=> j[2] # "text"
            BY <2>1, <2>2, <2>4, <4>1, <5>3 DEF seen
          <5>5. j \notin seen
            BY <2>1, <4>1 DEF seen
          <5>6. j = i <=> j[2] # "text"
            BY <5>1, <5>2
          <5> HIDE DEF i
          <5> QED BY <5>4, <5>5, <5>6
        <4>2. CASE j[1] # m
          <5>1. j[1] \in Messages
            BY DEF Items
          <5>2. ghost'.author[j[1]] = ghost.author[j[1]]
            BY <2>2, <2>3, <4>2, <5>1
          <5>3. j # i
            BY <4>2
          <5> HIDE DEF i
          <5> QED BY <2>2, <5>2, <5>3 DEF seen
        <4> QED BY <4>1, <4>2
      <3>2. seen' \subseteq Items /\ seen \subseteq Items
        BY DEF seen
      <3> HIDE DEF i
      <3> QED BY <2>5, <3>1, <3>2
    <2> HIDE DEF i
    <2> QED BY <1>1, <2>1, <2>2, <2>5, <2>6
  <1>3. ASSUME NEW i \in Items, PrepSplits(i) PROVE OutStep
    <2> DEFINE t == Sibling(i)
    <2>1. /\ t = <<i[1], "text">> /\ i[1] \in Messages /\ i[1] \notin ghost.split
          /\ ghost.author[i[1]] # NoAccount
      BY <1>a, <1>3, CaptionIsNew
    <2>2. /\ pend' = pend \cup {t} /\ UNCHANGED <<disk, published>> /\ phase = "drain"
          /\ ghost' = [ghost EXCEPT !.split = @ \cup {i[1]}]
      BY <1>3 DEF PrepSplits
    <2>3. /\ ghost'.author = ghost.author /\ ghost'.split = ghost.split \cup {i[1]}
          /\ ghost'.deleted = ghost.deleted
      BY <1>a, <2>2, GhostType
    <2>4. t \in Items /\ t[1] = i[1] /\ t[2] = "text"
      BY <2>1 DEF Items
    <2>5. \A j \in Items : j[2] = "text" /\ j[1] = i[1] => j = t
      BY <2>1 DEF Items
    <2> HIDE DEF t
    <2>6. t \notin seen /\ seen' = seen \cup {t}
      BY <2>1, <2>3, <2>4, <2>5 DEF seen
    <2> QED BY <1>1, <2>2, <2>3, <2>4, <2>6
  <1> QED BY <1>2, <1>3

\* send_worker: what reaches the group has a row.
LEMMA OutSends ==
  ASSUME OutInv, NEW w \in sending, NEW ok \in BOOLEAN, NEW retryable \in BOOLEAN,
         NEW arrived \in BOOLEAN, SendEnds(w, ok, retryable, arrived)
  PROVE  OutStep
  <1> USE DEF rowVars, fileVars, outVars
  <1>1. /\ UNCHANGED <<pend, disk, ghost, phase>>
        /\ published' = IF arrived THEN published \cup {<<w.item, w.acct>>} ELSE published
    BY DEF SendEnds
  <1>2. w.item \in Items /\ w.item \in pend
    BY DEF OutInv, HistInv, OwnerInv, TypeInv, TypeOK, Job, SingleOwner, Active
  <1>3. CASE arrived
    <2>1. sent' = sent \cup {w.item}
      <3>1. published' = published \cup {<<w.item, w.acct>>}
        BY <1>1, <1>3
      <3> DEFINE new == <<w.item, w.acct>>
      <3>a. new[1] = w.item /\ published' = published \cup {new}
        BY <3>1
      <3> HIDE DEF new
      <3>2. \A p \in published' : p \in published \/ p[1] = w.item
        BY <3>a
      <3>3. \E p \in published' : p[1] = w.item
        BY <3>a
      <3>4. published \subseteq published'
        BY <3>1
      <3>5. \A i \in Items : i \in sent' <=> i \in sent \/ i = w.item
        BY <3>2, <3>3, <3>4 DEF sent
      <3>6. sent' \subseteq Items /\ sent \subseteq Items
        BY DEF sent
      <3> QED BY <1>2, <3>5, <3>6
    <2>2. seen' = seen /\ stored' = stored /\ held' = held /\ w.item \in held
      BY <1>1, <1>2 DEF seen, stored, held, OnDisk
    <2>3. Abstract!Deliver(w.item)
      BY <1>1, <2>1, <2>2 DEF Abstract!Deliver
    <2>4. LeftSent'
      BY <1>1, <2>1 DEF OutInv, LeftSent, OnDisk
    <2> QED BY <1>2, <2>3, <2>4 DEF OutStep, Abstract!Next
  <1>4. CASE ~arrived
    BY <1>1, <1>4, OutSame
  <1> QED BY <1>3, <1>4

\* A session that ends leaves the queue file, whole or torn; the next one loads it.
LEMMA OutSession ==
  ASSUME OutInv, account' # NoAccount, SessionStops \/ Crash \/ Unlock
  PROVE  OutStep
  <1> USE DEF rowVars, fileVars, outVars
  <1>1. ASSUME SessionStops \/ Crash PROVE OutStep
    <2>1. pend' = {} /\ UNCHANGED <<published, ghost>> /\ phase' = "locked"
      BY <1>1 DEF SessionStops, Crash, SessionEnds, Goto
    <2>2. disk' = disk \/ (TornWrites /\ disk' = {})
      BY <1>1 DEF SessionStops, Crash
    <2>3. seen' = seen /\ sent' = sent /\ held' = stored'
      BY <2>1 DEF seen, sent, held
    <2>4. stored' = stored \/ (TornWrites /\ stored' = {})
      BY <2>2 DEF stored, OnDisk
    <2>5. Abstract!Restart
      BY <2>1, <2>3, <2>4 DEF Abstract!Restart
    <2>6. LeftSent'
      BY <2>1 DEF LeftSent
    <2> QED BY <2>5, <2>6 DEF OutStep, Abstract!Next
  <1>2. ASSUME Unlock PROVE OutStep
    <2>1. /\ UNCHANGED <<disk, published, ghost, account>> /\ phase = "locked"
      BY <1>2 DEF Unlock
    <2>2. pend' = {e.item : e \in disk} /\ disk \subseteq Entry /\ pend = {}
      BY <1>2, <2>1 DEF Unlock, OutInv, HistInv, OwnerInv, TypeInv, TypeOK, LockedIsEmpty
    <2>3. pend' = stored
      BY <2>2 DEF stored, OnDisk, Entry
    <2>4. seen' = seen /\ sent' = sent /\ stored' = stored
      BY <2>1 DEF seen, sent, stored, OnDisk
    <2>5. held' = held
      BY <2>2, <2>3, <2>4 DEF held
    <2>6. LeftSent'
      BY <2>3, <2>4 DEF LeftSent, stored
    <2>7. UNCHANGED Abstract!vars
      BY <2>1, <2>4, <2>5 DEF Abstract!vars
    <2> QED BY <2>6, <2>7 DEF OutStep
  <1> QED BY <1>1, <1>2

LEMMA OutNext ==
  ASSUME OutInv, [Next /\ StaysSignedIn]_vars
  PROVE  OutInv' /\ [Abstract!Next]_Abstract!vars
  <1>1. HistInv' /\ HistInv /\ AckSent
    BY HistStep DEF OutInv
  <1>2. CASE UNCHANGED vars
    <2>1. OutStep
      BY <1>2, OutSame DEF vars
    <2>2. AckSent' /\ account' # NoAccount
      BY <1>2 DEF vars, OutInv, AckSent, sent
    <2> QED BY <1>1, <2>1, <2>2 DEF OutInv, OutStep
  <1>3. CASE Next /\ StaysSignedIn
    <2>1. account' # NoAccount
      BY <1>3 DEF StaysSignedIn
    <2>2. AckSent'
      BY <1>1, <1>3, AckStep
    <2>3. ASSUME Frame PROVE OutStep
      BY <1>1, <2>3, OutQuiet, OutRemoves, OutSaves, OutAdds DEF Frame
    <2>4. ASSUME User PROVE OutStep
      BY <1>1, <2>4, OutQuiet, OutRemoves, OutSaves, OutAdds DEF User
    <2>5. ASSUME Workers PROVE OutStep
      BY <2>5, OutQuiet, OutSends DEF Workers
    <2>6. ASSUME Session PROVE OutStep
      BY <2>1, <2>6, OutQuiet, OutSession DEF Session
    <2>7. OutStep
      BY <1>3, <2>3, <2>4, <2>5, <2>6 DEF Next
    <2> QED BY <1>1, <2>1, <2>2, <2>7 DEF OutInv, OutStep
  <1> QED BY <1>2, <1>3

LEMMA OutInit == Init => OutInv /\ Abstract!Init
  <1> SUFFICES ASSUME Init PROVE OutInv /\ Abstract!Init
    OBVIOUS
  <1>1. HistInv
    BY HistInit
  <1>2. /\ pend = {} /\ disk = {} /\ done = {} /\ batch = {} /\ published = {}
        /\ account \in Accounts /\ ghost.deleted = {}
        /\ \A m \in Messages : ghost.author[m] = NoAccount
    BY DEF Init
  <1>3. OutInv
    BY <1>1, <1>2, SendQueueAssumption DEF OutInv, AckSent, LeftSent, OnDisk
  <1>4. seen = {}
    BY <1>2 DEF seen, Items
  <1>5. held = {} /\ stored = {} /\ sent = {}
    BY <1>2 DEF held, stored, sent, OnDisk
  <1> QED BY <1>2, <1>3, <1>4, <1>5 DEF Abstract!Init

\* While an account stays signed in, the whole pipeline (composers, workers, mailboxes,
\* frames, save_offline and load_offline) is an outbox: a part leaves it only delivered or
\* deleted, and a restart brings back what was saved, without what was deleted.
THEOREM OutboxKept == Spec /\ [][StaysSignedIn]_vars => ImplementsOutbox
  <1>1. [Next]_vars /\ [StaysSignedIn]_vars => [Next /\ StaysSignedIn]_vars
    OBVIOUS
  <1>2. OutInv /\ [Next /\ StaysSignedIn]_vars => OutInv' /\ [Abstract!Next]_Abstract!vars
    BY OutNext
  <1> QED BY OutInit, <1>1, <1>2, PTL DEF Spec, Abstract!Spec, ImplementsOutbox
=============================================================================
