------------------------------ MODULE SendQueue ------------------------------
(***************************************************************************)
(* The optimistic send pipeline of the app: the pending rows of the open   *)
(* conversation, the worker threads that prepare and publish them, the     *)
(* completion mailbox, the frame loop that drains it, and the sealed queue *)
(* file that keeps failed sends across a lock, a quit or a crash           *)
(* (app/workers.odin, app/offline.odin, app/forward.odin, app/gifs.odin).  *)
(*                                                                         *)
(* Only the frame loop touches the rows; it is a cycle of phases           *)
(*                                                                         *)
(*         drain --> settle --> flush --> input --> drain ...              *)
(*                                                                         *)
(* and the worker threads take steps between any two of its steps.         *)
(***************************************************************************)
EXTENDS Naturals, FiniteSets

CONSTANTS
  Messages,     \* what the user composes, each at most once
  Accounts,     \* the identities this client holds
  NoAccount,    \* the empty account reference
  Chats,        \* the group conversations
  NoChat,       \* no conversation is open
  Kind,         \* Kind[m]: the composer m goes through
  Chat,         \* Chat[m]: the conversation m is addressed to
  MaxAttempts,  \* MAX_SEND_ATTEMPTS, 8 in the code
  MaxRestarts,  \* bound on locks, quits and crashes in a behaviour
  TornWrites    \* may a crash leave a half-written queue file?

ASSUME SendQueueAssumption ==
  /\ NoAccount \notin Accounts
  /\ NoChat \notin Chats
  /\ Kind \in [Messages -> {"text", "gif", "forward"}]
  /\ Chat \in [Messages -> Chats]
  /\ MaxAttempts \in Nat \ {0}
  /\ MaxRestarts \in Nat
  /\ TornWrites \in BOOLEAN

(***************************************************************************)
(* A forward that carries a caption and attachments is sent as two parts,  *)
(* so what a row stands for is a message part.  A part has at most one row *)
(* at a time, and a row's ticket is never reused, so the part stands for   *)
(* the ticket too.                                                         *)
(***************************************************************************)
Items == Messages \X {"body", "text"}
ChatOf(i) == Chat[i[1]]
Sibling(i) == <<i[1], IF i[2] = "body" THEN "text" ELSE "body">>

VARIABLES
  pend,        \* the parts that have a row in ui.pending
  row,         \* row[i]: the fields of that row
  sending,     \* the running send_worker threads
  done,        \* sends_done, the mailbox of completions
  batch,       \* the completions drain_sends swapped out and still handles
  changed,     \* drain_sends' offline_changed
  refresh,     \* drain_sends' refresh
  disk,        \* the entries of offline-queue.json
  torn,        \* offline-queue.json is half written
  phase,       \* where the frame loop is
  account,     \* ui.account_ref
  view,        \* the open conversation's timeline
  published,   \* <<part, account>> pairs the group really received
  hidden,      \* ui.hidden, persisted by save_hidden
  told,        \* the forward confirmations this drain_sends toasted
  restarts,    \* history: sessions ended so far
  ghost        \* history: what the user asked for and what became of it

rowVars  == <<pend, row>>
mailVars == <<done, batch, changed, refresh>>
fileVars == <<disk, torn>>
outVars  == <<published, hidden, restarts>>
vars == <<pend, row, sending, done, batch, changed, refresh, disk, torn, phase, account,
          view, published, hidden, told, restarts, ghost>>

Row == [stage: {"gif", "forward", "send"}, job: {"idle", "running", "ready", "broken"},
        acct: Accounts \cup {NoAccount}, fwd: BOOLEAN, cut: BOOLEAN,
        queued: BOOLEAN, failed: BOOLEAN, dismissed: BOOLEAN, attempts: Nat]

\* A row as queue_send, gif_send and do_forward append it; Blank is also what
\* row[i] is while i has no row.
NewRow(stage, acct, fwd) ==
  [stage |-> stage, job |-> "idle", acct |-> acct, fwd |-> fwd, cut |-> FALSE,
   queued |-> FALSE, failed |-> FALSE, dismissed |-> FALSE, attempts |-> 0]
Blank == NewRow("send", NoAccount, FALSE)

Job   == [item: Items, acct: Accounts]
Done  == [item: Items, ok: BOOLEAN, retryable: BOOLEAN, asked: BOOLEAN]
Entry == [item: Items, attempts: Nat]
View  == [open: Chats \cup {NoChat}, shown: SUBSET Items, loading: BOOLEAN,
          snapshot: SUBSET Items]
Toast == [forward: Messages, by: {"part", "whole"}]
Ghost == [author: [Messages -> Accounts \cup {NoAccount}], split: SUBSET Messages,
          drained: SUBSET Items, settled: SUBSET Items, deleted: SUBSET Items]

\* The parts with a row that the group of chat c has received.
Received(c) == {i \in pend : ChatOf(i) = c /\ \E p \in published : p[1] = i}

ClosedView == [open |-> NoChat, shown |-> {}, loading |-> FALSE, snapshot |-> {}]

Init ==
  /\ pend = {}
  /\ row = [i \in Items |-> Blank]
  /\ sending = {} /\ done = {} /\ batch = {}
  /\ changed = FALSE /\ refresh = FALSE
  /\ disk = {} /\ torn = FALSE
  /\ phase = "drain"
  /\ account \in Accounts
  /\ view = ClosedView
  /\ published = {} /\ hidden = {} /\ told = {}
  /\ restarts = 0
  /\ ghost = [author |-> [m \in Messages |-> NoAccount], split |-> {}, drained |-> {},
              settled |-> {}, deleted |-> {}]

-----------------------------------------------------------------------------
(* Helpers of the frame loop.                                              *)

\* spawn_send: a row still in preparation restarts its preparation worker, any
\* other one gets a publish worker under its pinned account, or the current one.
SenderCurrent(r) == account  \* mutant: the pin is ignored
Sender(r) == IF r.acct # NoAccount THEN r.acct ELSE account
SpawnRow(r) == IF r.stage = "send" THEN r ELSE [r EXCEPT !.job = "running"]
SpawnJobs(i, r) == IF r.stage = "send" THEN {[item |-> i, acct |-> Sender(r)]} ELSE {}

\* A worker may be using the row: delete_pending must not free it.
Borrowed(r) == ~r.failed /\ ~r.queued

\* The rows save_offline writes; everything else stays memory-only.
DurableDismissed(r) ==  \* mutant: hidden rows are written too
  /\ r.stage = "send"
  /\ r.acct \in {NoAccount, account}
  /\ r.queued \/ r.failed \/ r.attempts # 0
Durable(r) ==
  /\ ~r.dismissed
  /\ r.stage = "send"
  /\ r.acct \in {NoAccount, account}
  /\ r.queued \/ r.failed \/ r.attempts # 0
Entries(rows, fields) ==
  {[item |-> i, attempts |-> fields[i].attempts] : i \in {j \in rows : Durable(fields[j])}}
SaveOffline(rows, fields) == disk' = Entries(rows, fields) /\ torn' = FALSE

\* A row after a failed try: transport-shaped errors queue it below the cap, the
\* rest fail it.
TriedUncapped(r, retryable) ==  \* mutant: the cap is forgotten
  [r EXCEPT !.attempts = @ + 1, !.queued = retryable, !.failed = ~retryable]
Tried(r, retryable) ==
  LET again == retryable /\ r.attempts + 1 < MaxAttempts
  IN  [r EXCEPT !.attempts = @ + 1, !.queued = again, !.failed = ~again]

\* free_pending and ordered_remove; forward_settled marks the other part of a
\* forward when this one was cancelled.
RemoveBoth(i, cancelled) ==  \* mutant: the other part goes as well
  LET gone == IF cancelled /\ row[i].fwd THEN {i, Sibling(i)} ELSE {i}
  IN  /\ pend' = pend \ gone
      /\ row' = [j \in Items |-> IF j \in gone THEN Blank ELSE row[j]]
Remove(i, cancelled) ==
  /\ pend' = pend \ {i}
  /\ row' = [j \in Items |->
       IF j = i THEN Blank
       ELSE IF cancelled /\ j = Sibling(i) /\ row[i].fwd /\ row[j].fwd
            THEN [row[j] EXCEPT !.cut = TRUE]
            ELSE row[j]]

\* The two toasts that confirm a forward: forward_settled's for the last part to
\* settle, and the one drain_sends adds for every part.
SentLast(i) ==  \* mutant: a cancelled part does not count
  row[i].fwd /\ ~row[Sibling(i)].fwd /\ row[i].acct = account
SentWhole(i) == row[i].fwd /\ ~row[Sibling(i)].fwd /\ ~row[i].cut /\ row[i].acct = account
SentPart(i) == row[i].fwd /\ row[i].acct = account
Toasts(i) ==
  {t \in Toast : t.forward = i[1] /\ \/ t.by = "whole" /\ SentWhole(i)
                                     \/ t.by = "part" /\ SentPart(i)}

\* timeline_start drops the page; the snapshot to come holds at least what the
\* group has received by now.
Reopened(c) == [open |-> c, shown |-> {}, loading |-> c # NoChat, snapshot |-> Received(c)]

Goto(p) == phase' = p

-----------------------------------------------------------------------------
(* drain: timeline_drain, then drain_gif_sends and drain_forwards.          *)

\* The timeline worker brought its first page.
PageArrives ==
  /\ phase = "drain" /\ view.loading
  /\ view' = [view EXCEPT !.shown = view.snapshot, !.snapshot = {}, !.loading = FALSE]
  /\ UNCHANGED <<rowVars, sending, mailVars, fileVars, phase, account, outVars, told, ghost>>

\* The subscription brought the record that replaces a grayed row.
UpdateArrives(i) ==
  /\ phase = "drain" /\ ~view.loading
  /\ i \in Received(view.open) \ view.shown
  /\ view' = [view EXCEPT !.shown = @ \cup {i}]
  /\ UNCHANGED <<rowVars, sending, mailVars, fileVars, phase, account, outVars, told, ghost>>

Prepared(i) ==
  /\ i \in pend
  /\ row[i].stage # "send" /\ ~row[i].failed
  /\ row[i].job \in {"ready", "broken"}

PrepDismissed(i) ==
  /\ phase = "drain" /\ Prepared(i) /\ row[i].dismissed
  /\ Remove(i, TRUE)
  /\ UNCHANGED <<sending, mailVars, fileVars, phase, account, view, outVars, told, ghost>>

PrepFailedDrops(i) ==  \* mutant: the row goes with its failed preparation
  /\ phase = "drain" /\ Prepared(i)
  /\ ~row[i].dismissed /\ row[i].job = "broken"
  /\ Remove(i, TRUE)
  /\ UNCHANGED <<sending, mailVars, fileVars, phase, account, view, outVars, told, ghost>>
PrepFailed(i) ==
  /\ phase = "drain" /\ Prepared(i)
  /\ ~row[i].dismissed /\ row[i].job = "broken"
  /\ row' = [row EXCEPT ![i].failed = TRUE]
  /\ UNCHANGED <<pend, sending, mailVars, fileVars, phase, account, view, outVars, told, ghost>>

UsableHidden(i) == Prepared(i) /\ row[i].job = "ready"  \* mutant: dismissed is not tested
Usable(i) == Prepared(i) /\ ~row[i].dismissed /\ row[i].job = "ready"

PrepSends(i) ==
  /\ phase = "drain" /\ Usable(i)
  /\ row' = [row EXCEPT ![i].stage = "send", ![i].job = "idle"]
  /\ sending' = sending \cup SpawnJobs(i, row'[i])
  /\ UNCHANGED <<pend, mailVars, fileVars, phase, account, view, outVars, told, ghost>>

\* A forward with a caption: the caption gets a row and a worker of its own.
PrepSplits(i) ==
  LET text == Sibling(i)
      caption == [NewRow("send", row[i].acct, TRUE) EXCEPT !.cut = row[i].cut]
  IN  /\ phase = "drain" /\ Usable(i)
      /\ row[i].stage = "forward"
      /\ pend' = pend \cup {text}
      /\ row' = [row EXCEPT ![i].stage = "send", ![i].job = "idle", ![text] = caption]
      /\ sending' = sending \cup SpawnJobs(text, caption) \cup SpawnJobs(i, row'[i])
      /\ ghost' = [ghost EXCEPT !.split = @ \cup {i[1]}]
      /\ UNCHANGED <<mailVars, fileVars, phase, account, view, outVars, told>>

\* Every prepared row was handled: drain_sends takes the mailbox.
TakeMailbox ==
  /\ phase = "drain"
  /\ \A i \in Items : ~Prepared(i)
  /\ batch' = done /\ done' = {}
  /\ Goto("settle")
  /\ UNCHANGED <<rowVars, sending, changed, refresh, fileVars, account, view, outVars, told, ghost>>

-----------------------------------------------------------------------------
(* settle: drain_sends handles the completions it took, one by one.         *)

\* The acknowledgement beat the timeline: keep the grayed row until the record
\* that replaces it is in the open page.
WaitsAnywhere(d) ==  \* mutant: a row of a chat that is not open waits too
  /\ d.ok
  /\ d.item \in pend /\ ~row[d.item].dismissed
  /\ d.item \notin view.shown
Waits(d) ==
  /\ d.ok
  /\ d.item \in pend /\ ~row[d.item].dismissed
  /\ ChatOf(d.item) = view.open
  /\ d.item \notin view.shown

KeepPreview(d) ==
  /\ phase = "settle" /\ d \in batch
  /\ Waits(d)
  /\ batch' = batch \ {d}
  /\ done' = done \cup {[d EXCEPT !.asked = TRUE]}
  /\ refresh' = (refresh \/ ~d.asked)
  /\ UNCHANGED <<rowVars, sending, changed, fileVars, phase, account, view, outVars, told, ghost>>

\* The ids of a dismissed send that was delivered all the same are hidden.
Hides(d) == row[d.item].dismissed /\ d.ok

\* The row goes: it was delivered, or the user deleted it meanwhile.
SettleGone(d) ==
  LET i == d.item IN
  /\ phase = "settle" /\ d \in batch
  /\ ~Waits(d)
  /\ i \in pend
  /\ row[i].dismissed \/ d.ok
  /\ Remove(i, row[i].dismissed)
  /\ batch' = batch \ {d}
  /\ changed' = TRUE
  /\ hidden' = IF Hides(d) THEN hidden \cup {i} ELSE hidden
  /\ told' = IF row[i].dismissed THEN told ELSE told \cup Toasts(i)
  /\ view' = [view EXCEPT !.shown = @ \ {i}, !.snapshot = @ \ {i}]
  /\ ghost' = IF d.ok THEN [ghost EXCEPT !.drained = @ \cup {i}] ELSE ghost
  /\ UNCHANGED <<sending, done, refresh, fileVars, phase, account, published, restarts>>

SettleFailed(d) ==
  LET i == d.item IN
  /\ phase = "settle" /\ d \in batch
  /\ i \in pend
  /\ ~row[i].dismissed /\ ~d.ok
  /\ row' = [row EXCEPT ![i] = Tried(row[i], d.retryable)]
  /\ batch' = batch \ {d}
  /\ changed' = TRUE
  /\ UNCHANGED <<pend, sending, done, refresh, fileVars, phase, account, view, outVars,
                 told, ghost>>

DrainEnds ==
  /\ phase = "settle" /\ batch = {}
  /\ IF changed
     THEN /\ SaveOffline(pend, row)
          /\ ghost' = [ghost EXCEPT !.settled = @ \cup (ghost.drained \ pend)]
     ELSE UNCHANGED <<fileVars, ghost>>
  /\ view' = IF refresh THEN Reopened(view.open) ELSE view
  /\ changed' = FALSE /\ refresh' = FALSE /\ told' = {}
  /\ Goto("flush")
  /\ UNCHANGED <<rowVars, sending, done, batch, account, outVars>>

-----------------------------------------------------------------------------
(* flush: flush_queued re-sends every queued row once its timer has passed. *)

FlushedAgain(r) == r  \* mutant: the row stays queued while it is sent
Flushed(r) == [r EXCEPT !.queued = FALSE]

FlushQueued ==
  LET queue == {i \in pend : row[i].queued}
  IN  /\ phase = "flush" /\ account # NoAccount
      /\ row' = [i \in Items |-> IF i \in queue THEN SpawnRow(Flushed(row[i])) ELSE row[i]]
      /\ sending' = sending \cup UNION {SpawnJobs(i, Flushed(row[i])) : i \in queue}
      /\ Goto("input")
      /\ UNCHANGED <<pend, mailVars, fileVars, account, view, outVars, told, ghost>>

TooEarly ==
  /\ phase = "flush"
  /\ Goto("input")
  /\ UNCHANGED <<rowVars, sending, mailVars, fileVars, account, view, outVars, told, ghost>>

-----------------------------------------------------------------------------
(* input: at most one user action per frame.                                *)

Idle ==
  /\ phase = "input"
  /\ Goto("drain")
  /\ UNCHANGED <<rowVars, sending, mailVars, fileVars, account, view, outVars, told, ghost>>

\* The three composers: queue_send and queue_staged; gif_send; do_forward, whose
\* destination is never the open chat and which prepares attachments if there are any.
Typed(m, stage) == Kind[m] = "text" /\ stage = "send" /\ Chat[m] = view.open
PicksGif(m, stage) == Kind[m] = "gif" /\ stage = "gif" /\ Chat[m] = view.open
Forwards(m, stage) ==
  Kind[m] = "forward" /\ stage \in {"send", "forward"} /\ Chat[m] # view.open
Composer(m, stage) == Typed(m, stage) \/ PicksGif(m, stage) \/ Forwards(m, stage)

Compose(m, stage) ==
  LET i == <<m, "body">>
      new == NewRow(stage, IF Kind[m] = "text" THEN NoAccount ELSE account, Kind[m] = "forward")
  IN  /\ phase = "input" /\ account # NoAccount /\ view.open # NoChat
      /\ ghost.author[m] = NoAccount
      /\ Composer(m, stage)
      /\ pend' = pend \cup {i}
      /\ row' = [row EXCEPT ![i] = SpawnRow(new)]
      /\ sending' = sending \cup SpawnJobs(i, new)
      /\ ghost' = [ghost EXCEPT !.author[m] = account]
      /\ Goto("drain")
      /\ UNCHANGED <<mailVars, fileVars, account, view, outVars, told>>

\* The rows on the screen are those of the open chat that are not hidden.
Drawn(i) == i \in pend /\ ChatOf(i) = view.open /\ ~row[i].dismissed

\* delete_pending: a row whose worker is active is only hidden.
Dismiss(i) ==
  /\ phase = "input" /\ Drawn(i)
  /\ Borrowed(row[i])
  /\ row' = [row EXCEPT ![i].dismissed = TRUE]
  /\ SaveOffline(pend, row')
  /\ ghost' = [ghost EXCEPT !.deleted = @ \cup {i}]
  /\ Goto("drain")
  /\ UNCHANGED <<pend, sending, mailVars, account, view, outVars, told>>

Delete(i) ==
  /\ phase = "input" /\ Drawn(i)
  /\ ~Borrowed(row[i])
  /\ Remove(i, TRUE)
  /\ SaveOffline(pend', row')
  /\ ghost' = [ghost EXCEPT !.deleted = @ \cup {i}]
  /\ Goto("drain")
  /\ UNCHANGED <<sending, mailVars, account, view, outVars, told>>

\* A click on a failed row: a manual retry restarts the auto-retry cap.
Retry(i) ==
  LET fresh == [row[i] EXCEPT !.failed = FALSE, !.attempts = 0] IN
  /\ phase = "input" /\ Drawn(i)
  /\ row[i].failed
  /\ row' = [row EXCEPT ![i] = SpawnRow(fresh)]
  /\ sending' = sending \cup SpawnJobs(i, fresh)
  /\ Goto("drain")
  /\ UNCHANGED <<pend, mailVars, fileVars, account, view, outVars, told, ghost>>

SelectChat(c) ==
  /\ phase = "input" /\ account # NoAccount
  /\ c # view.open
  /\ view' = Reopened(c)
  /\ Goto("drain")
  /\ UNCHANGED <<rowVars, sending, mailVars, fileVars, account, outVars, told, ghost>>

\* finish_account_switch, and the sign-out of the last account: the rows stay.
SwitchKeepsChat(a) ==  \* mutant: the open conversation stays open
  /\ phase = "input"
  /\ a # account
  /\ account' = a
  /\ Goto("drain")
  /\ UNCHANGED <<rowVars, sending, mailVars, fileVars, view, outVars, told, ghost>>
SwitchAccount(a) ==
  /\ phase = "input"
  /\ a # account
  /\ account' = a
  /\ view' = ClosedView
  /\ Goto("drain")
  /\ UNCHANGED <<rowVars, sending, mailVars, fileVars, outVars, told, ghost>>

-----------------------------------------------------------------------------
(* The worker threads.                                                      *)

\* gif_worker or forward_worker finished, with or without the bytes to send.
PrepEnds(i, outcome) ==
  /\ row[i].job = "running"
  /\ row' = [row EXCEPT ![i].job = outcome]
  /\ UNCHANGED <<pend, sending, mailVars, fileVars, phase, account, view, outVars, told, ghost>>

\* send_worker returns.  Success means the group has the message; an error (a
\* time-out) may hide a message that went out as well.
SendEnds(w, ok, retryable, arrived) ==
  /\ w \in sending
  /\ ok => arrived /\ ~retryable
  /\ sending' = sending \ {w}
  /\ done' = done \cup {[item |-> w.item, ok |-> ok, retryable |-> retryable, asked |-> FALSE]}
  /\ published' = IF arrived THEN published \cup {<<w.item, w.acct>>} ELSE published
  /\ UNCHANGED <<rowVars, batch, changed, refresh, fileVars, phase, account, view, hidden,
                 restarts, told, ghost>>

-----------------------------------------------------------------------------
(* Sessions: lock or quit, unlock or start, crash.                          *)

Lock ==
  /\ phase = "input"
  /\ restarts < MaxRestarts
  /\ Goto("stopping")
  /\ UNCHANGED <<rowVars, sending, mailVars, fileVars, account, view, outVars, told, ghost>>

\* The memory of a session is gone.
SessionEnds ==
  /\ pend' = {} /\ row' = [i \in Items |-> Blank]
  /\ sending' = {} /\ done' = {} /\ batch' = {}
  /\ changed' = FALSE /\ refresh' = FALSE
  /\ view' = ClosedView
  /\ told' = {}
  /\ restarts' = restarts + 1
  /\ Goto("locked")
  /\ UNCHANGED <<account, published, hidden, ghost>>

\* session_stop has joined every worker and drops the rows and the mailbox.
SessionStops ==
  /\ phase = "stopping"
  /\ sending = {}
  /\ \A i \in Items : row[i].job # "running"
  /\ SessionEnds
  /\ UNCHANGED fileVars

\* The process dies; a queue file being rewritten may be left unreadable.
Saving ==
  \/ phase = "settle" /\ batch = {} /\ changed /\ Entries(pend, row) # {}
  \/ phase = "input" /\ \E i \in Items : Drawn(i) /\ Entries(pend \ {i}, row) # {}
Crash ==
  /\ phase # "locked"
  /\ restarts < MaxRestarts
  /\ SessionEnds
  /\ \/ UNCHANGED fileVars
     \/ TornWrites /\ Saving /\ torn' = TRUE /\ disk' = {}

\* vault_gate, boot and load_offline: the entries come back as queued rows
\* without their pin; an unreadable file is removed; no account, no load.
Unlock ==
  LET back == IF account # NoAccount THEN {e.item : e \in disk} ELSE {}
      Tries(i) == (CHOOSE e \in disk : e.item = i).attempts
  IN  /\ phase = "locked"
      /\ pend' = back
      /\ row' = [i \in Items |-> IF i \in back
                                 THEN [Blank EXCEPT !.queued = TRUE, !.attempts = Tries(i)]
                                 ELSE Blank]
      /\ torn' = (torn /\ account = NoAccount)
      /\ Goto("drain")
      /\ UNCHANGED <<sending, mailVars, disk, account, view, outVars, told, ghost>>

-----------------------------------------------------------------------------

Frame ==
  \/ PageArrives
  \/ \E i \in Items : UpdateArrives(i)
  \/ \E i \in Items : PrepDismissed(i) \/ PrepFailed(i) \/ PrepSends(i) \/ PrepSplits(i)
  \/ TakeMailbox
  \/ \E d \in batch : KeepPreview(d) \/ SettleGone(d) \/ SettleFailed(d)
  \/ DrainEnds
  \/ FlushQueued
  \/ TooEarly
  \/ Idle

User ==
  \/ \E m \in Messages, stage \in {"gif", "forward", "send"} : Compose(m, stage)
  \/ \E i \in Items : Dismiss(i) \/ Delete(i) \/ Retry(i)
  \/ \E c \in Chats : SelectChat(c)
  \/ \E a \in Accounts \cup {NoAccount} : SwitchAccount(a)

Workers ==
  \/ \E i \in Items, outcome \in {"ready", "broken"} : PrepEnds(i, outcome)
  \/ \E w \in sending, ok, retryable, arrived \in BOOLEAN : SendEnds(w, ok, retryable, arrived)

Session == Lock \/ SessionStops \/ Crash \/ Unlock

Next == Frame \/ User \/ Workers \/ Session

Spec == Init /\ [][Next]_vars

\* The frame loop keeps running, a session that stops has joined its workers some
\* time, every marmot call returns, the timeline worker brings the page it was asked for and the flush timer passes, whatever other
\* frames come between.
PrepReturns(i) == \E outcome \in {"ready", "broken"} : PrepEnds(i, outcome)
SendReturns(i) ==
  \E w \in sending, ok, retryable, arrived \in BOOLEAN :
    w.item = i /\ SendEnds(w, ok, retryable, arrived)

Fairness ==
  /\ WF_vars(Frame) /\ WF_vars(SessionStops)
  /\ SF_vars(PageArrives)
  /\ SF_vars(FlushQueued)
  /\ \A i \in Items : WF_vars(PrepReturns(i)) /\ WF_vars(SendReturns(i))

FairSpec == Spec /\ Fairness

-----------------------------------------------------------------------------
(* Invariants.                                                              *)

\* Every variable has its type; above all, no worker ever publishes for the empty
\* account, whatever was signed out while its row waited.
TypeOK ==
  /\ pend \subseteq Items
  /\ row \in [Items -> Row]
  /\ sending \subseteq Job
  /\ done \subseteq Done /\ batch \subseteq Done
  /\ changed \in BOOLEAN /\ refresh \in BOOLEAN
  /\ disk \subseteq Entry /\ torn \in BOOLEAN
  /\ phase \in {"drain", "settle", "flush", "input", "stopping", "locked"}
  /\ account \in Accounts \cup {NoAccount}
  /\ view \in View
  /\ published \subseteq Items \X Accounts
  /\ hidden \subseteq Items
  /\ told \subseteq Toast
  /\ restarts \in Nat
  /\ ghost \in Ghost

Preparing(i) == row[i].stage # "send" /\ ~row[i].failed
Flying(i) == \E w \in sending : w.item = i
Landed(i) == \E d \in done \cup batch : d.item = i
OnDisk(i) == \E e \in disk : e.item = i

\* A row that a worker may be using: it exists, it is past its preparation, and it
\* neither waits for a retry nor shows failure.
Active(i) == i \in pend /\ row[i].stage = "send" /\ ~row[i].queued /\ ~row[i].failed

\* The bytes a worker borrows belong to a row: no row is freed under a running
\* worker, no two workers share a row, a row that waits to be retried or that
\* failed has nothing in flight, and a completion always finds its row, once.
SingleOwner ==
  /\ \A w \in sending : Active(w.item) /\ ~Landed(w.item)
  /\ \A w, v \in sending : w.item = v.item => w = v
  /\ \A d \in done \cup batch : Active(d.item)
  /\ \A d, e \in done \cup batch : d.item = e.item => d = e
  /\ done \cap batch = {}
  /\ \A i \in Items : row[i].job = "running" => i \in pend /\ Preparing(i)
  /\ \A i \in Items : ~(row[i].queued /\ row[i].failed)

\* No row is orphaned as "sending..." for ever: it is being prepared, or a worker
\* or a completion of it exists, or it waits for the timer, or it shows failure.
NoOrphanRow ==
  \A i \in pend : row[i].queued \/ row[i].failed \/ Preparing(i) \/ Flying(i) \/ Landed(i)

\* What the user deleted never comes back: it is not in the queue file, and a row
\* of it is only there, hidden, until its worker answers.
DeletedNeverReturns ==
  \A i \in ghost.deleted :
    /\ ~OnDisk(i)
    /\ i \in pend => row[i].dismissed /\ ~row[i].queued /\ ~row[i].failed

\* Once a delivery was drained and the queue file rewritten, no crash, lock or
\* restart makes the message go out again.
SettledNeverReturns ==
  \A i \in ghost.settled : i \notin pend /\ ~OnDisk(i) /\ ~Flying(i)

\* A row counting failed tries is in the queue file with that count, whatever the
\* frame does next; only drain_sends holds a newer count until it ends.
FailuresAreOnDisk ==
  \/ phase = "settle" /\ changed
  \/ \A i \in pend :
       row[i].attempts > 0 /\ row[i].stage = "send" /\ row[i].acct = NoAccount /\ ~row[i].dismissed
         => [item |-> i, attempts |-> row[i].attempts] \in disk

\* Automatic retries are bounded: each restart adds at most one try to a row that
\* had reached the cap, the one of its first flush.
RetriesBounded == \A i \in pend : row[i].attempts <= MaxAttempts + restarts

\* A row goes on: owned or waiting, its failures on disk, its tries bounded.
RowsAdvance == NoOrphanRow /\ FailuresAreOnDisk /\ RetriesBounded

\* What was deleted or delivered stays away.
NothingReturns == DeletedNeverReturns /\ SettledNeverReturns

Parts(m) == {<<m, "body">>} \cup (IF m \in ghost.split THEN {<<m, "text">>} ELSE {})
Whole(m) == \A i \in Parts(m) : i \in ghost.drained /\ i \notin ghost.deleted

\* In a session that was never interrupted every part of every message is still
\* in the queue, was drained as delivered, or was deleted by the user.
NothingVanishes ==
  restarts = 0 =>
    \A m \in Messages : ghost.author[m] # NoAccount =>
      \A i \in Parts(m) : i \in pend \cup ghost.drained \cup ghost.deleted

\* A message deleted while its worker was publishing it is hidden once drain_sends
\* knows it was delivered, in whatever order the deletion, the acknowledgement
\* and the timeline came.
DeletedIsHidden ==
  restarts = 0 => ghost.deleted \cap ghost.drained \subseteq hidden

\* States have the right shape, and what the user deleted is out of sight.
Inv == TypeOK /\ DeletedIsHidden

\* A GIF or a forward is sent by the account that started it, however often it is
\* retried and whichever account is open by then.
PinnedSender ==
  restarts = 0 =>
    \A p \in published : Kind[p[1][1]] # "text" => p[2] = ghost.author[p[1][1]]

-----------------------------------------------------------------------------
(* Action properties.                                                       *)

\* No worker starts for a part that is deleted, however late its preparation, its
\* retry timer or its queue file comes.
NoSendAfterDelete ==
  [][\A w \in sending' : w.item \in ghost.deleted => Flying(w.item)]_vars

\* forward_settled confirms a forward only when every part was delivered and none
\* was deleted.
ConfirmsWholeForward ==
  [][\A t \in told' \ told : t.by = "whole" => Whole(t.forward)']_vars

-----------------------------------------------------------------------------
(* Liveness.                                                                *)

\* While its account is open every row comes to an end: it leaves, or it shows
\* failure; it neither waits for the timer nor for the timeline for ever.
RowsSettle ==
  \A i \in Items :
    i \in pend ~> (i \notin pend \/ row[i].failed \/ account = NoAccount \/ row[i].acct \notin {NoAccount, account})

-----------------------------------------------------------------------------
(* What the repository says of the pipeline and the code does not keep.     *)

\* offline_test.odin: "A late successful publish must stay hidden after restarting
\* too": the end of a session may not forget an acknowledgement in the mailbox.
LateDeliveryHidden ==
  [][\A d \in done : SessionStops /\ d.ok /\ row[d.item].dismissed => d.item \in hidden']_vars
=============================================================================
