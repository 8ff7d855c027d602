# White Noise Linux in TLA+

A TLA+ development of the parts of White Noise Linux that are hard to test: threads that
share rows with the frame loop, secrets that must survive failed writes, accounts that come
and go while their workers run, helper processes that are launched, asked, cut off, killed
and collected, an updater that replaces the running program, crashes between any two steps. TLC checks small instances;
TLAPS proves the most important properties for every value of the constants.

Paths below are relative to the repository; `app/x.odin:n` is a line of the source the
modules were written from.

## The system

The app is one process with helpers around it. A frame loop (`app/main.odin:893-935`) owns the interface state
`Ui_State`; it draws, handles input and *drains* what background threads left in mailboxes.
Threads never write interface state: they receive a job, call the marmot library (Rust,
external) or the vault, and finish. A session begins when the vault gate is passed and ends
when the window closes, the user locks, or a setting needs a restart of the runtime;
`session_stop` then joins every worker while a small loop keeps the window alive.

Work that is dangerous or foreign runs in processes of its own, written in C and C++.
The confined app may not fork and exec, so it starts a launcher first
(`app/helper_broker.c`); decoders of pictures, formulas, archives, PDFs and models answer
one request each, or a session of them, over a socket (`app/decoder_ipc.c`); curl,
notifications and file dialogs run under a second broker (`app/tool_broker.c`); dictation,
reading aloud and translation run in programs that share a mapping with the app
(`app/helper_ipc.c`, `app/stt.c`, `app/tts.c`, `app/translate.cpp`); the AppImage updater
(`app/appimage_update.cpp`) outlives the app to replace it.

| Component | State | Operations | Hard behaviour | What makes it correct |
| --- | --- | --- | --- | --- |
| Send queue: `workers.odin`, `offline.odin`, `forward.odin`, `gifs.odin` | `ui.pending` rows, send threads, `sends_done`, `offline-queue.json`, `ui.hidden` | compose, prepare, publish, drain, retry, flush, delete, save, load | threads borrow the row's bytes; the answer races the timeline; torn files; two rows per forward | one owner per row, no orphan, no resurrection, bounded retries, every row settles |
| Vault: `vault.odin`, `vault_gate.odin`, `vault_pw.odin` | `vault.db`, `g_vault`, sealed media files, the development memfd | create, open, set, remove, rekey, seal, lock, reset | failed writes and crashes around the rename; late workers after Lock now | never locked out, acknowledged writes are on disk, sealed files stay readable, a lock is final |
| Accounts: `account_worker.odin`, `nip46.odin`, sign-in in `workers.odin` | `account_jobs`, `nip46_accounts`, `auth_job`, marmot's account store, `nip46:<account>` records | sign in, cancel, switch, sign out, remove, sign, attach, persist | five kinds of threads that hold the same signer or write the same record | signers outlive their users, no late writer, no lost signer, everything that is told to end ends |
| Session end: `vault_session.odin` | `lock_requested`, every worker | relock, cancel, join, save, wipe | order of these steps | see the three above |
| Timeline: `timeline_worker.odin`, `timeline_window.odin` | one subscription worker, a page mailbox, one page request | open, page, read mark, retire | pages that arrive after the chat was left; a mailbox of one | the page on screen is of the open chat, paging ends |
| Live updates: `workers.odin:38-164, 283-389`, `chat_list_worker.odin` | two subscriptions, a coalesced refresh, `chat_list_revision` | subscribe, refresh, apply | a read that is older than a local change | only current snapshots are applied, the last event is never lost |
| Operations and edits: `workers.odin:1145-1700`, `edit_worker.odin` | tickets, results, a draft being edited | queue, complete, restore | completion after the chat was left | a result changes only what it was asked for |
| Members, retention, probes: `workers.odin:206-279, 406-467` | one job each | start, drain | account switch while they run | stale results are dropped |
| Media: `media_worker.odin` | two threads, in-flight keys, caches | enqueue, publish, drain | bounded pool, failures that are remembered | each key is fetched once |
| Search: `search_worker.odin`, `gsearch.odin` | per surface one active and one pending request | request, cancel, drain | answers to earlier questions | what is shown answers what is typed |
| Settings: `settings.odin` | one writer, one waiting snapshot | save, drain, stop | in-place writes | the last snapshot is the one on disk |
| Group files, export, contact import, agent streams, network | one worker each | start, cancel, drain | the same pattern | the same |
| Helper launcher: `helper_broker.c` | launch socket, slots, per call a proxy, a channel, a controller and a helper with its process group | start, stop, execve, refuse, kill, collect | every party may end at any moment; copies of the socket in forked processes; one poll for signals, hangups and deadlines | a call behaves like execve; nothing runs unwatched; whatever ends a use ends the helper |
| Tool broker: `tool_broker.c` | broker socket, a server and a tool per use, the dialog thread | run, notify, pick a file, stop | exit, output, alarms and left-behind processes in any order; the stop against a dialog | whole results or errors; one dialog, one callback; calls and stop end |
| Decoder calls: `decoder_ipc.c`; helpers `image.c`, `pdf.c`, `archive.c`, `math_shim.cpp`, `fbx_helper.c`, `src/model-decoder` | a socket and a process, sequence numbers of a session | decode, exchange, close | sockets smaller than messages; helpers that crash, lie, repeat or stall; numbers of collected processes | answers are whole and of their own exchange; processes are killed while they are ours; calls return |
| Updater: `appimage_update_client.c`, `appimage_update.cpp`, `updater.odin` | phase, consent, workspace, candidate, the image and its kept copy | check, download, consent, quit, install, relaunch | the app, the helper and the power end at any moment; unsynced renames | a working image is always at the path; nothing replaced under a running app |
| Speech and translation: `stt.c`, `tts.c`, `translate.cpp`, `helper_ipc.c`, `speech_download.h`, `stt.odin`, `tts.odin`, `translation.odin` | one header word and a mapping, the model folder and its lock, the program | launch, publish, tick, stop; check, fetch, rename | two writers of a word; publication against exit; two instances in one folder | commands and lengths are not lost; only verified models; whole results; no orphans |
| Sandbox: `main_sandbox.c` | none after set-up | restrict | none in the app | rules of the kernel |
| Notifications, folder rules, relay lists | none (pure) | decide | none | agree with their definition |
| Interface, decoders, native wrappers, web apps, scripts | drawing and libraries | | | |

How the components touch each other: the account jobs and the signer threads write vault
records; the sign-in takes signers from `nip46_accounts` and starts account jobs; switching
or leaving an account changes which account the send queue publishes as and which timeline
is open; the end of a session joins the send workers, the account jobs and the signers in
that order and wipes the vault last (first, in memory, when the user asked to lock now).
A decoder of the confined app is started through the launcher, whose call it takes for an
execve: `HelperExec` is what `Decoder` assumes of it. Updater and speech programs are
started by the app itself.

`PROJECT.json` lists every component with what is modelled of it, and every hazard at its
line with the properties that watch it.

## The plan

1. `SendQueue`, `Outbox`, `SendOutbox`: rows, workers, mailbox and file; the abstract outbox
   and the refinement; proofs of every safety property and of the refinement. **Done.**
2. `Vault`: the file, the memory, the cache and the sealed files; proofs of all its
   invariants. **Done.**
3. `Accounts`: account jobs, remote signers, sign-in, session end; proofs of all its
   safety properties. **Done.**
4. The processes: `HelperBroker` with `HelperExec` and its refinement, `ToolBroker`,
   `Decoder` with `DecoderAnswers`, `Updater`, `Speech`. **Done.**
5. `Timeline`: paging, read marks, retirement, with an abstract "window over a history" it
   implements; then `LiveRefresh`, composed with it through `select_chat` and
   `chat_list_revision`, with the members, retention and probe jobs.
6. `Ops`: operations and edits with their tickets; `AgentStream`.
7. `Workers`: search (one active, one pending), media (bounded pool), export, settings
   writer; pure operators for notifications, relay-list merging and folder rules.
8. Proofs: what `SendQueue` promises and its refinement of `Outbox`, the refinement of
   `HelperExec`, `ImageIsSafe`, `ResultIsWhole`, `NoLateWriter`, the safety properties of
   `Decoder` and `Speech`. **Done.** Every safety property a run checks is a theorem.

Abstract specifications worth stating: the outbox and the execve of a helper (done), a
window over a history for the timeline, a latest-wins register for the settings writer and for the searches.

## Modules

| Module | Models | Notes |
| --- | --- | --- |
| `SendQueue` | the send pipeline | one step per drain of the frame, per call of a worker |
| `Outbox` | what the pipeline promises | accept, deliver, withdraw, restart |
| `SendOutbox` | `SendQueue` implements `Outbox` | refinement mapping |
| `MCSendQueue` | instances | kinds and chats of the messages |
| `SendQueue_proofs` | theorems of `SendQueue` and `SendOutbox` | ownership, then the history of the parts, then rows and the refinement |
| `Vault` | the vault, its gate and the password change | operations begin, rename or fail, return |
| `MCVault`, `Vault_proofs` | instances; theorems | |
| `Accounts` | account jobs, signers, sign-in, session end | one step per call of a worker |
| `MCAccounts`, `Accounts_proofs` | instances; theorems | |
| `HelperBroker` | the application's side, the launcher, proxies, controllers and helpers | one step per system call that another process can see |
| `HelperExec` | what a call promises | an execve that fails, or succeeds and ends |
| `ToolBroker` | callers, broker, servers, tools, the dialog thread | |
| `DecoderAnswers` | pure: valid requests, what each helper answers, which headers are taken | sizes in bytes |
| `Decoder` | a call or a session, the sockets, the helper | messages cut into items |
| `Updater` | main thread, worker thread, helper, folder | |
| `Speech` | the tick of the app, the header, the model folder, three programs | |
| `HelperBroker_proofs`, `ToolBroker_proofs`, `Decoder_proofs`, `Updater_proofs`, `Speech_proofs` | theorems of the five | `Decoder_proofs` also of `DecoderAnswers` |
| `MCHelperBroker`, `MCToolBroker`, `MCDecoder`, `MCUpdater`, `MCSpeech` | instances | |

### SendQueue

A message is one part (`body`) or, for a forward with attachments, two (`text` is the
caption). A part has at most one row at a time, so parts stand for tickets. `row[i]` holds
the fields of `Pending_Send` the code branches on; `sending` the running workers; `done`
the mailbox and `batch` what `drain_sends` swapped out of it; `disk` and `torn` the queue
file; `view` the open conversation. The frame loop is split at its drains, in the order of
`main.odin:921-934`: forwards, GIF sends, `drain_sends` (one completion at a time, then the
save), `flush_queued`, input. Workers and the timeline worker step at any time; the user
acts between frames; a session ends by `Lock` (joins the workers, forgets the mailbox) or
`Crash` (which may tear the file when `TornWrites`).

Left out: search views and thread scopes of the timeline (a row waits for its own chat's
page only), the 30 seconds before a row may be deleted (`Drawn` lets it be deleted at once
or not), a timeline subscription that fails for good, write errors of `save_offline` other
than a crash, attachments' bytes.
`ghost`, `told` and `restarts` record history for the properties and guard nothing but
`restarts`' bound.

### Vault

Every operation runs under `g_vault_lock`, so one operation is in progress at a time: it
begins (memory changes), renames the new file into place or fails, and returns. A crash may
come between any two. A key is named by what it was made from: master keys by password and
salt, the historical blob key by its master key, a random blob key by the salt drawn with
it; two keys are equal only if made from the same. `Init` includes a vault an earlier
version created, without a blob-key entry. `ghost` records what the person and the callers
were told, and which sealed files are left of a vault that is deleted.

`vault_delete` looks at no result of its removals (`app/vault.odin:515-519`), so each may fail
and the next happens all the same: `BeginReset` removes the file or leaves the vault as it was,
`RemoveStore` tries each sealed file once (`doomed` is what it has still to try; the order of the
stores and what `os.remove_all` does after its first error are abstracted to any order and any
outcome), and the gate comes back, asking for the old password if `vault.db` is still there. What
the reset promises is therefore conditional: without a vault, every sealed file that is left is
one whose removal failed or was cut short by the end of the process (`OnlyFailuresLeave`); a vault
that is left still opens and reads what is left of its files (`BlobsStayReadable` and the
others). That a reset leaves nothing does not hold of the code.

Left out: the work factor and the cipher, the contents of the temporary file (never read),
the test harness password, password strength, corrupt envelopes (the gate refuses them).
`vault_open` reads and installs in one step: only the gate calls it, after every worker was
joined.

### Accounts

`store` is marmot's account store, `desc` and `mem` the `nip46:<account>` records in the
vault's file and in its map, `signer` is `nip46_accounts` with the stage of each signer's
attach and persist threads, `jobs` the running account jobs, `auth` the sign-in with the
signer it took out of the list. Every marmot or vault call of a thread is a step; the
drains of the frame loop and the user's input come in any order, which includes the loop's
own. `sign` stands for the sixteen operations that need the signer attached, `read` for
`Read_Archived`, which does not; what they bring is not modelled. A failed write leaves the new record in memory, as
`vault_set` does, and a later write of any secret saves it.

Left out: which of several accounts marmot lists first (any), a failing `list_accounts`, an
account that changes between local and remote signing, the contents of a record (only its
presence; a descriptor that the signer renewed is not told from the old one), the ten
seconds between two saves. `raced` and `cut` record history. `Init` is any store and any
records: whatever earlier sessions left.

### HelperBroker and HelperExec

A call is one use of `wn_helper_execve` by a process the app forked: `proxy[c]`. It sends
its channel into the launch socket (`queue`), writes its `request`, and reads `replies`.
`launcher` is the loop of `launch_loop` between its scan, its `ppoll` and its end; `free` is
the slot it found in the scan and uses after the wait. `ctl[c]` is the controller
(`serve_request`), `child[c]` the helper with `spawned[c]` for a process it leaves in its
group, `term[c]` a pending SIGTERM. `Holders` are the processes with a copy of the launch
socket, which is what decides when the launcher reads its end: `shutdown` in
`wn_helpers_stop` reaches the copies, the kernel's close for a killed app does not.
Deadlines are enabled at any time: `GiveUp` and `Abandon` may happen wherever the code waits.
`HelperExec` has the caller's view (`call`) and the program's (`helper`); the mapping is at
the end of `HelperBroker`.

Left out: the confinement of the launcher, the environment and descriptors passed on, the
names of the programs (a kind that is allowed or not), partial reads of the fixed-size
messages.

### ToolBroker

`caller[c]` is the thread in `open_request` and `wn_tools_run` or the dialog's thread,
`server[c]` the process of `serve_request`, `tool[c]` the program with `heirs[c]` for a
process it leaves behind that keeps its pipes open. Output is counted in units: `produced`
by the tool, `taken` by the server. `busy`, `joinable` and `callbacks` are `dialog_running`,
`dialog_joinable` and how often the window was called back. Alarms are steps that may come
at any time while their process runs, ordered only where the numbers of seconds in the code
order them (a tool's alarm is shorter than its server's).

Left out: which arguments a tool accepts, the two pipes as two (their sum), the chunks of a
download to a file, the alarms' lengths.

### Decoder and DecoderAnswers

`Decoder` is the POSIX half of `decoder_ipc.c`. `app` is where the call is: in the loop of
`decoder_transfer`, after the end of the reply, or in `decoder_stop`. Streams are cut into
items that hold a header, a page count or a piece of payload, so a partial read or write is
a choice of how many items; a socket holds `Buffer` of them. `owned`, `reaped` and `pid` tell
what the app thinks its child's number is from what it is: after `waitpid` a number is
`freed`. The helper's states are the loops of the six programs. `faults` are chosen at the
start: none, or all (`crash`, `repeat`, `excess`, `lie`, `slow`), so that `CallsEnd` can
promise an answer of a helper that works.

`DecoderAnswers` holds the arithmetic: which arguments a call refuses, which requests each
helper answers and with which header, which headers the app accepts. A document is described
by what its library reads from it.

Left out: the Windows transport, the `ECHILD` branch of the wait (nothing else waits for
these processes), the libraries' parsing, `copy` of pixels, the limits' numbers.

### Updater

`main` is the main thread between the calls of `appimage_update_client.c`, split where it
reads and then writes an atomic the worker writes too (`ClickCheck`, `Check`, `SendCheck`);
`worker` the thread; `commands` and `lines` the two directions of the socket; `helper` the
loop and the installation of `appimage_update.cpp`, one step per system call that changes
the folder. `source` and `rollback` are the image and the kept one, `unsynced` the folder's
changes that a power loss may undo, each alone. `Foreign` is another program that replaces
the image: the helper compares it with what it saw, but nothing excludes a change between
that comparison and the rename, so the model excludes that window and says so.

`stage` is the private workspace. `cleanup_stage` gives up on an overlong path and ignores a
failing `unlink` or `rmdir` (`app/appimage_update_client.c:84-86`, `:96-116`), and so does the
helper's own removal (`app/appimage_update.cpp:325`): `RemoveWorkspace` ends with the workspace
gone or `"left"`. So `StopCleansUp`, part of `Inv`, promises that a quit without consent leaves no
helper and no workspace whose removal was not tried, not that there is none.

A version is four numbers of any size (the code's are 64 bits wide and a larger one is no
version). `Newer` compares them field by field as the code does; the reference it is checked
against, `NewRelease`, compares the days the versions stand for, then the revisions.

Left out: the feed and its signature (a release is one of `Releases` and is signed), the
private-directory and descriptor checks (a start that fails), progress, texts of errors, the
relaunch's environment, macOS.

### Speech

`word` is the header's first four bytes, which `wn_ipc_write` exchanges as one word; `pc`
where the program is, with `write` for the exchange loop that every progress report goes
through. The three programs share their start, the model folder and the end; their work is
`Listen`/`Hear`/`AppendText` (stt.c), `Speak`/`Voice`/`Ahead`/`Drain` (tts.c) and
`Generate`/`Publish` (translate.cpp). `app` is the tick of `stt.odin`, `tts.odin` or
`translation.odin`, split between the read of the status and the wait for the process.
`Rival` is the program of another instance: it takes part only in the folder. A text to read
is a sequence of byte kinds, cut by `ChunkLength` as `tts.c` cuts it.

Left out: the contents of audio, transcripts and translations, the languages, the choice of
voices, the interface's queue of messages to read, the percentages in between.

## Runs

| Run | Instance | What it shows |
| --- | --- | --- |
| `SendTexts` | two texts, one account, 2 tries, 1 restart, torn writes | rows have one owner and are never left behind (`RowsAdvance`: no orphan, failures reach the file, retries are bounded); deleted and settled messages stay away (`NothingReturns`) |
| `SendGif` | one GIF, two accounts, two chats, 2 tries, 2 restarts, fairness | types and late deliveries (`Inv`); a GIF deleted during preparation is never sent; it is sent by the account that started it; every row settles |
| `SendForward` | one forward that may split, one account, 2 tries, 1 restart, torn writes | none of the parts vanishes; the final confirmation is for the whole; the pipeline implements `Outbox` |
| `Vault` | 2 passwords, 3 salts, 2 secrets with 2 values, 2 sealed files, 2 restarts, development build; symmetric | never locked out, acknowledged writes on disk, locks hold; the session matches the file, sealed files stay readable and only failed removals leave any after a reset (`Inv`) |
| `Accounts` | one local and one remote account, one session from any disk | signers outlive their jobs, jobs exclude each other (`Inv`), no lost signer, no late writer, the current account is signed in |
| `AccountsLive` | one remote account, fairness | a session told to end ends, a cancelled sign-in ends, leaving waits at most for a connecting signer |
| `HelperBroker` | two calls, one slot, font helpers allowed and decoders not, 2 starts, fairness | every helper is watched (`Inv`), a stop leaves nothing, calls are execves, whatever ends a use ends the helper |
| `ToolBroker` | two uses, either of which may be a dialog, 1 unit of output allowed and 2 written, fairness | dialogs and the stop (`Inv`), results are whole, calls and stop end |
| `Decoder` | fifteen requests, sockets of two items, 3 exchanges, no fault or all, fairness | processes are ours when killed (`Inv`), answers are genuine, sessions stay in step, calls end |
| `Updater` | an older release of many revisions, the same and two newer ones, sockets of 2, 2 checks, fairness | what is ready is verified and a stop leaves no helper and tries to remove the workspace (`Inv`), an image that works is always there, none is replaced under a running app, quitting ends |
| `Speech` | one model file, 3 samples in windows of 2, texts of 7 bytes in pieces of 4, 3 tokens, fairness | the folder and the pieces (`Inv`), the header keeps both writers' bytes, results are whole, a success is shown, programs end |
| `LateDeliveryHidden` | small | a statement of the repository that the code does not keep, below |

Every property of a passing run has a mutant in `PROJECT.json`: a definition changed the way
a plausible slip would change the code, under which the run fails.

### Why the bounds are enough

Two messages suffice for rows to interfere through the shared mailbox, batch and file; a
third adds no new pair. A forward is the only composition with two rows, so it has its own
runs. Two tries make the first retry, the cap and the first try above it after a restart
all happen. One restart lets every state of a session meet every state of the file; the GIF
run has a second. The vault's salts are the random draws of a creation and two changes, so a
change after a failed change happens; with two sealed files one removal of a reset fails and
the other does not. Two values tell an old value from a new one. One
account of each kind makes every pair of threads of the accounts model meet, and the pairs
that need two accounts are a switch with a departure or another switch; a second remote
account adds a second signer with its own threads and no shared state but the vault's file.
One session is enough there because it starts from any store and any records.

Two calls and one slot make the launcher run out of slots, and a slot freed after the scan;
two starts let a call of the first launch meet the second. Two uses of tools make two
dialogs meet. One unit of output allowed and two written reach the limit. A socket of two
items is smaller than the largest request (a header and two pieces) and the largest reply,
so both sides fill theirs; three exchanges with `MaxSequence` 3 reach the last sequence
number. Two checks make a check meet the answer of another. Three samples in windows of two
give two even windows; the transcript's limit and the header's two bytes overflow into each
other (`Byte` is 3); three tokens reach the ceiling. `Files` is 1: the loop over files
resets nothing between two of them but the place, and OneFetches guards the folder as a
whole.

`MaxRestarts`, `MaxAttempts`, `MaxStarts`, `Checks`, `MaxSequence`, `Tokens`, `Recording`
and `Audio` are the bounds; all are in guards.

### Fairness

`SendGif` assumes: the frame loop keeps running (weak fairness of its next drain); every
marmot call returns (weak fairness per worker); a session that is locked is stopped; the
timeline worker brings the page it was asked for and the flush timer passes, although other
frames come between (strong fairness: the page request and the timer are looked at in every
frame, but the user may move between two frames). `RowsSettle` speaks of an open account
only, since rows wait while nobody is signed in.

`AccountsLive` assumes weak fairness of each thread and each drain on its own, except that
`nip46_connect` may never return, because the signer is somebody's phone. It does return
once its session was cancelled: by `auth_cancel` for a sign-in, by `nip46_cancel_all` for
all of them at a session's end. `LeavingEnds` is therefore stated with an exception for a
signer that is connecting: `account_worker` joins its attach thread without cancelling it,
although the comment at `app/account_worker.odin:71` says that leaving never waits on its
signer.

`HelperBroker`: the launcher and each controller run, and each read of a proxy that has its
channel goes on. Nothing is assumed of helpers, which may run for ever, nor of the user's
stop; a forked child that never reaches its execve is excepted in `DeathEnds`, since it
holds the socket. `ToolBroker`: every thread and process runs, alarms come at the latest when
nothing else does; what a tool leaves behind may stay for ever. `Decoder`: the loop of a call
goes on and a helper without faults does; with faults the deadline is reached (a time limit
in the code). `Updater`: threads run and the helper's steps do, except the network calls
between `C` and `R`, which may block for ever: hence the kill in `Fail`. `Speech`: the
program, the parent watch and the device run, the network may stand still; each frame ticks,
so the reading of the status and the wait are strongly fair (the tick alternates between
them and the transcript).

### What the repository says and the code does not do

- `LateDeliveryHidden`: `tests/app/offline_test.odin:60` wants a message that was deleted
  while it was being sent to stay hidden after a late success. `app/vault_session.odin:281`
  frees the unread completions when a session ends, so it is shown again.
Seen while modelling, without a run: `README.md:52` promises a durable queue, but
`app/offline.odin:84` leaves rows pinned to another account out of the file;
`app/vault.odin:90` says that mutations persist immediately, but a removal whose write
failed takes the secret out of memory only and its retry reports success (`:576`);
`app/account_worker.odin:124` says that a descriptor writer never resurrects a deleted
record, but the writer of a sign-in that is reconnecting the account is not joined; a check
for updates clicked while the worker stores READY overwrites the phase, and the helper, which
has its candidate, answers no further check, so the update stays hidden until the app ends
(`app/appimage_update_client.c:385`); a helper that fails after its goodbye leaves its
private workspace behind (`app/appimage_update_client.c:271`), as does one whose removal fails (`:96-116`); the comment
over `vault_delete` says that reset removes every vault-bound path (`app/vault.odin:497`), but no
failing removal is noticed: if `vault.db` cannot be removed the media, stickers, GIFs and unsent
messages are deleted all the same and the screen asks for the forgotten password again;
`drain_sends` toasts each part of a forward as
forwarded although `README.md:53` promises one confirmation (`app/workers.odin:1114`); a
forward loaded from the queue file has lost its account (`app/offline.odin:150`); a session
started without an account does not load the queue file and its first save overwrites it,
which is why `SendForward` keeps an account signed in (its action constraint `StaysSignedIn`); cancelling a reconnection signs out an
account that was signed in before, and the list of accounts is not refreshed
(`app/workers.odin:1967`); `settings.json` is written in place (`app/settings.odin:396`).

## Proofs

The eight `_proofs` modules hold for every finite or infinite set of messages, accounts,
chats, passwords, salts, secrets, values, files, calls and releases, and all bounds.
Assumptions: `SendQueueAssumption`, `VaultAssumption`, `AccountsAssumption`, `NoneIsNew`,
`RequestsTyped` and `SomeSlots` (HelperBroker), `NoneIsNew`, `LimitTyped`, `ForksTyped`,
`OutputTyped` and `KindsTyped` (ToolBroker), `VersionsTyped`, `MarkersDiffer` and `Bounds`
(Updater), `NoneIsNew`, `RequestsTyped`, `Bounds` and `FaultsTyped` (Decoder), `Limits`
(DecoderAnswers), `JobsKnown`, `Limits`, `UsersDiffer`, `HeaderFits`, `TextsAreValid` and
`ChunkHoldsOne` (Speech): the constants' types, and that the markers for "nothing" are none of
the values. Those of `Speech` say besides what the code relies on: the numbers a status
carries fit its bytes, a text is valid UTF-8 (the application hands over no other), and a
piece has room for any character. TLC evaluates them all on each run.

**SendQueue.** `TypeCorrect` (types) and `OwnerCorrect` (`SingleOwner`). `SingleOwner` is not
inductive: whether a row may be sent again depends on its preparation, on its sibling's
settlement and on what a lock empties. `OwnerInv` adds that a row being prepared is not
queued (`PreparingNotQueued`), that a caption exists only after its forward split
(`CaptionFollows`), that only composed messages have rows (`OnlyComposed`) and that a locked
session has nothing in flight (`LockedIsEmpty`). Ownership is restated per row (`Owned`,
`OwnedPerItem`): an action that touches one row leaves all others owned by `OwnedLess`, one
that spawns a worker keeps the row's own by `OwnedOne`.

What became of the parts: `AwayForever` (`NothingReturns`),
`DeletedHides` (`Inv`), `NothingLost` (`NothingVanishes`), `DeletedIsNotSent`
(`NoSendAfterDelete`) and `WholeForwardTold` (`ConfirmsWholeForward`). `HistInv` is `OwnerInv`
with two layers. `AwayInv`: what has a row, an entry or a history was started by the user
(`KnownStarted`), so a new part has none of them; a forward never splits twice (`SplitOnce`),
or its caption could come back after its deletion; only a deletion hides a row
(`DismissedDeleted`). `FateInv`: in the first session nothing drained has a row
(`FirstSession`), and a row of a forward that is not `cut` has its other part pending or
delivered (`ForwardWhole`), which is why the last part to settle may speak for both. Most
steps leave rows, file and history alone in what these say (`Steady`).

The rows and the refinement: `RowsGo` (`RowsAdvance`), `SenderKept` (`PinnedSender`) and `OutboxKept`
(`ImplementsOutbox`). `RowInv`: every row is held (`EveryHeld`), completions are handled before
the frame goes on (`BatchSettles`), a row that did not fail has a try left
(`TriesLeft`), and rows, workers and deliveries all carry the account that started the
message (`EveryPinned`). The refinement needs that a completion without an error says the
part was delivered (`AckSent`), and that what the file still has without a row was delivered
(`LeftSent`). The latter fails when a session starts signed out, so the theorem assumes
`[][StaysSignedIn]_vars`, as its run does. Torn files and crashes are steps of the outbox, not
exceptions to the theorem.

**Vault.** Every invariant the run checks, `Inv` as `VaultSafe` from its parts: `VaultTypes`, `NobodyLockedOut`,
`SessionAgrees`, `BlobsReadable`, `ResetComplete`, `WritesDurable`, `LockIsFinal`. The
inductive invariant is built in layers, each proved on top of the ones before:
`KeyInv` (the file's key is made from its salt and a known password; the operation in
progress remembers the key to roll back to), `BlobInv` (who may hold a blob key, and that
without a vault every sealed file is an orphan or still to be tried by the reset; only a vault
that is gone makes orphans), `AckInv` (memory agrees with what was
acknowledged), `LockInv` (a locked vault is unlocked only by the gate). Each layer is proved
over the same three groups of actions, `GateStep`, `SessionStep` and `EndStep`.

**Accounts.** `AccountTypes`, `JobsExclusive` (`OneJobEach`), `SignerKept`
(`SignerOutlivesJob`), `SignerAttached` (`AttachedWhileWorking`), and `JobsSafe` (`Inv`) from
them. The three about jobs are
inductive only together: a departure may free its signer because no other job of the account
exists, and may unregister it for the same reason. `JobsJoined` adds that the end of a session
frees the signers after it joined the jobs, `AuthShape` that a second pass works on a remote
account the first one named, without which not even the types are inductive. The two
invariants about signers are proved as one, `Held(signer, jobs)`, so that a drain that starts
a switch can be argued over the signers it is about to write (`NewJobHeld`).

`RecordSaved` (`RegisteredIsSaved`) and `NoLateRecord` (`NoLateWriter`) rest on `FileInv`,
which says of every account that was not told to leave during a login to it (`Fine`): a signer
belongs to an account that is signed in and whose record is saved, unless nothing of it runs
and it is not registered (`SignerFine`); a departure has the account to itself, no login
replaces the signer whose writers it joins (`LeaveFine`); a login has no signer in
`nip46_accounts` beside it (`LoginFine`); and a record is in memory alone only while the
sign-in that failed to save it is undoing itself (`DirtyFine`), for else the next save of any
other secret would bring it to the file. A step is argued for the account it is about; for
all others it only moves things on (`SignerLike`, `JobsLike`, `AuthLike`, `FileLike`,
`StoreLike` and `FineKept`). `CurrentKept` (`CurrentIsSignedIn`) keeps on screen only an
account that is `Shown`, and needs to know that a switch that is about to be drained is of
such an account.

**HelperBroker.** `HelpersAreWatched` (`Inv`), `StopIsClean` (`StopLeavesNothing`) and
`CallsAreExecs` (`ImplementsExec`: the whole refinement, first state and every step). What a
helper may be doing depends on its controller, and what a caller reads on both, so the
inductive invariant has one conjunct per call with three parts: `Stage` (controller and
helper), `Contact` (proxy, request, controller and the launch socket) and `Told` (the replies
still to be read are those the helper's life explains). `SlotInv` adds that the slot found by
the scan is still free after the wait, which is what makes the slots distinct; `LauncherInv`
that only a launcher that serves has controllers, which is what makes the stop clean. A step
is argued for the call it is about (`OneCall`), all others being `Same`. The refinement takes
the same invariant and shows that each step changes at most one execve (`OneExec`), by a
transition of `HelperExec` or none (`ExecStep`).

**ToolBroker.** `WholeResults` (`ResultIsWhole`) and `ToolsSafe` (`Inv`). `ServerOK`: what a
server answered without an error is all the tool wrote, and the tool has ended, so it stays
that. `CallerOK`: a channel is in the socket at most once (`Distinct`) and served at most
once, so an answer that was read is still the server's. `WaitsOK`: the dialog's thread waits
as long as a server may run its tool, without which a second picker could open beside the
first one's window. `DialogInv`: `dialog_running` and the thread to join name the one active
dialog, so a join leaves none. `BrokerInv`: a killed broker has no channel and no server.

**Updater.** `UpdaterSafe` (`Inv`), `ImageSafe` (`ImageIsSafe`) and `ReplacesAfterExit`
(`ReplacedAfterExit`). `Consented`: a helper that awaits the end or installs was told to by
a consent that nobody takes back, and installs only after the application's end. `ImageInv`:
from the check to the rename the old image is linked, then synced, so a power loss cannot
take both; the candidate was verified. `Truth`: what is ready, or said to be in the socket,
has a candidate. `Clean`: without a consent a worker ends after its helper and after it tried
to remove the workspace. That the comparison field by field is the order of the releases
(`NewerIsLater`) rests on `DayOrder`: the months and days of valid versions are small enough
for the number of the day, whatever the year and the revision.

**Decoder.** `DecoderSafe` (`Inv`), `GenuineAnswers` (`AnswersAreGenuine`) and `SessionKept`
(`SessionInStep`). None of them is inductive: that a body which fits its header is the answer
to *this* request rests on what is still in the stream, and that on how far the helper has
read. `Account` counts every item of a request as sent, on the way or read, so a helper that
has the number of the exchange has read all of it when nothing is to do (`Behind` or `At`);
`HeaderNext` says that what it reads as a header is one, though headers and payload travel
alike. `SessionStream` says what the application would still take: either all of the stream
was written in this exchange, with at most its first header fitting (`Fresh`), or it begins
with an item that is refused (`Unwanted`), which ends the session. Whatever an exchange that
was well left unread carries no header of the next one (`Old`), which is why a helper that
writes its answer twice cannot have it taken for the next. `HeadInv` bounds the body by the
header, `BodyInv` and `WholeInv` say that it was written for this call and is complete,
`CleanInv` that a single call is well only after an exit status of 0 was collected.
`ProcessInv` has `decoder_stop` owed to exactly the processes that were started.
`WorkingAnswerFits` is about `DecoderAnswers` alone: the limits of the helpers and the checks
of the application agree, for archive listings of any length (`ListingFits`, by the least
entry that would break it) and for pages scaled to either side. `WrittenItems` says what a
helper may write, wrong headers, excess and repetitions included.

**Speech.** `SpeechSafe` (`Inv`), `HeaderSafe` (`HeaderKept`), `FinishedWhole`
(`FinishedIsWhole`) and the action property `SuccessShown` (`SuccessIsShown`). `Place` is
where a program goes on once its bytes are in the header, and `RightBytes` what those bytes
may be there: the exchange loop may be interrupted by the stop command and tried again with
what it saw. `HearInv` orders the lengths of a dictation (taken over, committed, appended);
`Commits` says that the length on its way to the header is that of the text. `EndInv` says for
each job what has been done when its program ends well, and `Shown` that it stays so after the
program is gone. `FolderInv` keeps whole every file below the place of the two users of the
model folder. `TextInv` needs `ChunkIsWhole`: a piece of any valid text is not empty, not longer
than the model takes, and cuts no character; it is argued by the greatest good cut, not by
induction.

Only model-checked: the liveness properties `RowsSettle`, `JobsEnd`, `HelpersEnd`, `ToolsEnd`,
`CallsEnd`, `QuitEnds` and `ProgramsEnd`, since fairness and ENABLED are out of the prover's
reach. Every other property of a passing run is a theorem.

## Not modelled

The timeline beyond what rows wait for, live updates, operations and edits, members,
retention, media, search, settings and agent streams are the next modules of the plan.
Drawing, layout, input, themes and translations of the interface have no protocol to get
wrong. The sandbox (`main_sandbox.c`) is a straight line of system calls before any thread
exists. The Windows transport of the decoders, the parsers and emulators themselves
(`fbx_shim.c`, `src/nes-decoder`, the mesh and formula parsers), location, voice and video
playback, web apps, torrents and the embedded workspace are outside the core. The marmot
library is external: its calls appear as the steps of the threads that make them.
