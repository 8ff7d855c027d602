------------------------------ MODULE Updater ------------------------------
(***************************************************************************)
(* Self-update of the AppImage: the bridge in the application              *)
(* (appimage_update_client.c) and the helper that checks, downloads,       *)
(* verifies and, once the application has ended, installs a release        *)
(* (appimage_update.cpp).  The main thread, a worker thread and the helper *)
(* share four atomics and a socket; the image folder outlives them all.    *)
(***************************************************************************)
EXTENDS Naturals, Sequences, FiniteSets

CONSTANTS
  Releases,  \* versions the feed may offer, each the four fields of a version
  Current,   \* the version that runs
  Buffer,    \* commands, and lines, the socket holds
  Checks,    \* how often a check is asked for, by click, setting or timer
  None,      \* no image
  Other,     \* an image put there by somebody else
  Torn       \* an image whose contents a power loss has damaged

Versions == Releases \cup {Current}
ASSUME VersionsTyped == Versions \subseteq Nat \X Nat \X Nat \X Nat /\ {None, Other, Torn} \cap Versions = {}
ASSUME MarkersDiffer == None \notin {Other, Torn} /\ Other # Torn
ASSUME Bounds == Buffer \in Nat \ {0} /\ Checks \in Nat

VARIABLES
  main,      \* the main thread, see MainStates
  phase,     \* client.phase
  stop,      \* client.stop
  apply,     \* client.apply
  worker,    \* "none", "staging", "reading", "failed", "ended"
  commands,  \* on the way to the helper
  lines,     \* on the way to the worker
  shut,      \* the socket was shut down or closed by the application
  checks,    \* checks asked for so far
  stage,     \* the private workspace: "none", "there", "left" where its removal failed
  helper,    \* see HelperStates
  collected, \* the helper process was waited for
  automatic, \* the helper's consent mode
  requested, \* the helper is to check
  restart,   \* it was told to relaunch
  candidate, \* the verified download, None without one
  synced,    \* its contents are on the disk
  source,    \* the image at its path: its version, Other or Torn
  rollback,  \* the kept image
  unsynced,  \* changes of the folder that a power loss may undo: "link", "rename"
  power      \* FALSE after a power loss

vars == <<main, phase, stop, apply, worker, commands, lines, shut, checks, stage, helper, collected,
          automatic, requested, restart, candidate, synced, source, rollback, unsynced, power>>

clientVars == <<phase, stop, apply>>
socketVars == <<commands, lines, shut, checks>>
choiceVars == <<automatic, requested, restart>>
downloadVars == <<candidate, synced>>
diskVars == <<source, rollback, unsynced, power>>

MainStates == {"off", "running", "drawn", "checking", "sending", "quitting", "joining", "exited", "dead"}
HelperStates == {"none", "starting", "loop", "asking", "downloading", "awaiting", "checked", "linked",
                 "linksynced", "renamed", "installed", "failing", "gone"}
Phases == {"off", "idle", "checking", "downloading", "ready", "failed"}
Alive == helper \notin {"none", "gone"}
AppRuns == main \notin {"off", "exited", "dead"}

Init ==
  /\ main = "off" /\ phase = "off" /\ stop = FALSE /\ apply = FALSE
  /\ worker = "none"
  /\ commands = <<>> /\ lines = <<>> /\ shut = FALSE /\ checks = 0
  /\ stage = "none" /\ helper = "none" /\ collected = FALSE
  /\ automatic \in BOOLEAN /\ requested = automatic /\ restart = FALSE
  /\ candidate = None /\ synced = FALSE
  /\ source = Current /\ rollback = None /\ unsynced = {} /\ power = TRUE

-----------------------------------------------------------------------------
(* Versions: year, month, day and revision, compared field by field.       *)

ValidVersion(v) == v[1] >= 2000 /\ v[2] \in 1..12 /\ v[3] \in 1..31

NewerField(old, new) ==  \* mutant: a greater field decides whatever stands before it
  ValidVersion(old) /\ ValidVersion(new) /\ \E i \in 1..4 : new[i] > old[i]
Newer(old, new) ==
  /\ ValidVersion(old) /\ ValidVersion(new)
  /\ \E i \in 1..4 : new[i] > old[i] /\ \A j \in 1..(i - 1) : new[j] = old[j]

-----------------------------------------------------------------------------
(* The main thread.                                                        *)

\* The command is in the socket, or the send fails: it never waits.
Sends(c) ==
  /\ (~shut /\ Alive) \/ worker = "staging"
  /\ Len(commands) < Buffer
  /\ commands' = Append(commands, c)
CannotSend ==
  /\ shut \/ ~(Alive \/ worker = "staging") \/ Len(commands) >= Buffer
  /\ UNCHANGED commands

Start ==
  /\ power /\ main = "off"
  /\ main' = "running"
  /\ \/ worker' = "staging" /\ phase' = "idle"
     \/ worker' = "none" /\ phase' = "failed"  \* a SOCKS5 proxy, no socket, no thread
  /\ UNCHANGED <<stop, apply, socketVars, stage, helper, collected, choiceVars, downloadVars, diskVars>>

\* "Check now" is drawn while nothing is under way ...
DrawCheck ==
  /\ main = "running"
  /\ phase \in {"idle", "failed"} /\ worker # "none"
  /\ checks < Checks
  /\ main' = "drawn"
  /\ checks' = checks + 1
  /\ UNCHANGED <<clientVars, worker, commands, lines, shut, stage, helper, collected,
                 choiceVars, downloadVars, diskVars>>

\* ... clicked in a later frame: wn_appimage_check reads the phase ...
ClickCheck ==
  /\ main = "drawn"
  /\ main' = IF phase = "ready" THEN "running" ELSE "checking"
  /\ UNCHANGED <<clientVars, worker, socketVars, stage, helper, collected, choiceVars, downloadVars, diskVars>>

\* ... sets it, ...
Check ==
  /\ main = "checking"
  /\ main' = "sending"
  /\ phase' = "checking"
  /\ UNCHANGED <<stop, apply, worker, socketVars, stage, helper, collected, choiceVars, downloadVars, diskVars>>

\* ... and asks the helper.
SendCheck ==
  /\ main = "sending"
  /\ main' = "running"
  /\ \/ Sends("C") /\ UNCHANGED phase
     \/ CannotSend /\ phase' = "failed"
  /\ UNCHANGED <<stop, apply, worker, lines, shut, checks, stage, helper, collected,
                 choiceVars, downloadVars, diskVars>>

SetMode ==
  /\ main = "running" /\ worker # "none"
  /\ checks < Checks
  /\ checks' = checks + 1
  /\ \/ \E c \in {"0", "1"} : Sends(c)
     \/ CannotSend
  /\ UNCHANGED <<main, clientVars, worker, lines, shut, stage, helper, collected,
                 choiceVars, downloadVars, diskVars>>

\* "Restart now", then the normal shutdown.
Apply ==
  /\ main = "running" /\ worker # "none"
  /\ phase = "ready"
  /\ \/ Sends("A") /\ apply' = TRUE /\ main' = "quitting" /\ UNCHANGED phase
     \/ CannotSend /\ apply' = FALSE /\ phase' = "failed" /\ UNCHANGED main
  /\ UNCHANGED <<stop, worker, lines, shut, checks, stage, helper, collected,
                 choiceVars, downloadVars, diskVars>>

\* The user quits: prepare_exit installs what is ready.
Quit ==
  /\ main = "running"
  /\ main' = "quitting"
  /\ \/ /\ worker # "none" /\ phase = "ready"
        /\ \/ Sends("Q") /\ apply' = TRUE
           \/ CannotSend /\ apply' = FALSE
     \/ /\ worker = "none" \/ phase # "ready"
        /\ UNCHANGED <<apply, commands>>
  /\ UNCHANGED <<phase, stop, worker, lines, shut, checks, stage, helper, collected,
                 choiceVars, downloadVars, diskVars>>

\* wn_appimage_stop: without consent the helper is hung up on.
Stop ==
  /\ main = "quitting"
  /\ main' = "joining"
  /\ stop' = ~apply
  /\ shut' = ~apply
  /\ UNCHANGED <<phase, apply, worker, commands, lines, checks, stage, helper, collected,
                 choiceVars, downloadVars, diskVars>>

Exit ==
  /\ main = "joining"
  /\ worker \in {"none", "ended"}
  /\ main' = "exited"
  /\ shut' = TRUE
  /\ UNCHANGED <<clientVars, worker, commands, lines, checks, stage, helper, collected,
                 choiceVars, downloadVars, diskVars>>

AppDies ==
  /\ AppRuns
  /\ main' = "dead"
  /\ shut' = TRUE
  /\ worker' = "none"
  /\ UNCHANGED <<clientVars, commands, lines, checks, stage, helper, collected,
                 choiceVars, downloadVars, diskVars>>

-----------------------------------------------------------------------------
(* The worker thread.                                                      *)

\* A copy of the helper and its libraries beside the image, then fork and exec.
Stage ==
  /\ worker = "staging"
  /\ \/ stage' = "there" /\ ~stop /\ worker' = "reading" /\ helper' = "starting"
     \/ stage' \in {"none", "there"} /\ worker' = "failed" /\ UNCHANGED helper
  /\ UNCHANGED <<main, clientVars, socketVars, collected, choiceVars, downloadVars, diskVars>>

ReadLineStays ==  \* mutant: the helper's goodbye is not noticed
  /\ worker = "reading"
  /\ lines # <<>>
  /\ lines' = Tail(lines)
  /\ IF stop THEN worker' = "failed" /\ UNCHANGED phase
     ELSE /\ phase' = CASE Head(lines) = "R" -> "ready"
                        [] Head(lines) = "P" -> "downloading"
                        [] Head(lines) = "C" -> "checking"
                        [] Head(lines) = "I" -> "idle"
                        [] Head(lines) = "E" -> "failed"
                        [] OTHER -> phase
          /\ UNCHANGED worker
  /\ UNCHANGED <<main, stop, apply, commands, shut, checks, stage, helper, collected,
                 choiceVars, downloadVars, diskVars>>
\* X after a consent ends the worker, the helper and its workspace stay.
ReadLine ==
  /\ worker = "reading"
  /\ lines # <<>>
  /\ lines' = Tail(lines)
  /\ IF stop THEN worker' = "failed" /\ UNCHANGED phase
     ELSE /\ phase' = CASE Head(lines) = "R" -> "ready"
                        [] Head(lines) = "P" -> "downloading"
                        [] Head(lines) = "C" -> "checking"
                        [] Head(lines) = "I" -> "idle"
                        [] Head(lines) = "E" -> "failed"
                        [] OTHER -> phase
          /\ worker' = IF Head(lines) = "X" /\ apply THEN "ended" ELSE "reading"
  /\ UNCHANGED <<main, stop, apply, commands, shut, checks, stage, helper, collected,
                 choiceVars, downloadVars, diskVars>>

ReadEnd ==
  /\ worker = "reading"
  /\ lines = <<>>
  /\ shut \/ helper = "gone"
  /\ worker' = "failed"
  /\ UNCHANGED <<main, clientVars, socketVars, stage, helper, collected, choiceVars, downloadVars, diskVars>>

\* cleanup_stage: the helper's copy, its libraries, its log and what it downloaded.  It
\* gives up on a path that is too long, and a file or directory it cannot remove stays;
\* nobody learns of it and nobody tries again.
RemoveWorkspace == stage' \in IF stage = "none" THEN {"none"} ELSE {"none", "left"}

\* failed: kill and collect the helper, remove the workspace.
Fail ==
  /\ worker = "failed"
  /\ worker' = "ended"
  /\ helper' = IF Alive THEN "gone" ELSE helper
  /\ collected' = (helper # "none")
  /\ phase' = IF stop THEN phase ELSE "failed"
  /\ RemoveWorkspace
  /\ UNCHANGED <<main, stop, apply, socketVars, choiceVars, downloadVars, diskVars>>

-----------------------------------------------------------------------------
(* The helper.                                                             *)

\* A line to the worker; nobody reads it any more after the application closed.
Emit(l) ==
  \/ shut /\ UNCHANGED lines
  \/ ~shut /\ Len(lines) < Buffer /\ lines' = Append(lines, l)

\* The image, the folder, the parent and the lock are as they should be; a copy of the
\* image is the seed of downloads.
Begin ==
  /\ helper = "starting"
  /\ helper' \in {"loop", "failing"}
  /\ source # Current => helper' = "failing"
  /\ UNCHANGED <<main, clientVars, worker, socketVars, stage, collected, choiceVars, downloadVars, diskVars>>

BeginCheck ==
  /\ helper = "loop"
  /\ requested /\ candidate = None
  /\ requested' = FALSE
  /\ helper' = "asking"
  /\ Emit("C")
  /\ UNCHANGED <<main, clientVars, worker, commands, shut, checks, stage, collected,
                 automatic, restart, downloadVars, diskVars>>

\* Nothing new, an error, or a download that reports its progress.
Reports ==
  /\ helper \in {"asking", "downloading"}
  /\ \/ Emit("P") /\ helper' = "downloading"
     \/ Emit("E") /\ helper' = "loop"
     \/ Emit("I") /\ helper = "asking" /\ helper' = "loop"
  /\ UNCHANGED <<main, clientVars, worker, commands, shut, checks, stage, collected,
                 choiceVars, downloadVars, diskVars>>

\* Signed by the installed image's key, strictly newer, the image unchanged, written
\* through to the disk.
Downloaded ==
  /\ helper = "downloading"
  /\ \E v \in Releases : Newer(Current, v) /\ candidate' = v
  /\ source = Current
  /\ synced' = TRUE
  /\ Emit("R")
  /\ helper' = "loop"
  /\ UNCHANGED <<main, clientVars, worker, commands, shut, checks, stage, collected, choiceVars, diskVars>>

Idle == helper = "loop" /\ ~(requested /\ candidate = None)

\* Six hours later.
Timer ==
  /\ Idle
  /\ automatic /\ candidate = None
  /\ checks < Checks
  /\ checks' = checks + 1
  /\ requested' = TRUE
  /\ UNCHANGED <<main, clientVars, worker, commands, lines, shut, stage, helper, collected,
                 automatic, restart, downloadVars, diskVars>>

\* Seen before any command that is still in the socket.
HungUp ==
  /\ Idle
  /\ shut
  /\ helper' = "gone"
  /\ UNCHANGED <<main, clientVars, worker, socketVars, stage, collected, choiceVars, downloadVars, diskVars>>

Command ==
  /\ Idle
  /\ ~shut /\ commands # <<>>
  /\ commands' = Tail(commands)
  /\ LET c == Head(commands) IN
     /\ automatic' = IF c \in {"0", "1"} THEN c = "1" ELSE automatic
     /\ requested' = (requested \/ c \in {"C", "1"})
     /\ restart' = (restart \/ c = "A")
     /\ \/ c \in {"0", "1", "C"} /\ UNCHANGED <<helper, lines>>
        \/ c \in {"A", "Q"} /\ candidate # None /\ helper' = "awaiting" /\ Emit("X")
        \/ c \in {"A", "Q"} /\ candidate = None /\ helper' = "failing" /\ UNCHANGED lines
  /\ UNCHANGED <<main, clientVars, worker, shut, checks, stage, collected, downloadVars, diskVars>>

VerifyAtOnce ==  \* mutant: the helper does not wait for the parent
  /\ helper = "awaiting"
  /\ \/ source = Current /\ helper' = "checked"
     \/ helper' = "failing"
  /\ UNCHANGED <<main, clientVars, worker, socketVars, stage, collected, choiceVars, downloadVars, diskVars>>
\* The pidfd of the parent is readable: verify everything again.
Verify ==
  /\ helper = "awaiting"
  /\ ~AppRuns
  /\ \/ source = Current /\ helper' = "checked"
     \/ helper' = "failing"
  /\ UNCHANGED <<main, clientVars, worker, socketVars, stage, collected, choiceVars, downloadVars, diskVars>>

KeepOld ==
  /\ helper = "checked"
  /\ \/ /\ rollback' = source
        /\ unsynced' = unsynced \cup {"link"}
        /\ helper' = "linked"
     \/ helper' = "failing" /\ UNCHANGED <<rollback, unsynced>>
  /\ UNCHANGED <<main, clientVars, worker, socketVars, stage, collected, choiceVars, downloadVars, source, power>>

SkipSync ==  \* mutant: the folder is not synced before the replacement
  /\ helper = "linked"
  /\ helper' = "linksynced"
  /\ UNCHANGED <<main, clientVars, worker, socketVars, stage, collected, choiceVars, downloadVars, diskVars>>
SyncOld ==
  /\ helper = "linked"
  /\ \/ unsynced' = {} /\ helper' = "linksynced"
     \/ UNCHANGED unsynced /\ helper' = "failing"
  /\ UNCHANGED <<main, clientVars, worker, socketVars, stage, collected, choiceVars, downloadVars,
                 source, rollback, power>>

Replace ==
  /\ helper = "linksynced"
  /\ \/ /\ source' = candidate
        /\ unsynced' = unsynced \cup {"rename"}
        /\ helper' = "renamed"
     \/ helper' = "failing" /\ UNCHANGED <<source, unsynced>>
  /\ UNCHANGED <<main, clientVars, worker, socketVars, stage, collected, choiceVars, downloadVars, rollback, power>>

SyncNew ==
  /\ helper = "renamed"
  /\ \/ unsynced' = {} /\ helper' = "installed"
     \/ UNCHANGED unsynced /\ helper' = "failing"
  /\ UNCHANGED <<main, clientVars, worker, socketVars, stage, collected, choiceVars, downloadVars,
                 source, rollback, power>>

\* Remove the workspace, whose errors the helper ignores as well, and end; to relaunch,
\* become the new application, which may fail before and after the removal.
Finish ==
  /\ helper = "installed"
  /\ \/ RemoveWorkspace /\ helper' = "gone"
     \/ restart /\ (RemoveWorkspace \/ UNCHANGED stage) /\ helper' = "failing"
  /\ UNCHANGED <<main, clientVars, worker, socketVars, collected, choiceVars, downloadVars, diskVars>>

\* An exception: E and the end, the workspace stays.
Throw ==
  /\ helper = "failing"
  /\ Emit("E")
  /\ helper' = "gone"
  /\ UNCHANGED <<main, clientVars, worker, commands, shut, checks, stage, collected,
                 choiceVars, downloadVars, diskVars>>

HelperDies ==
  /\ Alive
  /\ helper' = "gone"
  /\ UNCHANGED <<main, clientVars, worker, socketVars, stage, collected, choiceVars, downloadVars, diskVars>>

-----------------------------------------------------------------------------
(* The world.                                                              *)

\* Somebody else replaces the image; not between the last look of the helper and its
\* rename, which nothing can exclude.
Foreign ==
  /\ power
  /\ helper \notin {"checked", "linked", "linksynced"}
  /\ source = Current
  /\ source' = Other
  /\ UNCHANGED <<main, clientVars, worker, socketVars, stage, helper, collected, choiceVars, downloadVars,
                 rollback, unsynced, power>>

\* Changes of the folder that were not synced may be lost, each alone; contents that
\* were not synced are torn.
PowerFails ==
  /\ power
  /\ power' = FALSE
  /\ main' = "dead" /\ worker' = "none" /\ helper' = "gone" /\ shut' = TRUE
  /\ \E lost \in SUBSET unsynced :
       /\ rollback' = IF "link" \in lost THEN None ELSE rollback
       /\ source' = IF "rename" \in lost THEN Current
                    ELSE IF source = candidate /\ ~synced THEN Torn ELSE source
  /\ unsynced' = {}
  /\ UNCHANGED <<clientVars, commands, lines, checks, stage, collected, choiceVars, downloadVars>>

-----------------------------------------------------------------------------

Main == Start \/ DrawCheck \/ ClickCheck \/ Check \/ SendCheck \/ SetMode \/ Apply \/ Quit \/ Stop \/ Exit \/ AppDies
Worker == Stage \/ ReadLine \/ ReadEnd \/ Fail
Helper ==
  \/ Begin \/ BeginCheck \/ Reports \/ Downloaded \/ HungUp \/ Command
  \/ Verify \/ KeepOld \/ SyncOld \/ Replace \/ SyncNew \/ Finish \/ Throw

Next == power /\ (Main \/ Worker \/ Helper \/ Timer \/ HelperDies \/ Foreign \/ PowerFails)

Spec == Init /\ [][Next]_vars

\* The threads run; the helper does, except that its network calls may block for ever.
FairSpec ==
  /\ Spec
  /\ WF_vars(power /\ (Stop \/ Exit)) /\ WF_vars(power /\ Worker)
  /\ WF_vars(power /\ (Begin \/ BeginCheck \/ HungUp \/ Command \/ Verify \/ KeepOld \/ SyncOld
                         \/ Replace \/ SyncNew \/ Finish \/ Throw))

-----------------------------------------------------------------------------

TypeOK ==
  /\ main \in MainStates /\ phase \in Phases /\ stop \in BOOLEAN /\ apply \in BOOLEAN
  /\ worker \in {"none", "staging", "reading", "failed", "ended"}
  /\ commands \in Seq({"C", "0", "1", "A", "Q"}) /\ Len(commands) <= Buffer
  /\ lines \in Seq({"C", "I", "P", "R", "E", "X"}) /\ Len(lines) <= Buffer
  /\ shut \in BOOLEAN /\ checks \in 0..Checks
  /\ stage \in {"none", "there", "left"} /\ helper \in HelperStates /\ collected \in BOOLEAN
  /\ automatic \in BOOLEAN /\ requested \in BOOLEAN /\ restart \in BOOLEAN
  /\ candidate \in Releases \cup {None}
  /\ source \in Versions \cup {Other, Torn} /\ rollback \in {Current, None}
  /\ synced \in BOOLEAN /\ unsynced \subseteq {"link", "rename"} /\ power \in BOOLEAN

\* What a version means: the day it was built on, counted in months and days that are
\* large enough for every date, and the revision of that day, any number.
Day(v) == (v[1] * 13 + v[2]) * 32 + v[3]
NewRelease(v) ==
  v \in Releases /\ (Day(v) > Day(Current) \/ (Day(v) = Day(Current) /\ v[4] > Current[4]))

\* What the user is told is ready is a verified release later than the one that runs.
ReadyIsVerified == phase = "ready" => candidate # None /\ NewRelease(candidate)

\* Whenever the application, the helper or the power ends, the image at its path is
\* whole: the old one, or a verified later one.
InstalledIsWhole == source \in {Current, Other} \/ (source = candidate /\ NewRelease(source))

\* Once the image is replaced the previous one is beside it, after a power loss too.
OldIsKept == source = candidate => rollback = Current

\* An application that exits without having told the helper to install leaves no helper,
\* not even a zombie, and no workspace but one whose removal it tried and could not finish:
\* no early return of the worker skips the kill, the wait or the removal.
StopCleansUp ==
  main = "exited" /\ ~apply => ~Alive /\ (helper = "gone" => collected) /\ stage # "there"

\* At every moment an image that works is at the path, and after a replacement the old
\* one is beside it.
ImageIsSafe == InstalledIsWhole /\ OldIsKept

\* The helper tells the truth and does not outlive the application, in states of the
\* right shape.
Inv == TypeOK /\ ReadyIsVerified /\ StopCleansUp

\* The image of a running application is never replaced, nor without a consent.
ReplacedAfterExit == [][source' # source /\ source' = candidate => ~AppRuns /\ apply]_source

\* Quitting ends: with a consent the helper says goodbye before the application leaves,
\* and only then waits for it; without one it is killed, even in a download.
QuitEnds == main = "quitting" ~> main \in {"exited", "dead"}
=============================================================================
