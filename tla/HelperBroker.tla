---------------------------- MODULE HelperBroker ----------------------------
(***************************************************************************)
(* The launcher of helper programs (helper_broker.c).  The application may *)
(* not fork and exec once it is confined, so it starts a launcher first.   *)
(* A call forks a proxy, whose execve sends the launcher a private channel *)
(* and a request; the launcher forks one controller per request, and the   *)
(* controller forks, watches and collects the helper.  Every step below is *)
(* one of one process; requests, replies and pending signals lie between.  *)
(***************************************************************************)
EXTENDS Naturals, Sequences, FiniteSets

CONSTANTS
  Calls,      \* calls of execve through the broker, each made once
  Requests,   \* what a call may ask for, see RequestSet
  Allowed,    \* the lists of helpers the application may start the launcher with
  JobCount,   \* JOB_COUNT, the slots of the launcher
  MaxStarts,  \* how often the application starts the launcher
  None        \* no call, no request

Kinds == {"decoder", "pdf", "font", "optional"}
RequestSet == [kind : Kinds, args : Nat, stdin : BOOLEAN]

ASSUME NoneIsNew == None \notin Calls \cup Requests
ASSUME RequestsTyped == Requests \subseteq RequestSet /\ Allowed \subseteq SUBSET Kinds
ASSUME SomeSlots == JobCount \in Nat \ {0} /\ MaxStarts \in Nat

VARIABLES
  app,       \* the application's view: "off", "starting", "on", "stopping" or "dead"
  starts,    \* launches so far
  frozen,    \* the kinds of helpers allowed for this launch
  ready,     \* the answer of the starting launcher: "none", "ok" or "bad"
  shut,      \* the launch socket was shut down
  launcher,  \* "none", "booting", "scanning", "polling", "terminating", "exited"
  queue,     \* channels in the launch socket, oldest first
  slots,     \* the controllers the launcher knows
  free,      \* the slot found free by the last scan, 0 for none
  proxy,     \* the process that called execve
  holds,     \* the proxy's copy of the launch socket leads to a launcher
  request,   \* the request in the channel, None until it is written
  replies,   \* replies in the channel, oldest first
  ctl,       \* the controller: "none", "reading", "handshake", "waiting", "gone"
  term,      \* SIGTERM is pending for the controller
  child,     \* the helper process, see HelperStates
  spawned    \* the helper left a process of its own in its group

vars == <<app, starts, frozen, ready, shut, launcher, queue, slots, free,
          proxy, holds, request, replies, ctl, term, child, spawned>>

appVars == <<app, starts, frozen, ready>>
launchVars == <<shut, launcher, queue, slots, free>>
proxyVars == <<proxy, holds, request>>
helperVars == <<child, spawned>>

Slots == 1..JobCount
ProxyStates == {"idle", "forked", "writing", "asking", "failed", "running", "ended", "lost", "killed"}
HelperStates == {"none", "forked", "session", "failed", "running", "exited", "collected", "gone"}

Init ==
  /\ app = "off" /\ starts = 0 /\ frozen = {} /\ ready = "none"
  /\ shut = FALSE /\ launcher = "none" /\ queue = <<>>
  /\ slots = [s \in Slots |-> None] /\ free = 0
  /\ proxy = [c \in Calls |-> "idle"] /\ holds = [c \in Calls |-> FALSE]
  /\ request = [c \in Calls |-> None] /\ replies = [c \in Calls |-> <<>>]
  /\ ctl = [c \in Calls |-> "none"] /\ term = [c \in Calls |-> FALSE]
  /\ child = [c \in Calls |-> "none"] /\ spawned = [c \in Calls |-> FALSE]

Queued(c) == \E i \in 1..Len(queue) : queue[i] = c
Live(c) == ctl[c] \in {"reading", "handshake", "waiting"}

\* The proxy's end of the channel is closed.
Hung(c) == proxy[c] \in {"failed", "ended", "lost", "killed"}
\* No process holds the launcher's end of the channel any more.
Dropped(c) == ~Queued(c) /\ ~Live(c)

\* Processes with a copy of the launch socket: the application, and every proxy
\* that was forked from it and has not replaced its descriptors yet.
Holders ==
  (IF app \in {"starting", "on"} THEN {None} ELSE {}) \cup
  {c \in Calls : holds[c] /\ proxy[c] \in {"forked", "writing", "asking"}}

-----------------------------------------------------------------------------
(* The application starts and stops the launcher.                          *)

Start ==
  /\ app = "off" /\ starts < MaxStarts
  /\ app' = "starting" /\ starts' = starts + 1
  /\ frozen' \in Allowed
  /\ ready' = "none"
  /\ launcher' = "booting"
  /\ shut' = FALSE /\ queue' = <<>>
  /\ slots' = [s \in Slots |-> None] /\ free' = 0
  /\ UNCHANGED <<proxyVars, replies, ctl, term, helperVars>>

\* shutdown reaches the copies in forked processes too, close would not.
HangUp ==
  /\ app' = "stopping"
  /\ shut' = TRUE
  /\ holds' = [c \in Calls |-> FALSE]
  /\ UNCHANGED <<starts, frozen, ready, launcher, queue, slots, free,
                 proxy, request, replies, ctl, term, helperVars>>

Started ==
  /\ app = "starting"
  /\ ready = "ok"
  /\ app' = "on"
  /\ UNCHANGED <<starts, frozen, ready, launchVars, proxyVars, replies, ctl, term, helperVars>>

\* An error, or the end of a launcher that wrote nothing, stops it.
StartFails ==
  /\ app = "starting"
  /\ ready = "bad" \/ (ready = "none" /\ launcher = "exited")
  /\ HangUp

Stop ==
  /\ app = "on"
  /\ HangUp

Stopped ==
  /\ app = "stopping"
  /\ launcher = "exited"
  /\ app' = "off" /\ launcher' = "none"
  /\ UNCHANGED <<starts, frozen, ready, shut, queue, slots, free, proxyVars, replies, ctl, term, helperVars>>

\* The application is killed: its descriptors close, nothing is shut down.
AppDies ==
  /\ app \in {"starting", "on", "stopping"}
  /\ app' = "dead"
  /\ UNCHANGED <<starts, frozen, ready, launchVars, proxyVars, replies, ctl, term, helperVars>>

-----------------------------------------------------------------------------
(* A call: the child the application forks runs wn_helper_execve.          *)

Call(c) ==
  /\ app = "on"
  /\ proxy[c] = "idle"
  /\ proxy' = [proxy EXCEPT ![c] = "forked"]
  /\ holds' = [holds EXCEPT ![c] = TRUE]
  /\ UNCHANGED <<appVars, launchVars, request, replies, ctl, term, helperVars>>

SendChannel(c) ==
  /\ proxy[c] = "forked"
  /\ queue' = IF holds[c] THEN Append(queue, c) ELSE queue
  /\ proxy' = [proxy EXCEPT ![c] = IF holds[c] THEN "writing" ELSE "failed"]
  /\ UNCHANGED <<appVars, shut, launcher, slots, free, holds, request, replies, ctl, term, helperVars>>

WriteRequest(c) ==
  /\ proxy[c] = "writing"
  /\ IF Dropped(c)
     THEN proxy' = [proxy EXCEPT ![c] = "failed"] /\ UNCHANGED request
     ELSE /\ proxy' = [proxy EXCEPT ![c] = "asking"]
          /\ \E r \in Requests : request' = [request EXCEPT ![c] = r]
  /\ UNCHANGED <<appVars, launchVars, holds, replies, ctl, term, helperVars>>

\* Only the reply that acknowledges the exec closes the caller's error pipe.
ReadAnswer(c) ==
  /\ proxy[c] = "asking"
  /\ \/ /\ replies[c] # <<>>
        /\ proxy' = [proxy EXCEPT ![c] = IF Head(replies[c]) = "started" THEN "running" ELSE "failed"]
        /\ replies' = [replies EXCEPT ![c] = Tail(@)]
     \/ /\ replies[c] = <<>> /\ Dropped(c)
        /\ proxy' = [proxy EXCEPT ![c] = "failed"]
        /\ UNCHANGED replies
  /\ UNCHANGED <<appVars, launchVars, holds, request, ctl, term, helperVars>>

ReadStatus(c) ==
  /\ proxy[c] = "running"
  /\ \/ /\ replies[c] # <<>>
        /\ proxy' = [proxy EXCEPT ![c] = "ended"]
        /\ replies' = [replies EXCEPT ![c] = Tail(@)]
     \/ /\ replies[c] = <<>> /\ Dropped(c)
        /\ proxy' = [proxy EXCEPT ![c] = "lost"]
        /\ UNCHANGED replies
  /\ UNCHANGED <<appVars, launchVars, holds, request, ctl, term, helperVars>>

\* The application cancels a call by killing the process it started.
Cancel(c) ==
  /\ proxy[c] \in {"forked", "writing", "asking", "running"}
  /\ proxy' = [proxy EXCEPT ![c] = "killed"]
  /\ UNCHANGED <<appVars, launchVars, holds, request, replies, ctl, term, helperVars>>

-----------------------------------------------------------------------------
(* The launcher.                                                           *)

Boots ==
  /\ launcher = "booting"
  /\ \/ app = "starting" /\ launcher' = "scanning" /\ ready' = "ok"
     \/ launcher' = "exited" /\ ready' \in {"none", "bad"}
  /\ UNCHANGED <<app, starts, frozen, shut, queue, slots, free, proxyVars, replies, ctl, term, helperVars>>

\* Finished controllers are collected and the first free slot is remembered:
\* a controller that ends later frees its slot only at the next scan.
Scan ==
  /\ launcher = "scanning"
  /\ slots' = [s \in Slots |-> IF slots[s] # None /\ ctl[slots[s]] = "gone" THEN None ELSE slots[s]]
  /\ free' \in 0..JobCount
  /\ IF \E s \in Slots : slots'[s] = None
     THEN free' > 0 /\ slots'[free'] = None /\ \A s \in 1..(free' - 1) : slots'[s] # None
     ELSE free' = 0
  /\ launcher' = "polling"
  /\ UNCHANGED <<appVars, shut, queue, proxyVars, replies, ctl, term, helperVars>>

\* SIGCHLD of a controller ends the wait.
Woken ==
  /\ launcher = "polling"
  /\ \E s \in Slots : slots[s] # None /\ ctl[slots[s]] = "gone"
  /\ launcher' = "scanning"
  /\ UNCHANGED <<appVars, shut, queue, slots, free, proxyVars, replies, ctl, term, helperVars>>

AcceptAnyway ==  \* mutant: a request is served although no slot is free
  /\ launcher = "polling"
  /\ queue # <<>>
  /\ LET c == Head(queue)
     IN \/ /\ slots' = [s \in Slots |-> IF s = free THEN c ELSE slots[s]]
           /\ ctl' = [ctl EXCEPT ![c] = "reading"]
        \/ UNCHANGED <<slots, ctl>>
  /\ queue' = Tail(queue)
  /\ launcher' = "scanning"
  /\ UNCHANGED <<appVars, shut, free, proxyVars, replies, term, helperVars>>
\* Without a free slot, or when fork fails, the channel is just closed.
Accept ==
  /\ launcher = "polling"
  /\ queue # <<>>
  /\ LET c == Head(queue)
     IN \/ /\ free # 0
           /\ slots' = [slots EXCEPT ![free] = c]
           /\ ctl' = [ctl EXCEPT ![c] = "reading"]
        \/ UNCHANGED <<slots, ctl>>
  /\ queue' = Tail(queue)
  /\ launcher' = "scanning"
  /\ UNCHANGED <<appVars, shut, free, proxyVars, replies, term, helperVars>>

EndOfCallsShut == queue = <<>> /\ shut  \* mutant: a closed socket is taken for an empty one
EndOfCalls == queue = <<>> /\ (shut \/ Holders = {})

Terminate ==
  /\ launcher = "polling"
  /\ EndOfCalls
  /\ term' = [c \in Calls |-> term[c] \/ \E s \in Slots : slots[s] = c]
  /\ launcher' = "terminating"
  /\ UNCHANGED <<appVars, shut, queue, slots, free, proxyVars, replies, ctl, helperVars>>

LauncherExitsAtOnce ==  \* mutant: controllers are told to end, but not waited for
  /\ launcher = "terminating"
  /\ launcher' = "exited"
  /\ UNCHANGED <<appVars, shut, queue, slots, free, proxyVars, replies, ctl, term, helperVars>>
LauncherExits ==
  /\ launcher = "terminating"
  /\ \A s \in Slots : slots[s] # None => ctl[slots[s]] = "gone"
  /\ launcher' = "exited"
  /\ UNCHANGED <<appVars, shut, queue, slots, free, proxyVars, replies, ctl, term, helperVars>>

-----------------------------------------------------------------------------
(* A controller: serve_request.                                            *)

\* The rules for each kind; the name must be one of the frozen helpers.
Admitted(r) ==
  /\ r.kind \in frozen
  /\ r.kind = "decoder" => r.args = 0
  /\ r.kind \in {"pdf", "font"} => r.args = 1
  /\ r.kind = "font" => r.stdin  \* --stdin, with a regular file as input

\* The controller ends; a reply reaches the proxy unless it hung up.
Leave(c, answer) ==
  /\ ctl' = [ctl EXCEPT ![c] = "gone"]
  /\ replies' = [replies EXCEPT ![c] = IF Hung(c) THEN @ ELSE @ \o answer]
  /\ UNCHANGED <<appVars, launchVars, proxyVars, term>>

\* kill_helper: the group and, should it not have one yet, the process itself.
KillHelper(c, end) ==
  /\ child' = [child EXCEPT ![c] = end]
  /\ spawned' = [spawned EXCEPT ![c] = FALSE]

ForkHelper(c) ==
  /\ ctl[c] = "reading"
  /\ request[c] # None /\ Admitted(request[c])
  /\ ctl' = [ctl EXCEPT ![c] = "handshake"]
  /\ child' = [child EXCEPT ![c] = "forked"]
  /\ UNCHANGED <<appVars, launchVars, proxyVars, replies, term, spawned>>

\* A refused request, a pipe or a fork that fails.
Refuse(c) ==
  /\ ctl[c] = "reading"
  /\ request[c] # None
  /\ Leave(c, <<"error">>)
  /\ UNCHANGED helperVars

\* No request within REQUEST_MS, or a proxy that was killed before it wrote one.
GiveUp(c) ==
  /\ ctl[c] = "reading"
  /\ Leave(c, <<>>)
  /\ UNCHANGED helperVars

AcknowledgeFork(c) ==  \* mutant: a fork is acknowledged like an exec
  /\ ctl[c] = "handshake"
  /\ child[c] \in {"forked", "session", "running", "exited"} /\ ~Hung(c)
  /\ ctl' = [ctl EXCEPT ![c] = "waiting"]
  /\ replies' = [replies EXCEPT ![c] = Append(@, "started")]
  /\ UNCHANGED <<appVars, launchVars, proxyVars, term, helperVars>>
\* The error pipe closed on exec: only now is the call acknowledged.
Acknowledge(c) ==
  /\ ctl[c] = "handshake"
  /\ child[c] \in {"running", "exited"} /\ ~Hung(c)
  /\ ctl' = [ctl EXCEPT ![c] = "waiting"]
  /\ replies' = [replies EXCEPT ![c] = Append(@, "started")]
  /\ UNCHANGED <<appVars, launchVars, proxyVars, term, helperVars>>

ReportFailure(c) ==
  /\ ctl[c] = "handshake"
  /\ child[c] = "failed"
  /\ KillHelper(c, "gone")
  /\ Leave(c, <<"error">>)

\* The proxy hung up, or the deadline passed: a late reply is not sent.
Abandon(c) ==
  /\ ctl[c] = "handshake"
  /\ KillHelper(c, "gone")
  /\ Leave(c, <<>>)

\* The helper ended by itself; its group must not survive it.
Collect(c) ==
  /\ ctl[c] = "waiting"
  /\ child[c] = "exited"
  /\ KillHelper(c, "collected")
  /\ Leave(c, <<"ended">>)

Revoke(c) ==
  /\ ctl[c] = "waiting"
  /\ Hung(c) \/ term[c]
  /\ KillHelper(c, "gone")
  /\ Leave(c, <<>>)

-----------------------------------------------------------------------------
(* The helper: execute_helper, then the program itself.                    *)

OpenSession(c) ==
  /\ child[c] = "forked"
  /\ child' \in {[child EXCEPT ![c] = s] : s \in {"session", "failed"}}
  /\ UNCHANGED <<appVars, launchVars, proxyVars, replies, ctl, term, spawned>>

Execute(c) ==
  /\ child[c] = "session"
  /\ child' \in {[child EXCEPT ![c] = s] : s \in {"running", "failed"}}
  /\ UNCHANGED <<appVars, launchVars, proxyVars, replies, ctl, term, spawned>>

SpawnChild(c) ==
  /\ child[c] = "running" /\ ~spawned[c]
  /\ spawned' = [spawned EXCEPT ![c] = TRUE]
  /\ UNCHANGED <<appVars, launchVars, proxyVars, replies, ctl, term, child>>

HelperExits(c) ==
  /\ child[c] = "running"
  /\ child' = [child EXCEPT ![c] = "exited"]
  /\ UNCHANGED <<appVars, launchVars, proxyVars, replies, ctl, term, spawned>>

-----------------------------------------------------------------------------

Application == Start \/ Started \/ StartFails \/ Stop \/ Stopped \/ AppDies
Launcher == Boots \/ Scan \/ Woken \/ Accept \/ Terminate \/ LauncherExits
Proxy(c) == Call(c) \/ SendChannel(c) \/ WriteRequest(c) \/ ReadAnswer(c) \/ ReadStatus(c) \/ Cancel(c)
Controller(c) ==
  \/ ForkHelper(c) \/ Refuse(c) \/ GiveUp(c)
  \/ Acknowledge(c) \/ ReportFailure(c) \/ Abandon(c)
  \/ Collect(c) \/ Revoke(c)
Helper(c) == OpenSession(c) \/ Execute(c) \/ SpawnChild(c) \/ HelperExits(c)

Next ==
  \/ Application
  \/ Launcher
  \/ \E c \in Calls : Proxy(c) \/ Controller(c) \/ Helper(c)

Spec == Init /\ [][Next]_vars

\* The launcher and the controllers run; each wait of a controller has a deadline
\* or ends with a signal.  No fairness for the helper (it may run for ever), for a
\* forked child that never reaches execve, nor for the user's stop.
FairSpec ==
  /\ Spec
  /\ WF_vars(Started) /\ WF_vars(StartFails) /\ WF_vars(Stopped)
  /\ WF_vars(Launcher)
  /\ \A c \in Calls : /\ WF_vars(Controller(c))
                      /\ WF_vars(WriteRequest(c)) /\ WF_vars(ReadAnswer(c)) /\ WF_vars(ReadStatus(c))

-----------------------------------------------------------------------------

TypeOK ==
  /\ app \in {"off", "starting", "on", "stopping", "dead"}
  /\ starts \in Nat
  /\ frozen \subseteq Kinds
  /\ ready \in {"none", "ok", "bad"}
  /\ shut \in BOOLEAN
  /\ launcher \in {"none", "booting", "scanning", "polling", "terminating", "exited"}
  /\ queue \in Seq(Calls)
  /\ slots \in [Slots -> Calls \cup {None}]
  /\ free \in 0..JobCount
  /\ proxy \in [Calls -> ProxyStates]
  /\ holds \in [Calls -> BOOLEAN]
  /\ request \in [Calls -> Requests \cup {None}]
  /\ replies \in [Calls -> Seq({"error", "started", "ended"})]
  /\ ctl \in [Calls -> {"none", "reading", "handshake", "waiting", "gone"}]
  /\ term \in [Calls -> BOOLEAN]
  /\ child \in [Calls -> HelperStates]
  /\ spawned \in [Calls -> BOOLEAN]

-----------------------------------------------------------------------------

Running(c) == child[c] \in {"forked", "session", "running"} \/ spawned[c]

\* wn_helpers_stop returns only when nothing the launcher started is left: no
\* controller, no helper, and no process a helper left in its group.
StopLeavesNothing == app = "off" => \A c \in Calls : ~Live(c) /\ ~Running(c)

\* Every helper has a controller that watches it, and every controller a slot of
\* its own, so that a hangup and a stop reach them all.
EveryHelperIsWatched ==
  \A c \in Calls :
    /\ Running(c) => Live(c)
    /\ Live(c) => \E s \in Slots : slots[s] = c /\ \A q \in Slots \ {s} : slots[q] # c

\* Nothing runs unwatched, see EveryHelperIsWatched, in states of the right shape.
Inv == TypeOK /\ EveryHelperIsWatched

\* A call is an execve: see HelperExec.
helper ==
  [c \in Calls |->
     IF child[c] = "running" THEN "alive"
     ELSE IF child[c] = "exited" THEN "ended"
     ELSE IF child[c] = "collected" THEN "collected"
     ELSE IF child[c] = "gone" \/ ctl[c] = "gone" \/ proxy[c] = "failed" THEN "gone"
     ELSE "none"]

call == [c \in Calls |-> IF proxy[c] \in {"forked", "writing", "asking"} THEN "asked" ELSE proxy[c]]

Exec == INSTANCE HelperExec

\* The proxy, the launcher and the controller together behave like one execve: the
\* caller's error pipe closes only on a real exec, a failed call leaves no helper
\* behind, and the helper's own status is passed on only after its group is gone.
ImplementsExec == Exec!Spec

\* A stop ends, however long helpers run and whoever holds a copy of the socket.
StopEnds == app = "stopping" ~> app # "stopping"

\* When the application dies the launcher notices as soon as no proxy between fork
\* and exec holds its socket, and takes every helper with it.
DeathEnds ==
  app = "dead" /\ (\A c \in Calls : proxy[c] # "forked") ~>
    launcher \in {"none", "exited"} /\ \A c \in Calls : ~Live(c) /\ ~Running(c)

\* A caller that kills its process kills the helper, wherever the request was.
CancelReaches == \A c \in Calls : proxy[c] = "killed" ~> [](~Running(c))

\* Whatever ends a helper's use ends the helper: a stop, the death of the application,
\* the cancelling of the call.
HelpersEnd == StopEnds /\ DeathEnds /\ CancelReaches
=============================================================================
