----------------------------- MODULE ToolBroker -----------------------------
(***************************************************************************)
(* The broker of confined desktop tools (tool_broker.c): curl, notify-send *)
(* and the file dialogs.  A thread of the application sends the broker a   *)
(* private channel and a request; the broker forks a server per request,   *)
(* which runs the tool, gathers its output and answers.  Dialogs run on a  *)
(* thread of their own and end in one callback.                            *)
(***************************************************************************)
EXTENDS Naturals, Sequences

CONSTANTS
  Calls,  \* uses of a tool, each made once
  Kinds,  \* what each of them may use: "curl", "notify" or "dialog"
  Forks,  \* the calls whose tool may leave a process behind
  Output, \* how much each tool may write
  Limit,  \* OUTPUT_LIMIT, in units of output
  None    \* no dialog thread

ASSUME NoneIsNew == None \notin Calls
ASSUME LimitTyped == Limit \in Nat
ASSUME ForksTyped == Forks \subseteq Calls
ASSUME OutputTyped == Output \in [Calls -> Nat]
ASSUME KindsTyped == Kinds \in [Calls -> SUBSET {"curl", "notify", "dialog"}]

VARIABLES
  app,        \* "off", "starting", "on", "closed", "killed", "stopped", or "dead"
  ready,      \* the broker's answer to the start: "none", "ok" or "bad"
  broker,     \* "none", "booting", "serving" or "gone"
  queue,      \* channels in the broker's socket, oldest first
  kind,       \* what each call uses: "none" yet, "curl", "notify" or "dialog"
  caller,     \* the thread that uses the tool, see CallerStates
  answer,     \* what it got, None until then
  asked,      \* its request is in the channel
  server,     \* "none", "reading", "watching", "answering", "sending", "gone"
  response,   \* the answer of the server, None until it has one
  header,     \* the response is in the channel
  body,       \* the output is in the channel
  tool,       \* "none", "running", "zero", "other" (how it ended) or "killed"
  heirs,      \* a process left by the tool holds its output open
  produced,   \* output written by the tool
  taken,      \* output read by the server
  busy,       \* dialog_running
  joinable,   \* the dialog thread to join, None for none
  callbacks   \* how often each dialog called back

vars == <<app, ready, broker, queue, kind, caller, answer, asked, server, response, header, body,
          tool, heirs, produced, taken, busy, joinable, callbacks>>

appVars == <<app, ready, broker, queue>>
callVars == <<kind, caller, answer, asked>>
serverVars == <<server, response, header, body>>
toolVars == <<tool, heirs, produced, taken>>
dialogVars == <<busy, joinable, callbacks>>

CallerStates == {"idle", "opening", "writing", "waiting", "reading", "calling", "returned", "finished"}
Endings == {"zero", "other"}
Statuses == Endings \cup {"killed"}

Init ==
  /\ app = "off" /\ ready = "none" /\ broker = "none" /\ queue = <<>>
  /\ kind = [c \in Calls |-> "none"] /\ caller = [c \in Calls |-> "idle"] /\ answer = [c \in Calls |-> None]
  /\ asked = [c \in Calls |-> FALSE]
  /\ server = [c \in Calls |-> "none"] /\ response = [c \in Calls |-> None]
  /\ header = [c \in Calls |-> FALSE] /\ body = [c \in Calls |-> FALSE]
  /\ tool = [c \in Calls |-> "none"] /\ heirs = [c \in Calls |-> FALSE]
  /\ produced = [c \in Calls |-> 0] /\ taken = [c \in Calls |-> 0]
  /\ busy = FALSE /\ joinable = None
  /\ callbacks = [c \in Calls |-> 0]

\* An error and no output: EIO of the transport, or the error of the server.
Failure == [failed |-> TRUE, status |-> "other", size |-> 0]

Serving(c) == server[c] \in {"reading", "watching", "answering", "sending"}

\* Nobody holds the other end of the caller's channel.
Dropped(c) == (\A i \in 1..Len(queue) : queue[i] # c) /\ ~Serving(c)

\* The caller has closed its end, or is gone with the application.
Hung(c) == app = "dead" \/ caller[c] \in {"calling", "returned", "finished"}

-----------------------------------------------------------------------------
(* Start and stop, on the main thread.                                     *)

Start ==
  /\ app = "off"
  /\ app' = "starting" /\ broker' = "booting" /\ ready' = "none"
  /\ UNCHANGED <<queue, callVars, serverVars, toolVars, dialogVars>>

\* Environment, confinement, and the answer.
Boots ==
  /\ broker = "booting"
  /\ \/ app = "starting" /\ broker' = "serving" /\ ready' = "ok"
     \/ broker' = "gone" /\ ready' \in {"none", "bad"}
  /\ UNCHANGED <<app, queue, callVars, serverVars, toolVars, dialogVars>>

Started ==
  /\ app = "starting"
  /\ ready = "ok"
  /\ app' = "on"
  /\ UNCHANGED <<ready, broker, queue, callVars, serverVars, toolVars, dialogVars>>

StartFails ==
  /\ app = "starting"
  /\ ready = "bad" \/ (ready = "none" /\ broker = "gone")
  /\ app' = "closed"
  /\ UNCHANGED <<ready, broker, queue, callVars, serverVars, toolVars, dialogVars>>

\* From here on every open_request finds broker_fd closed.
Stop ==
  /\ app = "on"
  /\ app' = "closed"
  /\ UNCHANGED <<ready, broker, queue, callVars, serverVars, toolVars, dialogVars>>

\* SIGTERM to the broker's group: its servers and their tools are in it too.
Killed ==
  /\ broker' = "gone"
  /\ queue' = <<>>
  /\ server' = [c \in Calls |-> IF Serving(c) THEN "gone" ELSE server[c]]
  /\ tool' = [c \in Calls |-> IF tool[c] = "running" THEN "killed" ELSE tool[c]]
  /\ heirs' = [c \in Calls |-> FALSE]
  /\ UNCHANGED <<ready, callVars, response, header, body, produced, taken, dialogVars>>

KillGroup ==
  /\ app = "closed"
  /\ app' = "killed"
  /\ Killed

LeaveDialog ==  \* mutant: a dialog that is still running is not joined
  /\ app = "killed"
  /\ app' = "stopped"
  /\ joinable' = None
  /\ UNCHANGED <<ready, broker, queue, callVars, serverVars, toolVars, busy, callbacks>>
JoinDialog ==
  /\ app = "killed"
  /\ joinable # None => caller[joinable] = "finished"
  /\ app' = "stopped"
  /\ joinable' = None
  /\ UNCHANGED <<ready, broker, queue, callVars, serverVars, toolVars, busy, callbacks>>

\* The threads and what they know are gone, the broker and its servers are not.
AppDies ==
  /\ app \in {"starting", "on", "closed", "killed"}
  /\ app' = "dead"
  /\ caller' = [c \in Calls |-> "idle"] /\ answer' = [c \in Calls |-> None]
  /\ busy' = FALSE /\ joinable' = None
  /\ UNCHANGED <<ready, broker, queue, kind, asked, serverVars, toolVars, callbacks>>

-----------------------------------------------------------------------------
(* The caller: open_request, then wn_tools_run or a submitted notification. *)

\* A use made later finds broker_fd closed, as one made just before the stop does.
Use(c) ==
  /\ app = "on" /\ caller[c] = "idle"
  /\ \E k \in Kinds[c] \ {"dialog"} : kind' = [kind EXCEPT ![c] = k]
  /\ caller' = [caller EXCEPT ![c] = "opening"]
  /\ UNCHANGED <<appVars, answer, asked, serverVars, toolVars, dialogVars>>

\* What a call returns with: dialogs go on to their callback.
Returns(c, a) ==
  /\ answer' = [answer EXCEPT ![c] = a]
  /\ caller' = [caller EXCEPT ![c] = IF kind[c] = "dialog" THEN "calling" ELSE "returned"]

\* Under the lock of broker_fd, so not across the stop.
SendChannel(c) ==
  /\ app # "dead" /\ caller[c] = "opening"
  /\ \/ /\ app = "on" /\ broker = "serving"
        /\ queue' = Append(queue, c)
        /\ caller' = [caller EXCEPT ![c] = "writing"]
        /\ UNCHANGED answer
     \/ /\ app # "on" \/ broker = "gone"
        /\ Returns(c, Failure)
        /\ UNCHANGED queue
  /\ UNCHANGED <<app, ready, broker, kind, asked, serverVars, toolVars, dialogVars>>

WriteRequest(c) ==
  /\ app # "dead" /\ caller[c] = "writing"
  /\ IF Dropped(c)
     THEN Returns(c, Failure) /\ UNCHANGED asked
     ELSE /\ asked' = [asked EXCEPT ![c] = TRUE]
          /\ caller' = [caller EXCEPT ![c] = IF kind[c] = "notify" THEN "returned" ELSE "waiting"]
          /\ UNCHANGED answer
  /\ UNCHANGED <<appVars, kind, serverVars, toolVars, dialogVars>>

ReadHeaderBlocks(c) ==  \* mutant: the end of the channel is not noticed
  /\ app # "dead" /\ caller[c] = "waiting"
  /\ header[c] /\ caller' = [caller EXCEPT ![c] = "reading"]
  /\ UNCHANGED <<appVars, kind, answer, asked, serverVars, toolVars, dialogVars>>
ReadHeader(c) ==
  /\ app # "dead" /\ caller[c] = "waiting"
  /\ \/ header[c] /\ caller' = [caller EXCEPT ![c] = "reading"] /\ UNCHANGED answer
     \/ ~header[c] /\ Dropped(c) /\ Returns(c, Failure)
  /\ UNCHANGED <<appVars, kind, asked, serverVars, toolVars, dialogVars>>

\* The output counts only when all of it arrived and the server saw no error.
ReadBody(c) ==
  /\ app # "dead" /\ caller[c] = "reading"
  /\ \/ body[c] \/ response[c].size = 0
     \/ Dropped(c)
  /\ Returns(c, IF (body[c] \/ response[c].size = 0) /\ ~response[c].failed THEN response[c] ELSE Failure)
  /\ UNCHANGED <<appVars, kind, asked, serverVars, toolVars, dialogVars>>

-----------------------------------------------------------------------------
(* Dialogs: wn_tools_dialog on the main thread, dialog_worker on its own.  *)

\* A refused dialog is answered by its caller: one picker at a time, no memory, no
\* thread.
RefuseDialog(c) ==
  /\ app = "on" /\ caller[c] = "idle" /\ "dialog" \in Kinds[c]
  /\ kind' = [kind EXCEPT ![c] = "dialog"]
  /\ caller' = [caller EXCEPT ![c] = "finished"]
  /\ callbacks' = [callbacks EXCEPT ![c] = @ + 1]
  /\ joinable' = IF busy THEN joinable ELSE None
  /\ UNCHANGED <<appVars, answer, asked, serverVars, toolVars, busy>>

\* The last worker cleared dialog_running, so joining it does not wait for a dialog.
OpenDialog(c) ==
  /\ app = "on" /\ caller[c] = "idle" /\ "dialog" \in Kinds[c]
  /\ kind' = [kind EXCEPT ![c] = "dialog"]
  /\ ~busy
  /\ busy' = TRUE
  /\ joinable' = c
  /\ caller' = [caller EXCEPT ![c] = "opening"]
  /\ UNCHANGED <<appVars, answer, asked, serverVars, toolVars, callbacks>>

CallBack(c) ==
  /\ app # "dead" /\ caller[c] = "calling"
  /\ callbacks' = [callbacks EXCEPT ![c] = @ + 1]
  /\ caller' = [caller EXCEPT ![c] = "returned"]
  /\ UNCHANGED <<appVars, kind, answer, asked, serverVars, toolVars, busy, joinable>>

EndDialog(c) ==
  /\ app # "dead" /\ kind[c] = "dialog" /\ caller[c] = "returned"
  /\ busy' = FALSE
  /\ caller' = [caller EXCEPT ![c] = "finished"]
  /\ UNCHANGED <<appVars, kind, answer, asked, serverVars, toolVars, joinable, callbacks>>

-----------------------------------------------------------------------------
(* The broker and its servers.                                             *)

\* When fork fails the channel is just closed.
Accept ==
  /\ broker = "serving"
  /\ queue # <<>>
  /\ server' \in {server, [server EXCEPT ![Head(queue)] = "reading"]}
  /\ queue' = Tail(queue)
  /\ UNCHANGED <<app, ready, broker, callVars, response, header, body, toolVars, dialogVars>>

BrokerEnds ==
  /\ broker = "serving"
  /\ queue = <<>> /\ app \in {"closed", "dead"}
  /\ broker' = "gone"
  /\ UNCHANGED <<app, ready, queue, callVars, serverVars, toolVars, dialogVars>>

Respond(c, r) ==
  /\ response' = [response EXCEPT ![c] = r]
  /\ server' = [server EXCEPT ![c] = "answering"]

\* An invalid request, a missing tool, no pipes or no process for it.
Refuse(c) ==
  /\ server[c] = "reading"
  /\ asked[c] \/ Hung(c)
  /\ Respond(c, Failure)
  /\ UNCHANGED <<appVars, callVars, header, body, toolVars, dialogVars>>

RunTool(c) ==
  /\ server[c] = "reading"
  /\ asked[c]
  /\ server' = [server EXCEPT ![c] = "watching"]
  /\ tool' = [tool EXCEPT ![c] = "running"]
  /\ UNCHANGED <<appVars, callVars, response, header, body, heirs, produced, taken, dialogVars>>

\* One unit beyond the limit is read only to notice it.
Take(c) ==
  /\ server[c] = "watching"
  /\ taken[c] < produced[c]
  /\ IF taken[c] < Limit
     THEN taken' = [taken EXCEPT ![c] = @ + 1] /\ UNCHANGED <<serverVars, tool>>
     ELSE /\ tool' = [tool EXCEPT ![c] = IF @ = "running" THEN "killed" ELSE @]
          /\ Respond(c, [failed |-> TRUE, status |-> tool'[c], size |-> taken[c]])
          /\ UNCHANGED <<taken, header, body>>
  /\ UNCHANGED <<appVars, callVars, heirs, produced, dialogVars>>

CollectTool(c) ==  \* mutant: the exit of the tool ends the answer, not the end of its pipes
  /\ server[c] = "watching"
  /\ tool[c] # "running"
  /\ Respond(c, [failed |-> FALSE, status |-> tool[c], size |-> taken[c]])
  /\ UNCHANGED <<appVars, callVars, header, body, toolVars, dialogVars>>
\* Both pipes are at their end, and the tool is collected.
Collect(c) ==
  /\ server[c] = "watching"
  /\ taken[c] = produced[c]
  /\ tool[c] # "running" /\ ~heirs[c]
  /\ Respond(c, [failed |-> FALSE, status |-> tool[c], size |-> taken[c]])
  /\ UNCHANGED <<appVars, callVars, header, body, toolVars, dialogVars>>

\* The wait for output is longer than the tool's alarm: only a process that the tool
\* left behind can make it expire.
WaitExpires(c) ==
  /\ server[c] = "watching"
  /\ tool[c] # "running" /\ heirs[c]
  /\ Respond(c, [failed |-> TRUE, status |-> tool[c], size |-> taken[c]])
  /\ UNCHANGED <<appVars, callVars, header, body, toolVars, dialogVars>>

\* Writing to a caller that left fails and is ignored.
SendHeader(c) ==
  /\ server[c] = "answering"
  /\ header' = [header EXCEPT ![c] = ~Hung(c)]
  /\ server' = [server EXCEPT ![c] = IF Hung(c) THEN "gone" ELSE "sending"]
  /\ UNCHANGED <<appVars, callVars, response, body, toolVars, dialogVars>>

SendBody(c) ==
  /\ server[c] = "sending"
  /\ body' = [body EXCEPT ![c] = ~Hung(c)]
  /\ server' = [server EXCEPT ![c] = "gone"]
  /\ UNCHANGED <<appVars, callVars, response, header, toolVars, dialogVars>>

\* alarm(610), later than the alarm of any tool.
ServerAlarm(c) ==
  /\ Serving(c)
  /\ tool[c] # "running"
  /\ server' = [server EXCEPT ![c] = "gone"]
  /\ UNCHANGED <<appVars, callVars, response, header, body, toolVars, dialogVars>>

-----------------------------------------------------------------------------
(* The tool.                                                               *)

Write(c) ==
  /\ tool[c] = "running"
  /\ produced[c] < Output[c]
  /\ produced' = [produced EXCEPT ![c] = @ + 1]
  /\ UNCHANGED <<appVars, callVars, serverVars, tool, heirs, taken, dialogVars>>

Exit(c) ==
  /\ tool[c] = "running"
  /\ \E s \in Endings : tool' = [tool EXCEPT ![c] = s]
  /\ heirs' \in {heirs, [heirs EXCEPT ![c] = c \in Forks]}
  /\ UNCHANGED <<appVars, callVars, serverVars, produced, taken, dialogVars>>

HeirExits(c) ==
  /\ heirs[c]
  /\ heirs' = [heirs EXCEPT ![c] = FALSE]
  /\ UNCHANGED <<appVars, callVars, serverVars, tool, produced, taken, dialogVars>>

\* alarm(60) for curl and notifications, alarm(600) for dialogs.
ToolAlarm(c) ==
  /\ tool[c] = "running"
  /\ tool' = [tool EXCEPT ![c] = "killed"]
  /\ UNCHANGED <<appVars, callVars, serverVars, heirs, produced, taken, dialogVars>>

-----------------------------------------------------------------------------

Main == Start \/ Started \/ StartFails \/ Stop \/ KillGroup \/ JoinDialog \/ AppDies
Broker == Boots \/ Accept \/ BrokerEnds
Caller(c) == SendChannel(c) \/ WriteRequest(c) \/ ReadHeader(c) \/ ReadBody(c)
Dialog(c) == CallBack(c) \/ EndDialog(c)
User(c) == Use(c) \/ RefuseDialog(c) \/ OpenDialog(c)
Server(c) ==
  \/ Refuse(c) \/ RunTool(c) \/ Take(c) \/ Collect(c)
  \/ WaitExpires(c) \/ SendHeader(c) \/ SendBody(c) \/ ServerAlarm(c)
Tool(c) == Write(c) \/ Exit(c) \/ HeirExits(c) \/ ToolAlarm(c)

Next == Main \/ Broker \/ \E c \in Calls : User(c) \/ Caller(c) \/ Dialog(c) \/ Server(c) \/ Tool(c)

Spec == Init /\ [][Next]_vars

\* Every process and thread runs; tools end by their alarm at the latest, servers by
\* theirs, the main thread once it stops.  What a tool leaves behind may stay.
FairSpec ==
  /\ Spec
  /\ WF_vars(Started) /\ WF_vars(StartFails) /\ WF_vars(KillGroup) /\ WF_vars(JoinDialog)
  /\ WF_vars(Broker)
  /\ \A c \in Calls : /\ WF_vars(Caller(c)) /\ WF_vars(Dialog(c))
                      /\ WF_vars(Server(c)) /\ WF_vars(ServerAlarm(c)) /\ WF_vars(ToolAlarm(c))

-----------------------------------------------------------------------------

Response == [failed : BOOLEAN, status : Statuses, size : 0..Limit]

TypeOK ==
  /\ app \in {"off", "starting", "on", "closed", "killed", "stopped", "dead"}
  /\ ready \in {"none", "ok", "bad"}
  /\ broker \in {"none", "booting", "serving", "gone"}
  /\ queue \in Seq(Calls)
  /\ kind \in [Calls -> {"none", "curl", "notify", "dialog"}]
  /\ caller \in [Calls -> CallerStates]
  /\ answer \in [Calls -> {None} \cup Response]
  /\ asked \in [Calls -> BOOLEAN]
  /\ server \in [Calls -> {"none", "reading", "watching", "answering", "sending", "gone"}]
  /\ response \in [Calls -> {None} \cup Response]
  /\ header \in [Calls -> BOOLEAN] /\ body \in [Calls -> BOOLEAN]
  /\ tool \in [Calls -> Statuses \cup {"none", "running"}]
  /\ heirs \in [Calls -> BOOLEAN]
  /\ produced \in [Calls -> Nat] /\ (\A c \in Calls : produced[c] <= Output[c])
  /\ taken \in [Calls -> 0..Limit]
  /\ busy \in BOOLEAN
  /\ joinable \in Calls \cup {None}
  /\ callbacks \in [Calls -> Nat]

\* wn_tools_run returns no error only with everything the tool and its heirs wrote,
\* and with the way the tool really ended, whatever was killed or cut off meanwhile.
ResultIsWhole ==
  \A c \in Calls :
    answer[c] # None /\ ~answer[c].failed =>
      answer[c].size = produced[c] /\ answer[c].status = tool[c] /\ ~heirs[c]

\* One file dialog at a time, from its thread to its process.
Picking(c) == kind[c] = "dialog" /\ (caller[c] \in CallerStates \ {"idle", "finished"} \/ tool[c] = "running")
OneDialog == app # "dead" => \A c, d \in Calls : Picking(c) /\ Picking(d) => c = d

\* After wn_tools_stop no broker, server, tool or dialog thread is left, and no
\* dialog calls back into a window that is being destroyed.
StopLeavesNothing ==
  app = "stopped" =>
    /\ broker \notin {"booting", "serving"}
    /\ joinable = None /\ ~busy
    /\ \A c \in Calls : ~Serving(c) /\ ~Picking(c) /\ tool[c] # "running"

\* Nobody calls back twice for one dialog.
CallsBackOnce == \A c \in Calls : callbacks[c] <= 1

\* The dialogs and the stop: one dialog at a time, one callback each, nothing after the
\* stop, in states of the right shape.
Inv == TypeOK /\ OneDialog /\ CallsBackOnce /\ StopLeavesNothing

\* No thread hangs in wn_tools_run, although the tool may, and every dialog the user
\* asked for calls back, cancelled, failed or answered, unless the application dies.
CallsReturn ==
  \A c \in Calls :
    caller[c] = "opening" ~> \/ app = "dead"
                             \/ kind[c] = "dialog" /\ callbacks[c] = 1
                             \/ kind[c] # "dialog" /\ caller[c] = "returned"

\* The stop does not hang: what the broker killed ends the calls and the dialog that
\* wait for it.
StopEnds == app = "closed" ~> app \in {"stopped", "dead"}

\* Neither a tool nor a dialog keeps a thread: calls return and the stop ends.
ToolsEnd == CallsReturn /\ StopEnds
=============================================================================
