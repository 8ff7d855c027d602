-------------------------- MODULE ToolBroker_proofs --------------------------
(***************************************************************************)
(* Proofs about the broker of desktop tools: a result without an error is  *)
(* whole, there is one dialog at a time, each calls back at most once, and *)
(* after the stop nothing of the broker is left.                           *)
(***************************************************************************)
EXTENDS ToolBroker, TLAPS

Occurs(q, d) == \E i \in 1..Len(q) : q[i] = d
Distinct(q)  == \A i, j \in 1..Len(q) : q[i] = q[j] => i = j

Queued(c)   == Occurs(queue, c)
Answered(c) == server[c] \in {"answering", "sending"} \/ header[c]

\* How far a server is tells what its tool did; what it answered without an error is all
\* the tool wrote, and stays that.
ServerOK(c) ==
  /\ server[c] \in {"none", "reading"} => tool[c] = "none"
  /\ server[c] = "watching" => tool[c] # "none"
  /\ tool[c] = "running" => server[c] = "watching"
  /\ header[c] => server[c] \in {"sending", "gone"}
  /\ Answered(c) => /\ response[c] \in Response
                    /\ ~response[c].failed => /\ response[c].size = produced[c]
                                              /\ response[c].status = tool[c]
                                              /\ ~heirs[c]

\* A channel is sent once and served once; a caller reads only what was sent, and keeps it.
CallerOK(c) ==
  /\ app # "dead" /\ caller[c] \in {"idle", "opening"} => server[c] = "none" /\ ~Queued(c)
  /\ Queued(c) => server[c] = "none"
  /\ caller[c] = "reading" => header[c]
  /\ answer[c] # None /\ ~answer[c].failed => header[c] /\ response[c] = answer[c]

\* A dialog waits as long as its channel or its server may run the tool, and has not
\* called back before it returned.
WaitsOK(c) ==
  /\ app # "dead" /\ kind[c] = "dialog" =>
       (Queued(c) \/ server[c] \in {"reading", "watching", "answering"} => caller[c] \in {"writing", "waiting"})
  /\ callbacks[c] <= 1
  /\ app # "dead" /\ caller[c] \notin {"returned", "finished"} => callbacks[c] = 0

CallOK(c) == ServerOK(c) /\ CallerOK(c) /\ WaitsOK(c)
CallInv == \A c \in Calls : CallOK(c)

\* dialog_running and the thread to join name the one dialog there is.
Active(c) == kind[c] = "dialog" /\ caller[c] \in CallerStates \ {"idle", "finished"}
DialogInv ==
  app # "dead" => /\ \A c \in Calls : Active(c) => busy /\ joinable = c
                  /\ busy => joinable \in Calls /\ Active(joinable)
                  /\ app = "stopped" => joinable = None

\* Nothing is left of a broker that was killed.
BrokerInv ==
  /\ Distinct(queue)
  /\ app \in {"killed", "stopped"} => broker = "gone" /\ queue = <<>> /\ \A c \in Calls : ~Serving(c)

IInv == TypeOK /\ CallInv /\ DialogInv /\ BrokerInv

-----------------------------------------------------------------------------
(* Queues without repetition.                                              *)

LEMMA AppendDistinct ==
  ASSUME NEW S, NEW q \in Seq(S), NEW e \in S
  PROVE  /\ Append(q, e) \in Seq(S)
         /\ \A d : Occurs(Append(q, e), d) <=> (Occurs(q, d) \/ d = e)
         /\ Distinct(q) /\ ~Occurs(q, e) => Distinct(Append(q, e))
  <1>1. /\ Len(Append(q, e)) = Len(q) + 1 /\ Len(q) \in Nat
        /\ Append(q, e)[Len(q) + 1] = e
        /\ \A i \in 1..Len(q) : Append(q, e)[i] = q[i]
    OBVIOUS
  <1>2. \A d : Occurs(Append(q, e), d) <=> (Occurs(q, d) \/ d = e)
    BY <1>1 DEF Occurs
  <1>3. Distinct(q) /\ ~Occurs(q, e) => Distinct(Append(q, e))
    BY <1>1 DEF Occurs, Distinct
  <1> QED BY <1>2, <1>3

LEMMA TailDistinct ==
  ASSUME NEW S, NEW q \in Seq(S), q # <<>>, Distinct(q)
  PROVE  /\ Tail(q) \in Seq(S) /\ Head(q) \in S
         /\ Distinct(Tail(q))
         /\ Occurs(q, Head(q)) /\ ~Occurs(Tail(q), Head(q))
         /\ \A d : Occurs(Tail(q), d) => Occurs(q, d)
  <1>1. /\ Len(Tail(q)) = Len(q) - 1 /\ Head(q) = q[1] /\ Len(q) \in Nat \ {0}
        /\ \A i \in 1..Len(Tail(q)) : Tail(q)[i] = q[i + 1]
    OBVIOUS
  <1>2. \A d : Occurs(Tail(q), d) => Occurs(q, d) /\ d # Head(q)
    <2>1. SUFFICES ASSUME NEW d, NEW i \in 1..Len(Tail(q)), Tail(q)[i] = d
                   PROVE  Occurs(q, d) /\ d # Head(q)
      BY DEF Occurs
    <2>2. i + 1 \in 1..Len(q) /\ 1 \in 1..Len(q) /\ q[i + 1] = d /\ i + 1 # 1
      BY <1>1, <2>1
    <2> QED BY <1>1, <2>2 DEF Occurs, Distinct
  <1>3. Distinct(Tail(q))
    BY <1>1 DEF Distinct
  <1>4. Occurs(q, Head(q))
    BY <1>1 DEF Occurs
  <1> QED BY <1>2, <1>3, <1>4

-----------------------------------------------------------------------------
(* What the actors leave alone.                                            *)

LEMMA MainFrame ==
  ASSUME Main
  PROVE  /\ UNCHANGED <<kind, asked, response, header, body, produced, taken, callbacks>>
         /\ KillGroup \/ UNCHANGED <<queue, server, tool, heirs>>
         /\ AppDies \/ UNCHANGED <<caller, answer, busy>>
         /\ AppDies \/ JoinDialog \/ UNCHANGED joinable
  BY DEF Main, Start, Started, StartFails, Stop, KillGroup, Killed, JoinDialog, AppDies,
     callVars, serverVars, toolVars, dialogVars

LEMMA BrokerFrame ==
  ASSUME Broker
  PROVE  /\ UNCHANGED <<app, callVars, response, header, body, toolVars, dialogVars>>
         /\ Accept \/ UNCHANGED <<queue, server>>
  BY DEF Broker, Boots, Accept, BrokerEnds, serverVars

LEMMA UserFrame ==
  ASSUME NEW c, User(c)
  PROVE  UNCHANGED <<appVars, answer, asked, serverVars, toolVars>>
  BY DEF User, Use, RefuseDialog, OpenDialog, dialogVars

LEMMA CallerFrame ==
  ASSUME NEW c, Caller(c)
  PROVE  UNCHANGED <<app, ready, broker, kind, serverVars, toolVars, dialogVars>>
  BY DEF Caller, SendChannel, WriteRequest, ReadHeader, ReadBody, appVars

LEMMA DialogFrame ==
  ASSUME NEW c, Dialog(c)
  PROVE  UNCHANGED <<appVars, kind, answer, asked, serverVars, toolVars, joinable>>
  BY DEF Dialog, CallBack, EndDialog

LEMMA ServerFrame ==
  ASSUME NEW c, Server(c)
  PROVE  UNCHANGED <<appVars, callVars, heirs, produced, dialogVars>>
  BY DEF Server, Refuse, RunTool, Take, Collect, WaitExpires, SendHeader, SendBody, ServerAlarm, toolVars

LEMMA ToolFrame ==
  ASSUME NEW c, Tool(c)
  PROVE  UNCHANGED <<appVars, callVars, serverVars, taken, dialogVars>>
  BY DEF Tool, Write, Exit, HeirExits, ToolAlarm

-----------------------------------------------------------------------------
(* Types.                                                                  *)

LEMMA MainTyped ==
  ASSUME TypeOK, Main  PROVE TypeOK'
  <1>1. app' \in {"off", "starting", "on", "closed", "killed", "stopped", "dead"}
    BY DEF Main, Start, Started, StartFails, Stop, KillGroup, JoinDialog, AppDies
  <1>2. ready' \in {"none", "ok", "bad"} /\ broker' \in {"none", "booting", "serving", "gone"}
    BY DEF Main, Start, Started, StartFails, Stop, KillGroup, Killed, JoinDialog, AppDies, TypeOK
  <1>3. queue' \in Seq(Calls)
    <2>1. queue \in Seq(Calls) /\ <<>> \in Seq(Calls)
      BY DEF TypeOK
    <2>2. queue' = queue \/ queue' = <<>>
      BY MainFrame DEF KillGroup, Killed
    <2> QED BY <2>1, <2>2
  <1>4. caller' \in [Calls -> CallerStates] /\ answer' \in [Calls -> {None} \cup Response]
    BY MainFrame DEF AppDies, TypeOK, CallerStates
  <1>5. server' \in [Calls -> {"none", "reading", "watching", "answering", "sending", "gone"}]
    BY MainFrame DEF KillGroup, Killed, TypeOK
  <1>6. tool' \in [Calls -> Statuses \cup {"none", "running"}]
    BY MainFrame DEF KillGroup, Killed, TypeOK, Statuses
  <1>7. heirs' \in [Calls -> BOOLEAN]
    BY MainFrame DEF KillGroup, Killed, TypeOK
  <1>8. busy' \in BOOLEAN /\ joinable' \in Calls \cup {None}
    BY MainFrame DEF AppDies, JoinDialog, TypeOK
  <1> QED BY <1>1, <1>2, <1>3, <1>4, <1>5, <1>6, <1>7, <1>8, MainFrame DEF TypeOK

LEMMA BrokerTyped ==
  ASSUME IInv, Broker  PROVE TypeOK'
  <1>0. TypeOK /\ Distinct(queue)
    BY DEF IInv, BrokerInv
  <1>1. ready' \in {"none", "ok", "bad"} /\ broker' \in {"none", "booting", "serving", "gone"}
    BY <1>0 DEF Broker, Boots, Accept, BrokerEnds, TypeOK
  <1>2. queue' \in Seq(Calls)
    <2>1. queue' = queue \/ (queue # <<>> /\ queue' = Tail(queue))
      BY BrokerFrame DEF Accept
    <2>2. queue \in Seq(Calls) /\ Distinct(queue)
      BY <1>0 DEF TypeOK
    <2> QED BY <2>1, <2>2, TailDistinct
  <1>3. server' \in [Calls -> {"none", "reading", "watching", "answering", "sending", "gone"}]
    BY <1>0, BrokerFrame DEF Accept, TypeOK
  <1> QED BY <1>0, <1>1, <1>2, <1>3, BrokerFrame DEF TypeOK, callVars, toolVars, dialogVars

LEMMA UserTyped ==
  ASSUME TypeOK, NEW c \in Calls, User(c)  PROVE TypeOK'
  <1>1. kind' \in [Calls -> {"none", "curl", "notify", "dialog"}]
    BY KindsTyped DEF User, Use, RefuseDialog, OpenDialog, TypeOK
  <1>2. caller' \in [Calls -> CallerStates]
    <2>1. caller' = [caller EXCEPT ![c] = "opening"] \/ caller' = [caller EXCEPT ![c] = "finished"]
      BY DEF User, Use, RefuseDialog, OpenDialog
    <2>2. "opening" \in CallerStates /\ "finished" \in CallerStates
      BY DEF CallerStates
    <2> QED BY <2>1, <2>2 DEF TypeOK
  <1>3. callbacks' \in [Calls -> Nat]
    <2>1. callbacks' = callbacks \/ callbacks' = [callbacks EXCEPT ![c] = callbacks[c] + 1]
      BY DEF User, Use, RefuseDialog, OpenDialog, dialogVars
    <2>2. callbacks \in [Calls -> Nat] /\ callbacks[c] + 1 \in Nat
      BY DEF TypeOK
    <2> QED BY <2>1, <2>2
  <1>4. busy' \in BOOLEAN /\ joinable' \in Calls \cup {None}
    BY DEF User, Use, RefuseDialog, OpenDialog, dialogVars, TypeOK
  <1> QED BY <1>1, <1>2, <1>3, <1>4, UserFrame DEF TypeOK, appVars, serverVars, toolVars

LEMMA FailureTyped == Failure \in Response
  BY LimitTyped DEF Failure, Response, Statuses, Endings

LEMMA CallerTyped ==
  ASSUME IInv, NEW c \in Calls, Caller(c)  PROVE TypeOK'
  <1>0. TypeOK /\ CallOK(c)
    BY DEF IInv, CallInv
  <1>1. queue' \in Seq(Calls)
    <2>1. queue' = queue \/ queue' = Append(queue, c)
      BY DEF Caller, SendChannel, WriteRequest, ReadHeader, ReadBody, appVars
    <2>2. queue \in Seq(Calls)
      BY <1>0 DEF TypeOK
    <2> QED BY <2>1, <2>2, AppendDistinct
  <1>2. caller' \in [Calls -> CallerStates]
    <2>1. \E s \in CallerStates : caller' = [caller EXCEPT ![c] = s]
      BY DEF Caller, SendChannel, WriteRequest, ReadHeader, ReadBody, Returns, CallerStates
    <2> QED BY <1>0, <2>1 DEF TypeOK
  <1>3. asked' \in [Calls -> BOOLEAN]
    BY <1>0 DEF Caller, SendChannel, WriteRequest, ReadHeader, ReadBody, TypeOK
  <1>4. answer' \in [Calls -> {None} \cup Response]
    <2>1. caller[c] = "reading" => response[c] \in Response
      BY <1>0 DEF CallOK, CallerOK, ServerOK, Answered
    <2>2. answer' = answer \/ \E a \in Response : answer' = [answer EXCEPT ![c] = a]
      BY <2>1, FailureTyped DEF Caller, SendChannel, WriteRequest, ReadHeader, ReadBody, Returns
    <2> QED BY <1>0, <2>2 DEF TypeOK
  <1> QED BY <1>0, <1>1, <1>2, <1>3, <1>4, CallerFrame DEF TypeOK, serverVars, toolVars, dialogVars

LEMMA DialogTyped ==
  ASSUME TypeOK, NEW c \in Calls, Dialog(c)  PROVE TypeOK'
  <1>1. caller' \in [Calls -> CallerStates]
    BY DEF Dialog, CallBack, EndDialog, TypeOK, CallerStates
  <1>2. callbacks' \in [Calls -> Nat] /\ busy' \in BOOLEAN
    <2>1. callbacks' = callbacks \/ callbacks' = [callbacks EXCEPT ![c] = callbacks[c] + 1]
      BY DEF Dialog, CallBack, EndDialog
    <2>2. busy' = busy \/ busy' = FALSE
      BY DEF Dialog, CallBack, EndDialog
    <2>3. callbacks \in [Calls -> Nat] /\ callbacks[c] + 1 \in Nat /\ busy \in BOOLEAN
      BY DEF TypeOK
    <2> QED BY <2>1, <2>2, <2>3
  <1> QED BY <1>1, <1>2, DialogFrame DEF TypeOK, appVars, serverVars, toolVars

\* What a server answers: an error, or all the tool wrote and how it ended.
Answers(c, r) ==
  /\ Respond(c, r) /\ UNCHANGED header
  /\ server[c] \in {"reading", "watching"} /\ tool'[c] # "running"
  /\ ~r.failed => r.size = produced[c] /\ r.status = tool[c] /\ ~heirs[c] /\ UNCHANGED tool

LEMMA Responds ==
  ASSUME IInv, NEW c \in Calls, Server(c)
  PROVE  \/ \E r \in Response : Answers(c, r)
         \/ UNCHANGED response /\ (RunTool(c) \/ SendHeader(c) \/ SendBody(c) \/ ServerAlarm(c))
         \/ UNCHANGED <<response, server, header, tool>>
  <1>0. TypeOK /\ CallOK(c)
    BY DEF IInv, CallInv
  <1>1. taken[c] \in 0..Limit /\ tool[c] \in Statuses \cup {"none", "running"}
    BY <1>0 DEF TypeOK
  <1>2. CASE Refuse(c)
    <2>1. tool[c] = "none" /\ UNCHANGED tool
      BY <1>0, <1>2 DEF Refuse, CallOK, ServerOK, toolVars
    <2>2. Failure.failed
      BY DEF Failure
    <2>3. Respond(c, Failure) /\ UNCHANGED header /\ server[c] = "reading"
      BY <1>2 DEF Refuse
    <2>4. Answers(c, Failure)
      BY <2>1, <2>2, <2>3 DEF Answers
    <2> QED BY <2>4, FailureTyped
  <1>3. CASE Take(c)
    <2>1. CASE taken[c] < Limit
      BY <1>3, <2>1 DEF Take, serverVars
    <2>2. CASE ~(taken[c] < Limit)
      <3>1. tool[c] # "none"
        BY <1>0, <1>3 DEF Take, CallOK, ServerOK
      <3>2. tool'[c] \in Statuses /\ tool'[c] # "running"
        BY <1>0, <1>1, <1>3, <2>2, <3>1 DEF Take, TypeOK, Statuses, Endings
      <3>3. PICK t \in Statuses, n \in 0..Limit : t = tool'[c] /\ n = taken[c]
        BY <1>1, <3>2
      <3> DEFINE r == [failed |-> TRUE, status |-> t, size |-> n]
      <3>4. r \in Response /\ r.failed
        BY DEF Response
      <3>5. Respond(c, r) /\ UNCHANGED header /\ server[c] = "watching"
        BY <1>3, <2>2, <3>3 DEF Take
      <3> HIDE DEF r
      <3>6. Answers(c, r)
        BY <3>2, <3>4, <3>5 DEF Answers
      <3> QED BY <3>4, <3>6
    <2> QED BY <2>1, <2>2
  <1>4. CASE Collect(c) \/ WaitExpires(c)
    <2>0. server[c] = "watching" /\ tool[c] # "running" /\ UNCHANGED <<header, tool>>
      BY <1>4 DEF Collect, WaitExpires, toolVars
    <2>1. tool[c] \in Statuses
      BY <1>0, <1>1, <2>0 DEF CallOK, ServerOK
    <2>2. PICK t \in Statuses, n \in 0..Limit : t = tool[c] /\ n = taken[c]
      BY <1>1, <2>1
    <2>3. CASE Collect(c)
      <3> DEFINE r == [failed |-> FALSE, status |-> t, size |-> n]
      <3>1. r \in Response /\ r.size = produced[c] /\ r.status = tool[c] /\ ~heirs[c]
        BY <2>2, <2>3 DEF Response, Collect
      <3>2. Respond(c, r)
        BY <2>2, <2>3 DEF Collect
      <3> HIDE DEF r
      <3>3. Answers(c, r)
        BY <2>0, <3>1, <3>2 DEF Answers
      <3> QED BY <3>1, <3>3
    <2>4. CASE WaitExpires(c)
      <3> DEFINE r == [failed |-> TRUE, status |-> t, size |-> n]
      <3>1. r \in Response /\ r.failed
        BY DEF Response
      <3>2. Respond(c, r)
        BY <2>2, <2>4 DEF WaitExpires
      <3> HIDE DEF r
      <3>3. Answers(c, r)
        BY <2>0, <3>1, <3>2 DEF Answers
      <3> QED BY <3>1, <3>3
    <2> QED BY <1>4, <2>3, <2>4
  <1>5. CASE RunTool(c) \/ SendHeader(c) \/ SendBody(c) \/ ServerAlarm(c)
    BY <1>5 DEF RunTool, SendHeader, SendBody, ServerAlarm
  <1> QED BY <1>2, <1>3, <1>4, <1>5 DEF Server

\* What else a server changes.
LEMMA ServerMoves ==
  ASSUME NEW c, Server(c)
  PROVE  \/ Take(c) /\ UNCHANGED server
         \/ \E s \in {"watching", "answering", "sending", "gone"} : server' = [server EXCEPT ![c] = s]
  BY DEF Server, Refuse, RunTool, Take, Collect, WaitExpires, SendHeader, SendBody, ServerAlarm, Respond,
     serverVars, toolVars

LEMMA HeaderSteps ==
  ASSUME NEW c, Server(c)
  PROVE  UNCHANGED header \/ (SendHeader(c) /\ header' = [header EXCEPT ![c] = ~Hung(c)])
  BY Zenon DEF Server, Refuse, RunTool, Take, Collect, WaitExpires, SendHeader, SendBody, ServerAlarm, Respond,
     serverVars, toolVars

LEMMA BodySteps ==
  ASSUME NEW c, Server(c)
  PROVE  UNCHANGED body \/ (SendBody(c) /\ body' = [body EXCEPT ![c] = ~Hung(c)])
  BY Zenon DEF Server, Refuse, RunTool, Take, Collect, WaitExpires, SendHeader, SendBody, ServerAlarm, Respond,
     serverVars, toolVars

LEMMA ServerTool ==
  ASSUME NEW c, Server(c)
  PROVE  \/ UNCHANGED tool
         \/ RunTool(c) /\ tool' = [tool EXCEPT ![c] = "running"]
         \/ Take(c) /\ tool' = [tool EXCEPT ![c] = IF tool[c] = "running" THEN "killed" ELSE tool[c]]
  BY DEF Server, Refuse, RunTool, Take, Collect, WaitExpires, SendHeader, SendBody, ServerAlarm, Respond,
     serverVars, toolVars

LEMMA ServerTakes ==
  ASSUME NEW c, Server(c)
  PROVE  \/ UNCHANGED taken
         \/ Take(c) /\ taken[c] < Limit /\ taken' = [taken EXCEPT ![c] = taken[c] + 1]
  BY DEF Server, Refuse, RunTool, Take, Collect, WaitExpires, SendHeader, SendBody, ServerAlarm, Respond,
     serverVars, toolVars

LEMMA HungTyped == \A c : (~Hung(c)) \in BOOLEAN
  BY DEF Hung

LEMMA ServerTyped ==
  ASSUME IInv, NEW c \in Calls, Server(c)  PROVE TypeOK'
  <1>0. TypeOK
    BY DEF IInv
  <1>1. server' \in [Calls -> {"none", "reading", "watching", "answering", "sending", "gone"}]
    BY <1>0, ServerMoves DEF TypeOK
  <1>2. response' \in [Calls -> {None} \cup Response]
    <2>1. response \in [Calls -> {None} \cup Response]
      BY <1>0 DEF TypeOK
    <2>2. UNCHANGED response \/ \E r \in Response : response' = [response EXCEPT ![c] = r]
      BY Responds DEF Answers, Respond
    <2> QED BY <2>1, <2>2
  <1>3. header' \in [Calls -> BOOLEAN]
    BY <1>0, HeaderSteps, HungTyped DEF TypeOK
  <1>4. body' \in [Calls -> BOOLEAN]
    BY <1>0, BodySteps, HungTyped DEF TypeOK
  <1>5. tool' \in [Calls -> Statuses \cup {"none", "running"}]
    <2>1. tool \in [Calls -> Statuses \cup {"none", "running"}]
      BY <1>0 DEF TypeOK
    <2>2. "running" \in Statuses \cup {"none", "running"} /\ "killed" \in Statuses \cup {"none", "running"}
      BY DEF Statuses
    <2>3. UNCHANGED tool \/ \E s \in {tool[c], "running", "killed"} : tool' = [tool EXCEPT ![c] = s]
      BY ServerTool
    <2> QED BY <2>1, <2>2, <2>3
  <1>6. taken' \in [Calls -> 0..Limit]
    <2>1. taken \in [Calls -> 0..Limit] /\ taken[c] \in 0..Limit
      BY <1>0 DEF TypeOK
    <2>2. taken[c] < Limit => taken[c] + 1 \in 0..Limit
      BY <2>1, LimitTyped
    <2> QED BY <2>1, <2>2, ServerTakes
  <1> QED BY <1>0, <1>1, <1>2, <1>3, <1>4, <1>5, <1>6, ServerFrame DEF TypeOK, appVars, callVars, dialogVars

LEMMA ToolEnds ==
  ASSUME NEW c, Tool(c)
  PROVE  UNCHANGED tool \/ (tool[c] = "running" /\ \E s \in Statuses : tool' = [tool EXCEPT ![c] = s])
  BY DEF Tool, Write, Exit, HeirExits, ToolAlarm, Statuses

LEMMA HeirSteps ==
  ASSUME NEW c, Tool(c)
  PROVE  \/ UNCHANGED heirs
         \/ \E h \in BOOLEAN : heirs' = [heirs EXCEPT ![c] = h] /\ (h => tool[c] = "running")
  <1>1. CASE Exit(c)
    <2>1. (c \in Forks) \in BOOLEAN
      OBVIOUS
    <2> QED BY <1>1, <2>1, Zenon DEF Exit
  <1>2. CASE HeirExits(c)
    <2>1. FALSE \in BOOLEAN
      OBVIOUS
    <2> QED BY <1>2, <2>1, Zenon DEF HeirExits
  <1>3. CASE Write(c) \/ ToolAlarm(c)
    BY <1>3 DEF Write, ToolAlarm
  <1> QED BY <1>1, <1>2, <1>3 DEF Tool

LEMMA ToolWrites ==
  ASSUME NEW c, Tool(c)
  PROVE  \/ UNCHANGED produced
         \/ tool[c] = "running" /\ produced[c] < Output[c] /\ produced' = [produced EXCEPT ![c] = produced[c] + 1]
  BY DEF Tool, Write, Exit, HeirExits, ToolAlarm

LEMMA ToolTyped ==
  ASSUME TypeOK, NEW c \in Calls, Tool(c)  PROVE TypeOK'
  <1>1. tool' \in [Calls -> Statuses \cup {"none", "running"}]
    <2>1. tool \in [Calls -> Statuses \cup {"none", "running"}]
      BY DEF TypeOK
    <2>2. CASE \E s \in Statuses : tool' = [tool EXCEPT ![c] = s]
      BY <2>1, <2>2
    <2> QED BY <2>1, <2>2, ToolEnds
  <1>2. heirs' \in [Calls -> BOOLEAN]
    BY HeirSteps DEF TypeOK
  <1>3. produced' \in [Calls -> Nat] /\ \A d \in Calls : produced'[d] <= Output[d]
    <2>1. /\ Output[c] \in Nat /\ produced[c] \in Nat
          /\ produced \in [Calls -> Nat] /\ \A d \in Calls : produced[d] <= Output[d]
      BY OutputTyped DEF TypeOK
    <2>2. CASE UNCHANGED produced
      BY <2>1, <2>2
    <2>3. CASE produced[c] < Output[c] /\ produced' = [produced EXCEPT ![c] = produced[c] + 1]
      <3>1. produced[c] + 1 \in Nat /\ produced[c] + 1 <= Output[c]
        BY <2>1, <2>3
      <3> QED BY <2>1, <2>3, <3>1
    <2> QED BY <2>2, <2>3, ToolWrites
  <1> QED BY <1>1, <1>2, <1>3, ToolFrame DEF TypeOK, appVars, callVars, serverVars, dialogVars

LEMMA NextTyped ==
  ASSUME IInv, Next  PROVE TypeOK'
  BY MainTyped, BrokerTyped, UserTyped, CallerTyped, DialogTyped, ServerTyped, ToolTyped DEF Next, IInv

-----------------------------------------------------------------------------
(* Calls.                                                                  *)

\* The call d is as it was.
Same(d) ==
  /\ kind'[d] = kind[d] /\ caller'[d] = caller[d] /\ answer'[d] = answer[d]
  /\ server'[d] = server[d] /\ response'[d] = response[d] /\ header'[d] = header[d]
  /\ tool'[d] = tool[d] /\ heirs'[d] = heirs[d] /\ produced'[d] = produced[d]
  /\ callbacks'[d] = callbacks[d]
  /\ Occurs(queue', d) => Occurs(queue, d)
  /\ app' # "dead" => app # "dead"

LEMMA SameOK ==
  ASSUME NEW d, CallOK(d), Same(d)  PROVE CallOK(d)'
  <1> USE DEF Same
  <1>1. ServerOK(d)'
    BY DEF CallOK, ServerOK, Answered
  <1>2. CallerOK(d)'
    BY DEF CallOK, CallerOK, Queued
  <1>3. WaitsOK(d)'
    BY DEF CallOK, WaitsOK, Queued
  <1> QED BY <1>1, <1>2, <1>3 DEF CallOK

LEMMA OneCall ==
  ASSUME CallInv, NEW c \in Calls, \A d \in Calls \ {c} : Same(d), CallOK(c)'
  PROVE  CallInv'
  BY SameOK DEF CallInv

LEMMA MainCalls ==
  ASSUME IInv, Main  PROVE CallInv'
  <1>0. SUFFICES ASSUME NEW d \in Calls  PROVE CallOK(d)'
    BY DEF CallInv
  <1>1. TypeOK /\ CallOK(d)
    BY DEF IInv, CallInv
  <1>2. CASE Start \/ Started \/ StartFails \/ Stop \/ JoinDialog
    <2>1. Same(d)
      BY <1>2 DEF Start, Started, StartFails, Stop, JoinDialog, Same, callVars, serverVars, toolVars, dialogVars
    <2> QED BY <1>1, <2>1, SameOK
  <1>3. CASE KillGroup
    <2>1. /\ UNCHANGED <<kind, caller, answer, response, header, produced, callbacks>>
          /\ server'[d] = (IF Serving(d) THEN "gone" ELSE server[d])
          /\ tool'[d] = (IF tool[d] = "running" THEN "killed" ELSE tool[d])
          /\ ~heirs'[d] /\ ~Occurs(queue', d) /\ app # "dead" /\ app' # "dead"
      BY <1>3 DEF KillGroup, Killed, callVars, dialogVars, Occurs
    <2>2. ServerOK(d)'
      BY <1>1, <2>1 DEF CallOK, ServerOK, Answered, Serving
    <2>3. CallerOK(d)'
      BY <1>1, <2>1 DEF CallOK, CallerOK, Queued, Serving
    <2>4. WaitsOK(d)'
      BY <1>1, <2>1 DEF CallOK, WaitsOK, Queued, Serving
    <2> QED BY <2>2, <2>3, <2>4 DEF CallOK
  <1>4. CASE AppDies
    <2>1. /\ UNCHANGED <<queue, server, response, header, tool, heirs, produced, callbacks>>
          /\ caller'[d] = "idle" /\ answer'[d] = None /\ app' = "dead"
      BY <1>4 DEF AppDies, serverVars, toolVars
    <2>2. ServerOK(d)'
      BY <1>1, <2>1 DEF CallOK, ServerOK, Answered
    <2>3. CallerOK(d)' /\ WaitsOK(d)'
      BY <1>1, <2>1 DEF CallOK, CallerOK, WaitsOK, Queued
    <2> QED BY <2>2, <2>3 DEF CallOK
  <1> QED BY <1>2, <1>3, <1>4 DEF Main

LEMMA BrokerCalls ==
  ASSUME IInv, Broker  PROVE CallInv'
  <1>0. TypeOK /\ CallInv /\ Distinct(queue)
    BY DEF IInv, BrokerInv
  <1>1. CASE UNCHANGED <<queue, server>>
    <2>1. \A d \in Calls : Same(d)
      BY <1>1, BrokerFrame DEF Same, callVars, toolVars, dialogVars
    <2> QED BY <1>0, <2>1, SameOK DEF CallInv
  <1>2. CASE Accept
    <2>1. queue # <<>> /\ queue \in Seq(Calls) /\ queue' = Tail(queue)
      BY <1>0, <1>2 DEF Accept, TypeOK
    <2>2. PICK c \in Calls : c = Head(queue)
      BY <2>1
    <2>3. /\ Occurs(queue, c) /\ ~Occurs(queue', c)
          /\ \A d : Occurs(queue', d) => Occurs(queue, d)
      BY <1>0, <2>1, <2>2, TailDistinct
    <2>4. server' = server \/ server' = [server EXCEPT ![c] = "reading"]
      BY <1>2, <2>2 DEF Accept
    <2>5. \A d \in Calls \ {c} : Same(d)
      BY <1>0, <2>3, <2>4, BrokerFrame DEF Same, TypeOK, callVars, toolVars, dialogVars
    <2>6. CallOK(c) /\ server[c] = "none" /\ server'[c] \in {"none", "reading"}
      BY <1>0, <2>3, <2>4 DEF CallInv, CallOK, CallerOK, Queued, TypeOK
    <2>7. UNCHANGED <<app, kind, caller, answer, response, header, tool, heirs, produced, callbacks>>
      BY BrokerFrame DEF callVars, toolVars, dialogVars
    <2>8. ServerOK(c)'
      BY <2>6, <2>7 DEF CallOK, ServerOK, Answered
    <2>9. CallerOK(c)'
      BY <2>3, <2>6, <2>7 DEF CallOK, CallerOK, Queued
    <2>10. WaitsOK(c)'
      BY <2>3, <2>6, <2>7 DEF CallOK, WaitsOK, Queued
    <2>11. CallOK(c)'
      BY <2>8, <2>9, <2>10 DEF CallOK
    <2> QED BY <1>0, <2>5, <2>11, OneCall
  <1> QED BY <1>1, <1>2, BrokerFrame

LEMMA UserCalls ==
  ASSUME IInv, NEW c \in Calls, User(c)  PROVE CallInv'
  <1>0. TypeOK /\ CallInv /\ CallOK(c)
    BY DEF IInv, CallInv
  <1>1. /\ app = "on" /\ caller[c] = "idle" /\ UNCHANGED <<app, queue>>
        /\ \E k \in {"curl", "notify", "dialog"} : kind' = [kind EXCEPT ![c] = k]
        /\ \/ caller' = [caller EXCEPT ![c] = "opening"] /\ UNCHANGED callbacks
           \/ caller' = [caller EXCEPT ![c] = "finished"] /\ callbacks' = [callbacks EXCEPT ![c] = callbacks[c] + 1]
    <2>1. UNCHANGED <<app, queue>>
      BY UserFrame DEF appVars
    <2>2. CASE Use(c)
      BY <2>1, <2>2, KindsTyped DEF Use, dialogVars
    <2>3. CASE RefuseDialog(c)
      BY <2>1, <2>3 DEF RefuseDialog
    <2>4. CASE OpenDialog(c)
      BY <2>1, <2>4 DEF OpenDialog
    <2> QED BY <2>2, <2>3, <2>4 DEF User
  <1>2. UNCHANGED <<answer, server, response, header, tool, heirs, produced>>
    BY UserFrame DEF serverVars, toolVars
  <1>3. \A d \in Calls \ {c} : Same(d)
    BY <1>0, <1>1, <1>2 DEF Same, TypeOK
  <1>4. ServerOK(c)'
    BY <1>0, <1>2 DEF CallOK, ServerOK, Answered
  <1>5. caller'[c] \in {"opening", "finished"} /\ server[c] = "none" /\ ~Queued(c)
    BY <1>0, <1>1 DEF TypeOK, CallOK, CallerOK
  <1>6. CallerOK(c)'
    BY <1>0, <1>1, <1>2, <1>5 DEF CallOK, CallerOK, Queued
  <1>7. callbacks[c] = 0
    BY <1>0, <1>1 DEF CallOK, WaitsOK
  <1>8. callbacks'[c] <= 1 /\ (caller'[c] # "finished" => callbacks'[c] = 0)
    BY <1>0, <1>1, <1>7 DEF TypeOK
  <1>9. WaitsOK(c)'
    BY <1>1, <1>2, <1>5, <1>8 DEF WaitsOK, Queued
  <1> QED BY <1>0, <1>3, <1>4, <1>6, <1>9, OneCall DEF CallOK

LEMMA CallerMoves ==
  ASSUME IInv, NEW c \in Calls, Caller(c)
  PROVE  /\ app # "dead" /\ UNCHANGED app
         /\ \A d \in Calls \ {c} : caller'[d] = caller[d] /\ answer'[d] = answer[d]
         /\ \A d \in Calls \ {c} : Occurs(queue', d) => Occurs(queue, d)
  <1>0. TypeOK
    BY DEF IInv
  <1>1. \A d \in Calls \ {c} : caller'[d] = caller[d] /\ answer'[d] = answer[d]
    BY <1>0 DEF Caller, SendChannel, WriteRequest, ReadHeader, ReadBody, Returns, TypeOK
  <1>2. queue' = queue \/ queue' = Append(queue, c)
    BY DEF Caller, SendChannel, WriteRequest, ReadHeader, ReadBody, appVars
  <1>3. \A d \in Calls \ {c} : Occurs(queue', d) => Occurs(queue, d)
    <2>1. queue \in Seq(Calls)
      BY <1>0 DEF TypeOK
    <2> QED BY <1>2, <2>1, AppendDistinct
  <1>4. app # "dead" /\ UNCHANGED app
    BY CallerFrame DEF Caller, SendChannel, WriteRequest, ReadHeader, ReadBody
  <1> QED BY <1>1, <1>3, <1>4

LEMMA CallerCalls ==
  ASSUME IInv, NEW c \in Calls, Caller(c)  PROVE CallInv'
  <1>0. TypeOK /\ CallInv /\ CallOK(c)
    BY DEF IInv, CallInv
  <1>1. UNCHANGED <<kind, server, response, header, tool, heirs, produced, callbacks>>
    BY CallerFrame DEF serverVars, toolVars, dialogVars
  <1>2. app # "dead" /\ UNCHANGED app
    BY CallerMoves
  <1>3. \A d \in Calls \ {c} : Same(d)
    BY <1>1, <1>2, CallerMoves DEF Same
  <1>4. ServerOK(c)'
    BY <1>0, <1>1 DEF CallOK, ServerOK, Answered
  <1>5. \A a : Returns(c, a) => answer'[c] = a /\ caller'[c] \in {"calling", "returned"} /\
                                (kind[c] = "dialog" => caller'[c] = "calling")
    BY <1>0 DEF Returns, TypeOK
  <1>6. Failure.failed
    BY DEF Failure
  <1>7. CallerOK(c)' /\ WaitsOK(c)'
    <2>1. CASE SendChannel(c)
      <3>1. CASE queue' = Append(queue, c) /\ caller' = [caller EXCEPT ![c] = "writing"] /\ UNCHANGED answer
        <4>1. caller'[c] = "writing" /\ caller[c] = "opening" /\ server[c] = "none"
          BY <1>0, <1>2, <2>1, <3>1 DEF SendChannel, TypeOK, CallOK, CallerOK
        <4> QED BY <1>0, <1>1, <1>2, <3>1, <4>1 DEF CallOK, CallerOK, WaitsOK
      <3>2. CASE Returns(c, Failure) /\ UNCHANGED queue
        <4>1. /\ answer'[c].failed /\ caller'[c] \in {"calling", "returned"}
              /\ caller[c] = "opening" /\ server[c] = "none" /\ ~Queued(c)
          BY <1>0, <1>2, <1>5, <1>6, <2>1, <3>2 DEF SendChannel, CallOK, CallerOK
        <4> QED BY <1>0, <1>1, <1>2, <3>2, <4>1 DEF CallOK, CallerOK, WaitsOK, Queued
      <3> QED BY <2>1, <3>1, <3>2 DEF SendChannel
    <2>2. CASE WriteRequest(c)
      <3>0. UNCHANGED queue /\ caller[c] = "writing"
        BY <2>2 DEF WriteRequest, appVars
      <3>1. CASE Dropped(c)
        <4>1. answer'[c].failed /\ caller'[c] \in {"calling", "returned"} /\ ~Queued(c) /\ ~Serving(c)
          BY <1>5, <1>6, <2>2, <3>1 DEF WriteRequest, Dropped, Queued, Occurs
        <4> QED BY <1>0, <1>1, <1>2, <3>0, <4>1 DEF CallOK, CallerOK, WaitsOK, Queued, Serving
      <3>2. CASE ~Dropped(c)
        <4>1. /\ caller'[c] \in {"returned", "waiting"} /\ UNCHANGED answer
              /\ kind[c] = "dialog" => caller'[c] = "waiting"
          BY <1>0, <2>2, <3>2 DEF WriteRequest, TypeOK
        <4> QED BY <1>0, <1>1, <1>2, <3>0, <4>1 DEF CallOK, CallerOK, WaitsOK, Queued
      <3> QED BY <3>1, <3>2
    <2>3. CASE ReadHeader(c)
      <3>0. UNCHANGED queue /\ caller[c] = "waiting"
        BY <2>3 DEF ReadHeader, appVars
      <3>1. CASE header[c] /\ caller' = [caller EXCEPT ![c] = "reading"] /\ UNCHANGED answer
        <4>1. caller'[c] = "reading" /\ server[c] \in {"sending", "gone"} /\ ~Queued(c)
          BY <1>0, <3>1 DEF TypeOK, CallOK, ServerOK, CallerOK
        <4> QED BY <1>0, <1>1, <1>2, <3>0, <3>1, <4>1 DEF CallOK, CallerOK, WaitsOK, Queued
      <3>2. CASE Dropped(c) /\ Returns(c, Failure)
        <4>1. answer'[c].failed /\ caller'[c] \in {"calling", "returned"} /\ ~Queued(c) /\ ~Serving(c)
          BY <1>5, <1>6, <3>2 DEF Dropped, Queued, Occurs
        <4> QED BY <1>0, <1>1, <1>2, <3>0, <4>1 DEF CallOK, CallerOK, WaitsOK, Queued, Serving
      <3> QED BY <2>3, <3>1, <3>2 DEF ReadHeader
    <2>4. CASE ReadBody(c)
      <3>0. UNCHANGED queue /\ caller[c] = "reading"
        BY <2>4 DEF ReadBody, appVars
      <3>1. header[c] /\ server[c] \in {"sending", "gone"} /\ ~Queued(c)
        BY <1>0, <3>0 DEF CallOK, ServerOK, CallerOK
      <3>2. \/ answer'[c].failed
            \/ answer'[c] = response[c]
        BY <1>5, <1>6, <2>4 DEF ReadBody
      <3>3. caller'[c] \in {"calling", "returned"}
        BY <1>5, <2>4 DEF ReadBody
      <3> QED BY <1>0, <1>1, <1>2, <3>0, <3>1, <3>2, <3>3 DEF CallOK, CallerOK, WaitsOK, Queued
    <2> QED BY <2>1, <2>2, <2>3, <2>4 DEF Caller
  <1> QED BY <1>0, <1>3, <1>4, <1>7, OneCall DEF CallOK

LEMMA DialogCalls ==
  ASSUME IInv, NEW c \in Calls, Dialog(c)  PROVE CallInv'
  <1>0. TypeOK /\ CallInv /\ CallOK(c)
    BY DEF IInv, CallInv
  <1>1. UNCHANGED <<app, queue, kind, answer, server, response, header, tool, heirs, produced>>
    BY DialogFrame DEF appVars, serverVars, toolVars
  <1>2. /\ app # "dead"
        /\ \/ /\ caller[c] = "calling" /\ caller' = [caller EXCEPT ![c] = "returned"]
              /\ callbacks' = [callbacks EXCEPT ![c] = callbacks[c] + 1]
           \/ /\ caller[c] = "returned" /\ caller' = [caller EXCEPT ![c] = "finished"] /\ UNCHANGED callbacks
    BY DEF Dialog, CallBack, EndDialog
  <1>3. \A d \in Calls \ {c} : Same(d)
    BY <1>0, <1>1, <1>2 DEF Same, TypeOK
  <1>4. ServerOK(c)'
    BY <1>0, <1>1 DEF CallOK, ServerOK, Answered
  <1>5. caller'[c] \in {"returned", "finished"}
    BY <1>0, <1>2 DEF TypeOK
  <1>6. CallerOK(c)'
    BY <1>0, <1>1, <1>2, <1>5 DEF CallOK, CallerOK, Queued
  <1>7. callbacks'[c] <= 1
    <2>1. callbacks[c] <= 1 /\ (caller[c] = "calling" => callbacks[c] = 0)
      BY <1>0, <1>2 DEF CallOK, WaitsOK
    <2> QED BY <1>0, <1>2, <2>1 DEF TypeOK
  <1>8. WaitsOK(c)'
    BY <1>0, <1>1, <1>2, <1>5, <1>7 DEF CallOK, WaitsOK, Queued
  <1> QED BY <1>0, <1>3, <1>4, <1>6, <1>8, OneCall DEF CallOK

LEMMA ToolCalls ==
  ASSUME IInv, NEW c \in Calls, Tool(c)  PROVE CallInv'
  <1>0. TypeOK /\ CallInv /\ CallOK(c)
    BY DEF IInv, CallInv
  <1>1. UNCHANGED <<app, queue, kind, caller, answer, server, response, header, callbacks>>
    BY ToolFrame DEF appVars, callVars, serverVars, dialogVars
  <1>2. \A d \in Calls \ {c} : tool'[d] = tool[d] /\ heirs'[d] = heirs[d] /\ produced'[d] = produced[d]
    <2>0. \A d \in Calls \ {c} : tool'[d] = tool[d]
      <3>1. UNCHANGED tool \/ \E s \in Statuses : tool' = [tool EXCEPT ![c] = s]
        BY ToolEnds
      <3> QED BY <1>0, <3>1 DEF TypeOK
    <2>1. \A d \in Calls \ {c} : produced'[d] = produced[d]
      <3>1. UNCHANGED produced \/ produced' = [produced EXCEPT ![c] = produced[c] + 1]
        BY ToolWrites
      <3> QED BY <1>0, <3>1 DEF TypeOK
    <2>2. heirs \in [Calls -> BOOLEAN]
      BY <1>0 DEF TypeOK
    <2>3. \A d \in Calls \ {c} : heirs'[d] = heirs[d]
      BY <2>2, HeirSteps, Zenon
    <2> QED BY <2>0, <2>1, <2>3
  <1>3. \A d \in Calls \ {c} : Same(d)
    BY <1>1, <1>2 DEF Same
  <1>4. CASE tool[c] = "running"
    <2>1. server[c] = "watching" /\ ~Answered(c)
      BY <1>0, <1>4 DEF CallOK, ServerOK, Answered
    <2>2. tool'[c] # "none"
      BY <1>0, <1>4, ToolEnds DEF TypeOK, Statuses, Endings
    <2> QED BY <1>0, <1>1, <1>3, <2>1, <2>2, OneCall DEF CallOK, ServerOK, CallerOK, WaitsOK, Answered, Queued
  <1>5. CASE tool[c] # "running"
    <2>1. UNCHANGED <<tool, produced>> /\ (heirs'[c] => heirs[c])
      <3>1. UNCHANGED <<tool, produced>>
        BY <1>5, ToolEnds, ToolWrites
      <3>2. UNCHANGED heirs \/ heirs' = [heirs EXCEPT ![c] = FALSE]
        BY <1>5, HeirSteps
      <3>3. heirs'[c] => heirs[c]
        BY <1>0, <3>2 DEF TypeOK
      <3> QED BY <3>1, <3>3
    <2> QED BY <1>0, <1>1, <1>3, <2>1, OneCall DEF CallOK, ServerOK, CallerOK, WaitsOK, Answered, Queued
  <1> QED BY <1>4, <1>5

LEMMA ServerFrames ==
  ASSUME IInv, NEW c \in Calls, Server(c)
  PROVE  \A d \in Calls \ {c} : Same(d)
  <1>0. TypeOK
    BY DEF IInv
  <1>1. UNCHANGED <<app, queue, kind, caller, answer, heirs, produced, callbacks>>
    BY ServerFrame DEF appVars, callVars, dialogVars
  <1>2. \A d \in Calls \ {c} : server'[d] = server[d]
    <2>1. UNCHANGED server \/ \E s \in {"watching", "answering", "sending", "gone"} : server' = [server EXCEPT ![c] = s]
      BY ServerMoves
    <2> QED BY <1>0, <2>1 DEF TypeOK
  <1>3. \A d \in Calls \ {c} : response'[d] = response[d]
    <2>1. UNCHANGED response \/ \E r \in Response : response' = [response EXCEPT ![c] = r]
      BY Responds DEF Answers, Respond
    <2> QED BY <1>0, <2>1 DEF TypeOK
  <1>4. \A d \in Calls \ {c} : header'[d] = header[d]
    <2>1. header \in [Calls -> BOOLEAN]
      BY <1>0 DEF TypeOK
    <2> QED BY <2>1, HeaderSteps, Zenon
  <1>5. \A d \in Calls \ {c} : tool'[d] = tool[d]
    <2>1. UNCHANGED tool \/ \E s \in {tool[c], "running", "killed"} : tool' = [tool EXCEPT ![c] = s]
      BY ServerTool
    <2> QED BY <1>0, <2>1 DEF TypeOK
  <1> QED BY <1>1, <1>2, <1>3, <1>4, <1>5 DEF Same

LEMMA ServerCalls ==
  ASSUME IInv, NEW c \in Calls, Server(c)  PROVE CallInv'
  <1>0. TypeOK /\ CallInv /\ CallOK(c)
    BY DEF IInv, CallInv
  <1>1. UNCHANGED <<app, queue, kind, caller, answer, heirs, produced, callbacks>>
    BY ServerFrame DEF appVars, callVars, dialogVars
  <1>2. Serving(c)
    BY DEF Server, Refuse, RunTool, Take, Collect, WaitExpires, SendHeader, SendBody, ServerAlarm, Serving
  <1>3. ~Queued(c) /\ (app # "dead" => caller[c] \notin {"idle", "opening"})
    BY <1>0, <1>2 DEF CallOK, CallerOK, Serving
  <1>4. CASE \E r \in Response : Answers(c, r)
    <2>0. PICK r \in Response : Answers(c, r)
      BY <1>4
    <2>1. server'[c] = "answering" /\ response'[c] = r /\ server[c] \in {"reading", "watching"}
      BY <1>0, <2>0 DEF Answers, Respond, TypeOK
    <2>2. ~header[c] /\ ~header'[c] /\ tool'[c] # "running"
      BY <1>0, <2>0, <2>1 DEF Answers, CallOK, ServerOK
    <2>3. ~r.failed => r.size = produced'[c] /\ r.status = tool'[c] /\ ~heirs'[c]
      BY <1>1, <2>0 DEF Answers
    <2>4. ServerOK(c)'
      BY <2>1, <2>2, <2>3 DEF ServerOK, Answered
    <2>5. CallerOK(c)'
      BY <1>0, <1>1, <1>3, <2>2 DEF CallOK, CallerOK, Queued
    <2>6. WaitsOK(c)'
      BY <1>0, <1>1, <1>3, <2>1 DEF CallOK, WaitsOK, Queued
    <2> QED BY <1>0, <2>4, <2>5, <2>6, ServerFrames, OneCall DEF CallOK
  <1>5. CASE RunTool(c)
    <2>1. server'[c] = "watching" /\ tool'[c] = "running" /\ UNCHANGED <<response, header>> /\ server[c] = "reading"
      BY <1>0, <1>5 DEF RunTool, TypeOK
    <2>2. ServerOK(c)'
      BY <1>0, <2>1 DEF CallOK, ServerOK, Answered
    <2>3. CallerOK(c)' /\ WaitsOK(c)'
      BY <1>0, <1>1, <1>3, <2>1 DEF CallOK, CallerOK, WaitsOK, Queued
    <2> QED BY <1>0, <2>2, <2>3, ServerFrames, OneCall DEF CallOK
  <1>6. CASE SendHeader(c) \/ SendBody(c) \/ ServerAlarm(c)
    <2>0. header \in [Calls -> BOOLEAN]
      BY <1>0 DEF TypeOK
    <2>1. UNCHANGED <<response, tool>>
      BY <1>6 DEF SendHeader, SendBody, ServerAlarm, toolVars
    <2>2. server'[c] = "gone" \/ (server'[c] = "sending" /\ server[c] = "answering")
      BY <1>0, <1>6 DEF SendHeader, SendBody, ServerAlarm, TypeOK
    <2>3. header'[c] => header[c] \/ server[c] = "answering"
      BY <2>0, <1>6, Zenon DEF SendHeader, SendBody, ServerAlarm
    <2>4. header[c] => header'[c]
      <3>1. header[c] => UNCHANGED header
        BY <1>0, <1>6 DEF SendHeader, SendBody, ServerAlarm, CallOK, ServerOK
      <3> QED BY <3>1
    <2>5. tool[c] # "running"
      BY <1>0, <1>6 DEF SendHeader, SendBody, ServerAlarm, CallOK, ServerOK
    <2>6. Answered(c)' => Answered(c)
      BY <2>2, <2>3 DEF Answered
    <2>7. ServerOK(c)'
      BY <1>0, <1>1, <2>1, <2>2, <2>5, <2>6 DEF CallOK, ServerOK
    <2>8. CallerOK(c)' /\ WaitsOK(c)'
      BY <1>0, <1>1, <1>3, <2>1, <2>2, <2>4 DEF CallOK, CallerOK, WaitsOK, Queued
    <2> QED BY <1>0, <2>7, <2>8, ServerFrames, OneCall DEF CallOK
  <1>7. CASE UNCHANGED <<response, server, header, tool>>
    <2>1. \A d \in Calls : Same(d)
      BY <1>1, <1>7 DEF Same
    <2> QED BY <1>0, <2>1, SameOK DEF CallInv
  <1> QED BY <1>4, <1>5, <1>6, <1>7, Responds

LEMMA NextCalls ==
  ASSUME IInv, Next  PROVE CallInv'
  BY MainCalls, BrokerCalls, UserCalls, CallerCalls, DialogCalls, ServerCalls, ToolCalls DEF Next

-----------------------------------------------------------------------------
(* The dialog thread, and the end of the broker.                           *)

LEMMA DialogKept ==
  ASSUME IInv, Next  PROVE DialogInv'
  <1>0. TypeOK /\ DialogInv
    BY DEF IInv
  <1>1. CASE Main
    <2>1. CASE AppDies
      BY <2>1 DEF AppDies, DialogInv
    <2>2. CASE JoinDialog
      <3>1. UNCHANGED <<kind, caller, busy>> /\ app = "killed" /\ app' = "stopped" /\ joinable' = None
        BY <2>2 DEF JoinDialog, callVars
      <3>2. joinable # None => caller[joinable] = "finished"
        BY <2>2 DEF JoinDialog
      <3>3. \A c \in Calls : ~Active(c)
        BY <1>0, <3>1, <3>2, NoneIsNew DEF DialogInv, Active
      <3>4. ~busy
        BY <1>0, <3>1, <3>3 DEF DialogInv
      <3> QED BY <3>1, <3>3, <3>4 DEF DialogInv, Active
    <2>3. CASE Start \/ Started \/ StartFails \/ Stop \/ KillGroup
      <3>1. UNCHANGED <<kind, caller, busy, joinable>> /\ app' # "stopped" /\ app # "dead"
        BY <2>3 DEF Start, Started, StartFails, Stop, KillGroup, Killed, callVars, dialogVars
      <3> QED BY <1>0, <3>1 DEF DialogInv, Active
    <2> QED BY <1>1, <2>1, <2>2, <2>3 DEF Main
  <1>2. CASE Broker
    BY <1>0, <1>2, BrokerFrame DEF DialogInv, Active, callVars, dialogVars
  <1>3. ASSUME NEW c \in Calls, User(c)  PROVE DialogInv'
    <2>0. UNCHANGED app /\ app = "on" /\ caller[c] = "idle"
      BY <1>3, UserFrame DEF User, Use, RefuseDialog, OpenDialog, appVars
    <2>1. \A d \in Calls \ {c} : Active(d)' <=> Active(d)
      BY <1>0, <1>3 DEF User, Use, RefuseDialog, OpenDialog, TypeOK, Active
    <2>2. ~Active(c)
      BY <2>0 DEF Active
    <2>3. CASE Use(c) \/ RefuseDialog(c)
      <3>1. ~Active(c)'
        BY <1>0, <2>3, KindsTyped DEF Use, RefuseDialog, TypeOK, Active
      <3>2. UNCHANGED busy /\ (busy => UNCHANGED joinable)
        BY <2>3 DEF Use, RefuseDialog, dialogVars
      <3> QED BY <1>0, <2>0, <2>1, <2>2, <3>1, <3>2 DEF DialogInv
    <2>4. CASE OpenDialog(c)
      <3>1. ~busy /\ busy' /\ joinable' = c
        BY <2>4 DEF OpenDialog
      <3>2. Active(c)'
        BY <1>0, <2>4 DEF OpenDialog, TypeOK, Active, CallerStates
      <3> QED BY <1>0, <2>0, <2>1, <3>1, <3>2 DEF DialogInv
    <2> QED BY <1>3, <2>3, <2>4 DEF User
  <1>4. ASSUME NEW c \in Calls, Caller(c)  PROVE DialogInv'
    <2>1. UNCHANGED <<app, kind, busy, joinable>>
      BY <1>4, CallerFrame DEF dialogVars
    <2>2. \A d \in Calls \ {c} : caller'[d] = caller[d]
      BY <1>4, CallerMoves
    <2>3. caller[c] \in CallerStates \ {"idle", "finished"} /\ caller'[c] \in CallerStates \ {"idle", "finished"}
      BY <1>0, <1>4 DEF Caller, SendChannel, WriteRequest, ReadHeader, ReadBody, Returns, TypeOK, CallerStates
    <2>4. \A d \in Calls : Active(d)' <=> Active(d)
      BY <2>1, <2>2, <2>3 DEF Active
    <2> QED BY <1>0, <2>1, <2>4 DEF DialogInv
  <1>5. ASSUME NEW c \in Calls, Dialog(c)  PROVE DialogInv'
    <2>1. UNCHANGED <<app, kind, joinable>> /\ app # "dead"
      BY <1>5, DialogFrame DEF appVars, Dialog, CallBack, EndDialog
    <2>2. \A d \in Calls \ {c} : Active(d)' <=> Active(d)
      BY <1>0, <1>5, <2>1 DEF Dialog, CallBack, EndDialog, TypeOK, Active
    <2>3. CASE CallBack(c)
      <3>1. UNCHANGED busy /\ (Active(c)' <=> Active(c))
        BY <1>0, <2>1, <2>3 DEF CallBack, TypeOK, Active, CallerStates
      <3> QED BY <1>0, <2>1, <2>2, <3>1 DEF DialogInv
    <2>4. CASE EndDialog(c)
      <3>1. ~busy' /\ Active(c) /\ ~Active(c)'
        BY <1>0, <2>1, <2>4 DEF EndDialog, TypeOK, Active, CallerStates
      <3> QED BY <1>0, <2>1, <2>2, <3>1 DEF DialogInv
    <2> QED BY <1>5, <2>3, <2>4 DEF Dialog
  <1>6. ASSUME NEW c \in Calls, Server(c) \/ Tool(c)  PROVE DialogInv'
    BY <1>0, <1>6, ServerFrame, ToolFrame DEF DialogInv, Active, appVars, callVars, dialogVars
  <1> QED BY <1>1, <1>2, <1>3, <1>4, <1>5, <1>6 DEF Next

LEMMA BrokerKept ==
  ASSUME IInv, Next  PROVE BrokerInv'
  <1>0. TypeOK /\ BrokerInv /\ CallInv
    BY DEF IInv
  <1>1. CASE Main
    <2>1. CASE KillGroup
      <3>1. broker' = "gone" /\ queue' = <<>> /\ \A c \in Calls : ~Serving(c)'
        BY <2>1 DEF KillGroup, Killed, Serving
      <3>2. Distinct(queue')
        BY <3>1 DEF Distinct
      <3> QED BY <3>1, <3>2 DEF BrokerInv
    <2>2. CASE ~KillGroup
      <3>1. UNCHANGED <<queue, server>>
        BY <1>1, <2>2, MainFrame
      <3>2. app' \in {"killed", "stopped"} => app = "killed" /\ UNCHANGED broker
        BY <1>1, <2>2 DEF Main, Start, Started, StartFails, Stop, JoinDialog, AppDies
      <3> QED BY <1>0, <3>1, <3>2 DEF BrokerInv, Serving
    <2> QED BY <2>1, <2>2
  <1>2. CASE Broker
    <2>1. UNCHANGED app
      BY <1>2, BrokerFrame
    <2>2. app \notin {"killed", "stopped"}
      BY <1>0, <1>2 DEF Broker, Boots, Accept, BrokerEnds, BrokerInv
    <2>3. Distinct(queue')
      <3>1. UNCHANGED queue \/ (queue # <<>> /\ queue' = Tail(queue))
        BY <1>2, BrokerFrame DEF Accept
      <3>2. queue \in Seq(Calls) /\ Distinct(queue)
        BY <1>0 DEF TypeOK, BrokerInv
      <3> QED BY <3>1, <3>2, TailDistinct
    <2> QED BY <2>1, <2>2, <2>3 DEF BrokerInv
  <1>3. ASSUME NEW c \in Calls, Caller(c)  PROVE BrokerInv'
    <2>1. UNCHANGED <<app, broker, server>>
      BY <1>3, CallerFrame DEF serverVars
    <2>2. UNCHANGED queue \/ (app = "on" /\ caller[c] = "opening" /\ queue' = Append(queue, c))
      BY <1>3 DEF Caller, SendChannel, WriteRequest, ReadHeader, ReadBody, appVars
    <2>3. app = "on" /\ caller[c] = "opening" => ~Occurs(queue, c)
      BY <1>0 DEF CallInv, CallOK, CallerOK, Queued
    <2>4. queue \in Seq(Calls) /\ Distinct(queue)
      BY <1>0 DEF TypeOK, BrokerInv
    <2>5. Distinct(queue')
      <3>1. CASE UNCHANGED queue
        BY <2>4, <3>1
      <3>2. CASE ~Occurs(queue, c) /\ queue' = Append(queue, c)
        BY <2>4, <3>2, AppendDistinct
      <3> QED BY <2>2, <2>3, <3>1, <3>2
    <2> QED BY <1>0, <2>1, <2>2, <2>5 DEF BrokerInv, Serving
  <1>4. ASSUME NEW c \in Calls, User(c) \/ Dialog(c) \/ Tool(c)  PROVE BrokerInv'
    <2>1. UNCHANGED <<app, broker, queue, server>>
      BY <1>4, UserFrame, DialogFrame, ToolFrame DEF appVars, serverVars
    <2> QED BY <1>0, <2>1 DEF BrokerInv, Serving
  <1>5. ASSUME NEW c \in Calls, Server(c)  PROVE BrokerInv'
    <2>1. UNCHANGED <<app, broker, queue>>
      BY <1>5, ServerFrame DEF appVars
    <2>2. Serving(c)
      BY <1>5 DEF Server, Refuse, RunTool, Take, Collect, WaitExpires, SendHeader, SendBody, ServerAlarm, Serving
    <2> QED BY <1>0, <2>1, <2>2 DEF BrokerInv
  <1> QED BY <1>1, <1>2, <1>3, <1>4, <1>5 DEF Next

LEMMA Invariance == Spec => []IInv
  <1>1. Init => IInv
    <2> SUFFICES ASSUME Init  PROVE IInv
      OBVIOUS
    <2>1. TypeOK
      <3>1. queue \in Seq(Calls) /\ joinable \in Calls \cup {None} /\ busy \in BOOLEAN
        <4>1. <<>> \in Seq(Calls)
          OBVIOUS
        <4>2. queue = <<>> /\ joinable = None /\ busy = FALSE
          BY DEF Init
        <4> QED BY <4>1, <4>2
      <3>2. /\ kind \in [Calls -> {"none", "curl", "notify", "dialog"}] /\ caller \in [Calls -> CallerStates]
            /\ answer \in [Calls -> {None} \cup Response] /\ asked \in [Calls -> BOOLEAN]
        BY DEF Init, CallerStates
      <3>3. /\ server \in [Calls -> {"none", "reading", "watching", "answering", "sending", "gone"}]
            /\ response \in [Calls -> {None} \cup Response]
            /\ header \in [Calls -> BOOLEAN] /\ body \in [Calls -> BOOLEAN]
        BY DEF Init
      <3>4. /\ tool \in [Calls -> Statuses \cup {"none", "running"}] /\ heirs \in [Calls -> BOOLEAN]
            /\ callbacks \in [Calls -> Nat]
        BY DEF Init
      <3>5. /\ produced \in [Calls -> Nat] /\ taken \in [Calls -> 0..Limit]
            /\ \A c \in Calls : produced[c] <= Output[c]
        BY LimitTyped, OutputTyped DEF Init
      <3> QED BY <3>1, <3>2, <3>3, <3>4, <3>5 DEF Init, TypeOK
    <2>2. CallInv
      <3>1. SUFFICES ASSUME NEW c \in Calls  PROVE CallOK(c)
        BY DEF CallInv
      <3>2. /\ caller[c] = "idle" /\ answer[c] = None /\ server[c] = "none" /\ ~header[c]
            /\ tool[c] = "none" /\ callbacks[c] = 0 /\ kind[c] = "none"
        BY DEF Init
      <3>3. ~Queued(c)
        BY DEF Init, Queued, Occurs
      <3> QED BY <3>2, <3>3 DEF CallOK, ServerOK, CallerOK, WaitsOK, Answered
    <2>3. DialogInv /\ BrokerInv
      BY DEF Init, DialogInv, BrokerInv, Active, Distinct, Serving
    <2> QED BY <2>1, <2>2, <2>3 DEF IInv
  <1>2. IInv /\ [Next]_vars => IInv'
    <2> SUFFICES ASSUME IInv, [Next]_vars  PROVE IInv'
      OBVIOUS
    <2>1. CASE Next
      BY <2>1, NextTyped, NextCalls, DialogKept, BrokerKept DEF IInv
    <2>2. CASE UNCHANGED vars
      <3>1. TypeOK'
        BY <2>2 DEF vars, IInv, TypeOK
      <3>2. CallInv'
        BY <2>2, SameOK DEF vars, IInv, CallInv, Same
      <3>3. DialogInv' /\ BrokerInv'
        BY <2>2 DEF vars, IInv, DialogInv, BrokerInv, Active, Distinct, Serving
      <3> QED BY <3>1, <3>2, <3>3 DEF IInv
    <2> QED BY <2>1, <2>2
  <1> QED BY <1>1, <1>2, PTL DEF Spec

-----------------------------------------------------------------------------

\* A caller that is told no error got all that the tool and its heirs wrote, and how the
\* tool ended (tool_broker.c, wn_tools_run and serve_request).
THEOREM WholeResults == Spec => []ResultIsWhole
  <1>1. IInv => ResultIsWhole
    BY DEF IInv, CallInv, CallOK, CallerOK, ServerOK, Answered, ResultIsWhole
  <1> QED BY <1>1, Invariance, PTL

\* While a dialog runs its tool, its thread waits for it; so a dialog that is picking is
\* the one dialog_running stands for.
LEMMA PickingIsActive ==
  ASSUME IInv, NEW c \in Calls, Picking(c), app # "dead"  PROVE Active(c)
  <1>1. CallOK(c) /\ TypeOK
    BY DEF IInv, CallInv
  <1>2. kind[c] = "dialog" /\ tool[c] = "running" => caller[c] \in {"writing", "waiting"}
    BY <1>1 DEF CallOK, ServerOK, WaitsOK
  <1> QED BY <1>2 DEF Picking, Active, CallerStates

\* One file dialog at a time, one callback for each, and nothing of the broker after
\* wn_tools_stop (tool_broker.c), in states of the right shape.
THEOREM ToolsSafe == Spec => []Inv
  <1>1. IInv => Inv
    <2> SUFFICES ASSUME IInv  PROVE Inv
      OBVIOUS
    <2>1. OneDialog
      BY PickingIsActive DEF IInv, DialogInv, OneDialog
    <2>2. CallsBackOnce
      BY DEF IInv, CallInv, CallOK, WaitsOK, CallsBackOnce
    <2>3. StopLeavesNothing
      <3>1. SUFFICES ASSUME app = "stopped"
                     PROVE  /\ broker \notin {"booting", "serving"}
                            /\ joinable = None /\ ~busy
                            /\ \A c \in Calls : ~Serving(c) /\ ~Picking(c) /\ tool[c] # "running"
        BY DEF StopLeavesNothing
      <3>2. broker = "gone" /\ \A c \in Calls : ~Serving(c)
        BY <3>1 DEF IInv, BrokerInv
      <3>3. joinable = None /\ ~busy /\ \A c \in Calls : ~Active(c)
        BY <3>1, NoneIsNew DEF IInv, DialogInv
      <3>4. \A c \in Calls : ~Picking(c)
        BY <3>1, <3>3, PickingIsActive
      <3>5. \A c \in Calls : tool[c] # "running"
        BY <3>2 DEF IInv, CallInv, CallOK, ServerOK, Serving
      <3> QED BY <3>2, <3>3, <3>4, <3>5
    <2> QED BY <2>1, <2>2, <2>3 DEF IInv, Inv
  <1> QED BY <1>1, Invariance, PTL
=============================================================================
