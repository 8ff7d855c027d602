------------------------- MODULE HelperBroker_proofs -------------------------
(***************************************************************************)
(* Proofs about the launcher of helper programs: every helper is watched,  *)
(* a stop leaves nothing behind, and a call through the launcher behaves   *)
(* like one execve, for any number of calls and slots.                     *)
(***************************************************************************)
EXTENDS HelperBroker, SequenceTheorems, TLAPS

Occurs(q, c)  == \E i \in 1..Len(q) : q[i] = c
Distinct(q)   == \A i, j \in 1..Len(q) : q[i] = q[j] => i = j

\* How far a controller k is tells what its helper h can be doing; a helper leaves
\* processes of its own (sp) only while its group is still there.
Stage(k, h, sp) ==
  /\ k \in {"none", "reading"} => h = "none"
  /\ k = "handshake" => h \in {"forked", "session", "failed", "running", "exited"}
  /\ k = "waiting" => h \in {"running", "exited"}
  /\ k = "gone" => h \in {"none", "gone", "collected"}
  /\ sp => h \in {"running", "exited"}

\* What the proxy p has done, the request r it wrote and the controller k agree; q tells
\* whether the channel still waits in the launch socket.
Contact(p, r, k, h, q) ==
  /\ p \in {"idle", "forked"} => k = "none" /\ r = None /\ ~q
  /\ p = "writing" => k \in {"none", "reading", "gone"} /\ r = None /\ h = "none"
  /\ p = "running" => k \in {"waiting", "gone"}
  /\ p = "failed" => k \in {"none", "gone"} /\ h # "collected" /\ ~q
  /\ p \in {"ended", "lost"} => k = "gone"
  /\ k = "handshake" => p \in {"asking", "killed"}
  /\ q => k = "none"

\* The replies ms a caller that listens will find are those its helper's life explains.
Told(p, k, h, ms) ==
  /\ p \in {"idle", "forked", "writing"} => ms = <<>>
  /\ p = "asking" /\ k \in {"none", "reading", "handshake"} => ms = <<>>
  /\ p = "asking" /\ k = "waiting" => ms = <<"started">>
  /\ p = "asking" /\ k = "gone" =>
       \/ ms \in {<<>>, <<"error">>} /\ h # "collected"
       \/ ms = <<"started">> /\ h = "gone"
       \/ ms = <<"started", "ended">> /\ h = "collected"
  /\ p = "running" /\ k = "waiting" => ms = <<>>
  /\ p = "running" /\ k = "gone" =>
       \/ ms = <<>> /\ h = "gone"
       \/ ms = <<"ended">> /\ h = "collected"

CallOK(c) ==
  /\ Stage(ctl[c], child[c], spawned[c])
  /\ Contact(proxy[c], request[c], ctl[c], child[c], Occurs(queue, c))
  /\ Told(proxy[c], ctl[c], child[c], replies[c])
CallInv == \A c \in Calls : CallOK(c)

\* A slot names at most one controller that has started, no two name the same, and
\* while the launcher waits for a call the slot it found free is free.
SlotInv ==
  /\ \A s, t \in Slots : slots[s] # None /\ slots[s] = slots[t] => s = t
  /\ \A s \in Slots : slots[s] # None => ctl[slots[s]] # "none"
  /\ \A c \in Calls : Live(c) => \E s \in Slots : slots[s] = c
  /\ launcher = "polling" /\ free # 0 => slots[free] = None

\* Only a launcher that serves has controllers; an application that has stopped has none.
LauncherInv ==
  /\ \A c \in Calls : Live(c) => launcher \in {"scanning", "polling", "terminating"}
  /\ app = "off" => launcher = "none"
  /\ Distinct(queue)

IInv == TypeOK /\ CallInv /\ SlotInv /\ LauncherInv
-----------------------------------------------------------------------------
(* Sequences without repetition.                                           *)

LEMMA AppendOccurs ==
  ASSUME NEW S, NEW q \in Seq(S), NEW e \in S, NEW d
  PROVE  Occurs(Append(q, e), d) <=> (Occurs(q, d) \/ d = e)
  <1>1. /\ Len(Append(q, e)) = Len(q) + 1
        /\ Append(q, e)[Len(q) + 1] = e
        /\ \A i \in 1..Len(q) : Append(q, e)[i] = q[i]
    OBVIOUS
  <1> QED BY <1>1 DEF Occurs

LEMMA AppendDistinct ==
  ASSUME NEW S, NEW q \in Seq(S), NEW e \in S, Distinct(q), ~Occurs(q, e)
  PROVE  Distinct(Append(q, e))
  <1>1. /\ Len(Append(q, e)) = Len(q) + 1
        /\ Append(q, e)[Len(q) + 1] = e
        /\ \A i \in 1..Len(q) : Append(q, e)[i] = q[i]
    OBVIOUS
  <1> QED BY <1>1 DEF Occurs, Distinct

LEMMA TailOccurs ==
  ASSUME NEW S, NEW q \in Seq(S), q # <<>>, Distinct(q), NEW d
  PROVE  /\ Occurs(Tail(q), d) <=> (Occurs(q, d) /\ d # Head(q))
         /\ Distinct(Tail(q))
         /\ Occurs(q, Head(q))
  <1>1. /\ Len(Tail(q)) = Len(q) - 1 /\ Head(q) = q[1] /\ Len(q) \in Nat \ {0}
        /\ \A i \in 1..Len(Tail(q)) : Tail(q)[i] = q[i + 1]
    OBVIOUS
  <1>2. ASSUME Occurs(q, d), d # Head(q)  PROVE Occurs(Tail(q), d)
    <2>1. PICK i \in 1..Len(q) : q[i] = d
      BY <1>2 DEF Occurs
    <2>2. i - 1 \in 1..Len(Tail(q)) /\ Tail(q)[i - 1] = d
      BY <1>1, <1>2, <2>1
    <2> QED BY <2>2 DEF Occurs
  <1>3. ASSUME Occurs(Tail(q), d)  PROVE Occurs(q, d) /\ d # Head(q)
    <2>1. PICK i \in 1..Len(Tail(q)) : Tail(q)[i] = d
      BY <1>3 DEF Occurs
    <2>2. i + 1 \in 1..Len(q) /\ 1 \in 1..Len(q) /\ q[i + 1] = d /\ i + 1 # 1
      BY <1>1, <2>1
    <2> QED BY <1>1, <2>2 DEF Occurs, Distinct
  <1>4. Distinct(Tail(q))
    BY <1>1 DEF Distinct
  <1>5. Occurs(q, Head(q))
    BY <1>1 DEF Occurs
  <1> QED BY <1>2, <1>3, <1>4, <1>5

-----------------------------------------------------------------------------
(* Types.                                                                  *)

LEMMA ApplicationTyped ==
  ASSUME TypeOK, Application  PROVE TypeOK'
  <1> USE DEF TypeOK, appVars, launchVars, proxyVars, helperVars, Slots
  <1>1. CASE Start
    <2>1. frozen' \subseteq Kinds
      BY <1>1, RequestsTyped DEF Start
    <2>2. starts' \in Nat /\ free' \in 0..JobCount
      BY <1>1, SomeSlots DEF Start
    <2>3. slots' \in [Slots -> Calls \cup {None}] /\ queue' \in Seq(Calls)
      BY <1>1 DEF Start
    <2>4. shut' \in BOOLEAN /\ ready' = "none" /\ app' = "starting" /\ launcher' = "booting"
      BY <1>1 DEF Start
    <2>5. UNCHANGED <<proxy, holds, request, replies, ctl, term, child, spawned>>
      BY <1>1 DEF Start
    <2> QED BY <2>1, <2>2, <2>3, <2>4, <2>5
  <1>2. CASE HangUp
    BY <1>2 DEF HangUp
  <1>3. CASE Started \/ Stopped \/ AppDies
    BY <1>3 DEF Started, Stopped, AppDies
  <1> QED BY <1>1, <1>2, <1>3 DEF Application, StartFails, Stop

LEMMA LauncherTyped ==
  ASSUME TypeOK, Launcher  PROVE TypeOK'
  <1> USE DEF TypeOK, appVars, launchVars, proxyVars, helperVars, Slots
  <1>1. CASE Boots \/ Woken \/ LauncherExits
    BY <1>1 DEF Boots, Woken, LauncherExits
  <1>2. CASE Scan
    BY <1>2 DEF Scan
  <1>3. CASE Accept
    <2>1. Tail(queue) \in Seq(Calls) /\ Head(queue) \in Calls
      BY <1>3 DEF Accept
    <2> QED BY <1>3, <2>1 DEF Accept
  <1>4. CASE Terminate
    BY <1>4 DEF Terminate
  <1> QED BY <1>1, <1>2, <1>3, <1>4 DEF Launcher

LEMMA ProxyTyped ==
  ASSUME TypeOK, NEW c \in Calls, Proxy(c)  PROVE TypeOK'
  <1> USE DEF appVars, launchVars, proxyVars, helperVars
  <1>1. UNCHANGED <<app, starts, frozen, ready, shut, launcher, slots, free, ctl, term, child, spawned>>
    BY DEF Proxy, Call, SendChannel, WriteRequest, ReadAnswer, ReadStatus, Cancel
  <1>2. queue' \in Seq(Calls)
    <2>1. queue \in Seq(Calls) /\ Append(queue, c) \in Seq(Calls)
      BY DEF TypeOK
    <2>2. queue' = queue \/ queue' = Append(queue, c)
      BY DEF Proxy, Call, SendChannel, WriteRequest, ReadAnswer, ReadStatus, Cancel
    <2> QED BY <2>1, <2>2
  <1>3. proxy' \in [Calls -> ProxyStates]
    <2>1. proxy' = [proxy EXCEPT ![c] = proxy'[c]] /\ proxy'[c] \in ProxyStates
      BY DEF Proxy, Call, SendChannel, WriteRequest, ReadAnswer, ReadStatus, Cancel, TypeOK, ProxyStates
    <2> QED BY <2>1 DEF TypeOK
  <1>4. holds' \in [Calls -> BOOLEAN]
    BY DEF Proxy, Call, SendChannel, WriteRequest, ReadAnswer, ReadStatus, Cancel, TypeOK
  <1>5. request' \in [Calls -> Requests \cup {None}]
    BY DEF Proxy, Call, SendChannel, WriteRequest, ReadAnswer, ReadStatus, Cancel, TypeOK
  <1>6. replies' \in [Calls -> Seq({"error", "started", "ended"})]
    <2>1. replies' = replies \/ (replies[c] # <<>> /\ replies' = [replies EXCEPT ![c] = Tail(@)])
      BY DEF Proxy, Call, SendChannel, WriteRequest, ReadAnswer, ReadStatus, Cancel
    <2>2. replies[c] # <<>> => Tail(replies[c]) \in Seq({"error", "started", "ended"})
      BY DEF TypeOK
    <2> QED BY <2>1, <2>2 DEF TypeOK
  <1> QED BY <1>1, <1>2, <1>3, <1>4, <1>5, <1>6 DEF TypeOK

LEMMA LeaveTyped ==
  ASSUME TypeOK, NEW c \in Calls, NEW answer \in Seq({"error", "started", "ended"}),
         Leave(c, answer), child' \in [Calls -> HelperStates], spawned' \in [Calls -> BOOLEAN]
  PROVE  TypeOK'
  <1>1. replies[c] \o answer \in Seq({"error", "started", "ended"})
    BY DEF TypeOK
  <1> QED BY <1>1 DEF Leave, TypeOK, appVars, launchVars, proxyVars, helperVars

LEMMA ControllerTyped ==
  ASSUME TypeOK, NEW c \in Calls, Controller(c)  PROVE TypeOK'
  <1>0. {<<>>, <<"error">>, <<"ended">>} \subseteq Seq({"error", "started", "ended"})
    OBVIOUS
  <1>1. CASE ForkHelper(c)
    BY <1>1 DEF ForkHelper, TypeOK, appVars, launchVars, proxyVars, helperVars, HelperStates
  <1>2. CASE Refuse(c) \/ GiveUp(c)
    BY <1>0, <1>2, LeaveTyped DEF Refuse, GiveUp, TypeOK, helperVars
  <1>3. CASE Acknowledge(c)
    <2>1. Append(replies[c], "started") \in Seq({"error", "started", "ended"})
      BY DEF TypeOK
    <2> QED BY <1>3, <2>1 DEF Acknowledge, TypeOK, appVars, launchVars, proxyVars, helperVars
  <1>4. CASE ReportFailure(c) \/ Abandon(c) \/ Collect(c) \/ Revoke(c)
    <2>1. child' \in [Calls -> HelperStates] /\ spawned' \in [Calls -> BOOLEAN]
      BY <1>4 DEF ReportFailure, Abandon, Collect, Revoke, KillHelper, TypeOK, HelperStates
    <2>2. Leave(c, <<>>) \/ Leave(c, <<"error">>) \/ Leave(c, <<"ended">>)
      BY <1>4 DEF ReportFailure, Abandon, Collect, Revoke
    <2> QED BY <1>0, <2>1, <2>2, LeaveTyped
  <1> QED BY <1>1, <1>2, <1>3, <1>4 DEF Controller

LEMMA HelperTyped ==
  ASSUME TypeOK, NEW c \in Calls, Helper(c)  PROVE TypeOK'
  <1>1. UNCHANGED <<appVars, launchVars, proxyVars, replies, ctl, term>>
    BY DEF Helper, OpenSession, Execute, SpawnChild, HelperExits
  <1>2. child' \in [Calls -> HelperStates]
    BY DEF Helper, OpenSession, Execute, SpawnChild, HelperExits, TypeOK, HelperStates
  <1>3. spawned' \in [Calls -> BOOLEAN]
    BY DEF Helper, OpenSession, Execute, SpawnChild, HelperExits, TypeOK
  <1> QED BY <1>1, <1>2, <1>3 DEF TypeOK, appVars, launchVars, proxyVars

LEMMA NextTyped ==
  ASSUME TypeOK, [Next]_vars  PROVE TypeOK'
  <1>1. CASE UNCHANGED vars
    BY <1>1 DEF TypeOK, vars
  <1> QED BY <1>1, ApplicationTyped, LauncherTyped, ProxyTyped, ControllerTyped, HelperTyped DEF Next

-----------------------------------------------------------------------------
(* Calls.                                                                  *)

LEMMA ReplyWords ==
  /\ Append(<<>>, "started") = <<"started">>
  /\ <<"started">> \o <<"ended">> = <<"started", "ended">>
  /\ <<>> \o <<"ended">> = <<"ended">> /\ <<>> \o <<"error">> = <<"error">>
  /\ <<>> \o <<>> = <<>> /\ <<"started">> \o <<>> = <<"started">>
  /\ Head(<<"started">>) = "started" /\ Tail(<<"started">>) = <<>>
  /\ Head(<<"started", "ended">>) = "started" /\ Tail(<<"started", "ended">>) = <<"ended">>
  /\ Head(<<"error">>) = "error"
  /\ <<>> \notin {<<"started">>, <<"error">>, <<"ended">>, <<"started", "ended">>}
  <1>1. Append(<<>>, "started") = <<"started">>
    <2>1. <<>> \in Seq({"started"}) /\ "started" \in {"started"}
      OBVIOUS
    <2> QED BY <2>1
  <1>2. <<"started">> \o <<"ended">> = <<"started", "ended">>
    <2> DEFINE S == {"started", "ended"}
               t == <<"started">> \o <<"ended">>
    <2>1. <<"started">> \in Seq(S) /\ <<"ended">> \in Seq(S) /\ <<"started", "ended">> \in Seq(S)
      OBVIOUS
    <2>2. t \in Seq(S)
      BY <2>1
    <2>3. Len(t) = 2
      BY <2>1
    <2>4. t[1] = "started"
      BY <2>1
    <2>5. t[2] = "ended"
      BY <2>1
    <2>6. \A i \in 1..2 : t[i] = <<"started", "ended">>[i]
      BY <2>4, <2>5
    <2>7. Len(<<"started", "ended">>) = 2
      OBVIOUS
    <2> HIDE DEF S, t
    <2>8. t = <<"started", "ended">>
      BY <2>1, <2>2, <2>3, <2>6, <2>7, SeqEqual
    <2> QED BY <2>8 DEF t
  <1>3. <<>> \o <<"ended">> = <<"ended">> /\ <<>> \o <<"error">> = <<"error">>
    OBVIOUS
  <1>4. <<>> \o <<>> = <<>> /\ <<"started">> \o <<>> = <<"started">>
    OBVIOUS
  <1>5. Head(<<"started">>) = "started" /\ Tail(<<"started">>) = <<>>
    OBVIOUS
  <1>6. Head(<<"started", "ended">>) = "started" /\ Tail(<<"started", "ended">>) = <<"ended">>
    OBVIOUS
  <1>7. Head(<<"error">>) = "error"
    OBVIOUS
  <1>8. <<>> \notin {<<"started">>, <<"error">>, <<"ended">>, <<"started", "ended">>}
    OBVIOUS
  <1> QED BY <1>1, <1>2, <1>3, <1>4, <1>5, <1>6, <1>7, <1>8

\* The call d is as it was.
Same(d) ==
  /\ proxy'[d] = proxy[d] /\ request'[d] = request[d] /\ ctl'[d] = ctl[d] /\ child'[d] = child[d]
  /\ spawned'[d] = spawned[d] /\ replies'[d] = replies[d]
  /\ Occurs(queue', d) <=> Occurs(queue, d)

LEMMA SameOK ==
  ASSUME NEW d, CallOK(d), Same(d)  PROVE CallOK(d)'
  <1> USE DEF Same
  <1>1. Stage(ctl[d], child[d], spawned[d])'
    BY DEF CallOK, Stage
  <1>2. Contact(proxy[d], request[d], ctl[d], child[d], Occurs(queue, d))'
    BY DEF CallOK, Contact
  <1>3. Told(proxy[d], ctl[d], child[d], replies[d])'
    BY DEF CallOK, Told
  <1> QED BY <1>1, <1>2, <1>3 DEF CallOK

LEMMA OneCall ==
  ASSUME CallInv, NEW c \in Calls, \A d \in Calls \ {c} : Same(d), CallOK(c)'
  PROVE  CallInv'
  BY SameOK DEF CallInv

LEMMA NoCall ==
  ASSUME CallInv, UNCHANGED <<proxy, request, ctl, child, spawned, replies, queue>>
  PROVE  CallInv'
  BY SameOK DEF CallInv, Same

LEMMA ApplicationCalls ==
  ASSUME IInv, Application  PROVE CallInv'
  <1> USE DEF IInv, appVars, launchVars, proxyVars, helperVars
  <1>1. CASE Start
    <2>1. SUFFICES ASSUME NEW d \in Calls  PROVE CallOK(d)'
      BY DEF CallInv
    <2>2. CallOK(d) /\ ~Occurs(queue', d)
      BY <1>1 DEF Start, CallInv, Occurs
    <2>3. UNCHANGED <<proxy, request, ctl, child, spawned, replies>>
      BY <1>1 DEF Start
    <2> QED BY <2>2, <2>3 DEF CallOK, Contact, Stage, Told
  <1>2. CASE HangUp \/ Started \/ Stopped \/ AppDies
    BY <1>2, NoCall DEF HangUp, Started, Stopped, AppDies
  <1> QED BY <1>1, <1>2 DEF Application, StartFails, Stop

LEMMA LauncherCalls ==
  ASSUME IInv, Launcher  PROVE CallInv'
  <1> USE DEF IInv, appVars, launchVars, proxyVars, helperVars
  <1>1. CASE Boots \/ Scan \/ Woken \/ Terminate \/ LauncherExits
    BY <1>1, NoCall DEF Boots, Scan, Woken, Terminate, LauncherExits
  <1>2. CASE Accept
    <2>1. queue # <<>> /\ queue \in Seq(Calls) /\ Distinct(queue)
      BY <1>2 DEF Accept, TypeOK, LauncherInv
    <2>0. PICK c \in Calls : c = Head(queue)
      BY <2>1
    <2>2. /\ Occurs(queue, c) /\ ~Occurs(queue', c)
          /\ \A d \in Calls \ {c} : Occurs(queue', d) <=> Occurs(queue, d)
      BY <1>2, <2>0, <2>1, TailOccurs DEF Accept
    <2>3. /\ UNCHANGED <<proxy, request, child, spawned, replies>>
          /\ ctl' = ctl \/ ctl' = [ctl EXCEPT ![c] = "reading"]
      BY <1>2, <2>0 DEF Accept
    <2>4. \A d \in Calls \ {c} : Same(d)
      BY <2>2, <2>3 DEF Same, TypeOK
    <2>5. ctl'[c] \in {"none", "reading"} /\ ctl[c] = "none" /\ CallOK(c)
      BY <2>1, <2>2, <2>3 DEF TypeOK, CallInv, CallOK, Contact
    <2>6. CallOK(c)'
      <3>1. Stage(ctl[c], child[c], spawned[c])'
        BY <2>3, <2>5 DEF CallOK, Stage
      <3>2. Contact(proxy[c], request[c], ctl[c], child[c], Occurs(queue, c))'
        BY <2>2, <2>3, <2>5 DEF CallOK, Contact, Stage
      <3>3. Told(proxy[c], ctl[c], child[c], replies[c])'
        BY <2>2, <2>3, <2>5 DEF CallOK, Contact, Told
      <3> QED BY <3>1, <3>2, <3>3 DEF CallOK
    <2> QED BY <2>1, <2>4, <2>6, OneCall
  <1> QED BY <1>1, <1>2 DEF Launcher

\* A caller's step changes nothing of a controller or a helper, and its own call only.
LEMMA ProxyFrame ==
  ASSUME TypeOK, NEW c \in Calls, Proxy(c)
  PROVE  /\ UNCHANGED <<ctl, child, spawned>>
         /\ \A d \in Calls : Occurs(queue', d) <=> (Occurs(queue, d) \/ (queue' # queue /\ d = c))
         /\ \A d \in Calls \ {c} : Same(d)
  <1> USE DEF appVars, launchVars, proxyVars, helperVars
  <1>1. UNCHANGED <<ctl, child, spawned>>
    BY DEF Proxy, Call, SendChannel, WriteRequest, ReadAnswer, ReadStatus, Cancel
  <1>2. queue' = queue \/ (SendChannel(c) /\ queue' = Append(queue, c))
    BY DEF Proxy, Call, SendChannel, WriteRequest, ReadAnswer, ReadStatus, Cancel
  <1>3. \A d \in Calls : Occurs(queue', d) <=> (Occurs(queue, d) \/ (queue' # queue /\ d = c))
    <2>1. queue \in Seq(Calls)
      BY DEF TypeOK
    <2>2. Append(queue, c) # queue
      BY <2>1
    <2>3. \A d \in Calls : Occurs(Append(queue, c), d) <=> (Occurs(queue, d) \/ d = c)
      BY <2>1, AppendOccurs
    <2> QED BY <1>2, <2>2, <2>3
  <1>4. \A d \in Calls \ {c} :
          proxy'[d] = proxy[d] /\ request'[d] = request[d] /\ replies'[d] = replies[d]
    BY DEF Proxy, Call, SendChannel, WriteRequest, ReadAnswer, ReadStatus, Cancel, TypeOK
  <1> QED BY <1>1, <1>3, <1>4 DEF Same

LEMMA ProxyCalls ==
  ASSUME IInv, NEW c \in Calls, Proxy(c)  PROVE CallInv'
  <1> USE DEF IInv, appVars, launchVars, proxyVars, helperVars
  <1>1. TypeOK /\ CallOK(c)
    BY DEF CallInv
  <1>2. SUFFICES /\ \A d \in Calls \ {c} : Same(d)
                 /\ CallOK(c)'
    BY OneCall
  <1>3. UNCHANGED <<ctl, child, spawned>>
    BY <1>1, ProxyFrame
  <1>5. \A d \in Calls : Occurs(queue', d) <=> (Occurs(queue, d) \/ (queue' # queue /\ d = c))
    BY <1>1, ProxyFrame
  <1>6. \A d \in Calls \ {c} : Same(d)
    BY <1>1, ProxyFrame
  <1>7. CASE Call(c)
    <2>1. /\ proxy[c] = "idle" /\ proxy'[c] = "forked" /\ request'[c] = request[c]
          /\ replies'[c] = replies[c] /\ queue' = queue
      BY <1>1, <1>7 DEF Call, TypeOK
    <2> QED BY <1>1, <1>3, <1>6, <2>1 DEF CallOK, Stage, Contact, Told
  <1>8. CASE SendChannel(c)
    <2>1. /\ proxy[c] = "forked" /\ request'[c] = request[c] /\ replies'[c] = replies[c]
          /\ (proxy'[c] = "failed" /\ queue' = queue) \/ proxy'[c] = "writing"
      BY <1>1, <1>8 DEF SendChannel, TypeOK
    <2> QED BY <1>1, <1>3, <1>5, <1>6, <2>1 DEF CallOK, Stage, Contact, Told
  <1>9. CASE WriteRequest(c)
    <2>1. /\ proxy[c] = "writing" /\ replies'[c] = replies[c] /\ queue' = queue
          /\ \/ proxy'[c] = "failed" /\ Dropped(c) /\ request'[c] = request[c]
             \/ proxy'[c] = "asking" /\ ~Dropped(c)
      BY <1>1, <1>9 DEF WriteRequest, TypeOK
    <2> QED BY <1>1, <1>3, <1>6, <2>1 DEF CallOK, Stage, Contact, Told, Dropped, Live, Queued, Occurs
  <1>10. CASE ReadAnswer(c)
    <2>1. /\ proxy[c] = "asking" /\ request'[c] = request[c] /\ queue' = queue
          /\ \/ /\ replies[c] # <<>> /\ replies'[c] = Tail(replies[c])
                /\ proxy'[c] = IF Head(replies[c]) = "started" THEN "running" ELSE "failed"
             \/ /\ replies[c] = <<>> /\ Dropped(c)
                /\ replies'[c] = replies[c] /\ proxy'[c] = "failed"
      BY <1>1, <1>10 DEF ReadAnswer, TypeOK
    <2>2. Stage(ctl[c], child[c], spawned[c])'
      BY <1>1, <1>3 DEF CallOK, Stage
    <2>3. CASE replies[c] = <<>>
      <3>1. /\ proxy'[c] = "failed" /\ ctl[c] \in {"none", "gone"} /\ ~Occurs(queue, c)
            /\ child[c] # "collected"
        BY <1>1, <2>1, <2>3, ReplyWords DEF CallOK, Stage, Told, Dropped, Live, Queued, Occurs, TypeOK
      <3> QED BY <1>1, <1>3, <1>6, <2>1, <2>2, <3>1 DEF CallOK, Contact, Told
    <2>4. CASE replies[c] = <<"error">>
      <3>1. /\ proxy'[c] = "failed" /\ ctl[c] = "gone" /\ child[c] # "collected"
        BY <1>1, <2>1, <2>4, ReplyWords DEF CallOK, Contact, Told, TypeOK
      <3> QED BY <1>1, <1>3, <1>6, <2>1, <2>2, <3>1 DEF CallOK, Contact, Told
    <2>5. CASE replies[c] = <<"started">>
      <3>1. /\ proxy'[c] = "running" /\ replies'[c] = <<>>
            /\ ctl[c] = "waiting" \/ (ctl[c] = "gone" /\ child[c] = "gone")
        BY <1>1, <2>1, <2>5, ReplyWords DEF CallOK, Contact, Told, TypeOK
      <3> QED BY <1>1, <1>3, <1>6, <2>1, <2>2, <3>1 DEF CallOK, Contact, Told
    <2>6. CASE replies[c] = <<"started", "ended">>
      <3>1. /\ proxy'[c] = "running" /\ replies'[c] = <<"ended">>
            /\ ctl[c] = "gone" /\ child[c] = "collected"
        BY <1>1, <2>1, <2>6, ReplyWords DEF CallOK, Contact, Told, TypeOK
      <3> QED BY <1>1, <1>3, <1>6, <2>1, <2>2, <3>1 DEF CallOK, Contact, Told
    <2> QED BY <1>1, <2>1, <2>3, <2>4, <2>5, <2>6 DEF CallOK, Told, TypeOK
  <1>11. CASE ReadStatus(c)
    <2>1. /\ proxy[c] = "running" /\ request'[c] = request[c] /\ queue' = queue
          /\ \/ replies[c] # <<>> /\ proxy'[c] = "ended"
             \/ Dropped(c) /\ proxy'[c] = "lost"
      BY <1>1, <1>11 DEF ReadStatus, TypeOK
    <2>2. ctl[c] = "gone"
      BY <1>1, <2>1 DEF CallOK, Contact, Told, Dropped, Live
    <2> QED BY <1>1, <1>3, <1>6, <2>1, <2>2 DEF CallOK, Stage, Contact, Told
  <1>12. CASE Cancel(c)
    <2>1. /\ proxy'[c] = "killed" /\ request'[c] = request[c] /\ queue' = queue
          /\ replies'[c] = replies[c]
      BY <1>1, <1>12 DEF Cancel, TypeOK
    <2> QED BY <1>1, <1>3, <1>6, <2>1 DEF CallOK, Stage, Contact, Told
  <1> QED BY <1>7, <1>8, <1>9, <1>10, <1>11, <1>12 DEF Proxy

LEMMA ControllerFrame ==
  ASSUME TypeOK, NEW c \in Calls, Controller(c)
  PROVE  /\ UNCHANGED <<proxy, request, queue>>
         /\ \A d \in Calls \ {c} : Same(d)
  <1> USE DEF appVars, launchVars, proxyVars, helperVars
  <1>1. UNCHANGED <<proxy, request, queue>>
    BY DEF Controller, ForkHelper, Refuse, GiveUp, Acknowledge, ReportFailure, Abandon, Collect,
           Revoke, Leave
  <1>2. \A d \in Calls \ {c} : child'[d] = child[d] /\ spawned'[d] = spawned[d]
    BY DEF Controller, ForkHelper, Refuse, GiveUp, Acknowledge, ReportFailure, Abandon,
         Collect, Revoke, KillHelper, TypeOK
  <1>3. \A d \in Calls \ {c} : ctl'[d] = ctl[d] /\ replies'[d] = replies[d]
    BY DEF Controller, ForkHelper, Refuse, GiveUp, Acknowledge, ReportFailure, Abandon,
         Collect, Revoke, Leave, TypeOK
  <1> QED BY <1>1, <1>2, <1>3 DEF Same

LEMMA ControllerCalls ==
  ASSUME IInv, NEW c \in Calls, Controller(c)  PROVE CallInv'
  <1> USE DEF IInv, appVars, launchVars, proxyVars, helperVars
  <1>1. TypeOK /\ CallOK(c)
    BY DEF CallInv
  <1>2. UNCHANGED <<proxy, request, queue>>
    BY <1>1, ControllerFrame
  <1>3. \A d \in Calls \ {c} : Same(d)
    BY <1>1, ControllerFrame
  <1>4. SUFFICES CallOK(c)'
    BY <1>3, OneCall
  <1>5. CASE ForkHelper(c)
    <2>1. /\ ctl[c] = "reading" /\ ctl'[c] = "handshake" /\ child'[c] = "forked"
          /\ spawned'[c] = spawned[c] /\ replies'[c] = replies[c] /\ request[c] # None
      BY <1>1, <1>5 DEF ForkHelper, TypeOK
    <2>2. proxy[c] \in {"asking", "killed"} /\ ~Occurs(queue, c)
      BY <1>1, <2>1 DEF CallOK, Contact, TypeOK, ProxyStates
    <2> QED BY <1>1, <1>2, <2>1, <2>2 DEF CallOK, Stage, Contact, Told
  <1>6. CASE Refuse(c) \/ GiveUp(c)
    <2>1. /\ ctl[c] = "reading" /\ ctl'[c] = "gone" /\ child'[c] = child[c]
          /\ spawned'[c] = spawned[c]
          /\ \/ request[c] # None /\ (~Hung(c) => replies'[c] = replies[c] \o <<"error">>)
             \/ ~Hung(c) => replies'[c] = replies[c] \o <<>>
      BY <1>1, <1>6 DEF Refuse, GiveUp, Leave, TypeOK
    <2>2. ~Occurs(queue, c) /\ child[c] = "none" /\ ~spawned[c]
      BY <1>1, <2>1 DEF CallOK, Stage, Contact, TypeOK
    <2>3. /\ proxy[c] \in {"writing", "asking", "killed"}
          /\ proxy[c] = "writing" => request[c] = None
          /\ proxy[c] \in {"writing", "asking"} => ~Hung(c) /\ replies[c] = <<>>
      BY <1>1, <2>1 DEF CallOK, Contact, Told, Hung, TypeOK, ProxyStates
    <2>4. \/ proxy[c] = "killed"
          \/ replies'[c] = <<>>
          \/ proxy[c] = "asking" /\ replies'[c] = <<"error">>
      BY <2>1, <2>3, ReplyWords
    <2> QED BY <1>1, <1>2, <2>1, <2>2, <2>3, <2>4 DEF CallOK, Stage, Contact, Told
  <1>7. CASE Acknowledge(c)
    <2>1. /\ ctl[c] = "handshake" /\ ctl'[c] = "waiting" /\ child[c] \in {"running", "exited"}
          /\ child'[c] = child[c] /\ spawned'[c] = spawned[c] /\ ~Hung(c)
          /\ replies'[c] = Append(replies[c], "started")
      BY <1>1, <1>7 DEF Acknowledge, TypeOK
    <2>2. proxy[c] = "asking" /\ replies'[c] = <<"started">> /\ ~Occurs(queue, c)
      BY <1>1, <2>1, ReplyWords DEF CallOK, Contact, Told, Hung
    <2> QED BY <1>1, <1>2, <2>1, <2>2 DEF CallOK, Stage, Contact, Told
  <1>8. CASE ReportFailure(c) \/ Abandon(c)
    <2>1. /\ ctl[c] = "handshake" /\ ctl'[c] = "gone" /\ child'[c] = "gone" /\ ~spawned'[c]
          /\ ~Hung(c) => replies'[c] \in {replies[c] \o <<"error">>, replies[c] \o <<>>}
      BY <1>1, <1>8 DEF ReportFailure, Abandon, KillHelper, Leave, TypeOK
    <2>2. proxy[c] \in {"asking", "killed"} /\ ~Occurs(queue, c)
      BY <1>1, <2>1 DEF CallOK, Contact
    <2>3. proxy[c] = "asking" => replies'[c] \in {<<>>, <<"error">>}
      BY <1>1, <2>1, ReplyWords DEF CallOK, Told, Hung
    <2> QED BY <1>1, <1>2, <2>1, <2>2, <2>3 DEF CallOK, Stage, Contact, Told
  <1>9. CASE Collect(c) \/ Revoke(c)
    <2>1. /\ ctl[c] = "waiting" /\ ctl'[c] = "gone" /\ ~spawned'[c]
          /\ \/ child'[c] = "gone" /\ (~Hung(c) => replies'[c] = replies[c] \o <<>>)
             \/ child'[c] = "collected" /\ (~Hung(c) => replies'[c] = replies[c] \o <<"ended">>)
      BY <1>1, <1>9 DEF Collect, Revoke, KillHelper, Leave, TypeOK
    <2>2. proxy[c] \in {"asking", "running", "killed"} /\ ~Occurs(queue, c)
      BY <1>1, <2>1 DEF CallOK, Contact, TypeOK, ProxyStates
    <2>3. /\ proxy[c] = "asking" => replies[c] = <<"started">> /\ ~Hung(c)
          /\ proxy[c] = "running" => replies[c] = <<>> /\ ~Hung(c)
      BY <1>1, <2>1 DEF CallOK, Told, Hung
    <2>4. \/ proxy[c] = "killed"
          \/ /\ child'[c] = "gone"
             /\ replies'[c] = IF proxy[c] = "asking" THEN <<"started">> ELSE <<>>
          \/ /\ child'[c] = "collected"
             /\ replies'[c] = IF proxy[c] = "asking" THEN <<"started", "ended">> ELSE <<"ended">>
      BY <2>1, <2>2, <2>3, ReplyWords
    <2> QED BY <1>1, <1>2, <2>1, <2>2, <2>4 DEF CallOK, Stage, Contact, Told
  <1> QED BY <1>5, <1>6, <1>7, <1>8, <1>9 DEF Controller

LEMMA HelperCalls ==
  ASSUME IInv, NEW c \in Calls, Helper(c)  PROVE CallInv'
  <1> USE DEF IInv, appVars, launchVars, proxyVars, helperVars
  <1>1. TypeOK /\ CallOK(c)
    BY DEF CallInv
  <1>2. UNCHANGED <<proxy, request, queue, ctl, replies>>
    BY DEF Helper, OpenSession, Execute, SpawnChild, HelperExits
  <1>3. /\ \A d \in Calls \ {c} : Same(d)
        /\ \/ child[c] = "forked" /\ child'[c] \in {"session", "failed"} /\ spawned'[c] = spawned[c]
           \/ child[c] = "session" /\ child'[c] \in {"running", "failed"} /\ spawned'[c] = spawned[c]
           \/ child[c] = "running" /\ child'[c] = child[c]
           \/ child[c] = "running" /\ child'[c] = "exited"
    BY <1>1 DEF Helper, OpenSession, Execute, SpawnChild, HelperExits, TypeOK, Same
  <1>4. Stage(ctl[c], child[c], spawned[c])'
    BY <1>1, <1>2, <1>3 DEF CallOK, Stage
  <1>5. Contact(proxy[c], request[c], ctl[c], child[c], Occurs(queue, c))'
    BY <1>1, <1>2, <1>3 DEF CallOK, Stage, Contact
  <1>6. Told(proxy[c], ctl[c], child[c], replies[c])'
    BY <1>1, <1>2, <1>3 DEF CallOK, Stage, Told
  <1> QED BY <1>3, <1>4, <1>5, <1>6, OneCall DEF CallOK

-----------------------------------------------------------------------------
(* Slots and the launcher.                                                 *)

\* Controllers only move on, or start in the slot that was free.
LEMMA SlotsKept ==
  ASSUME TypeOK, SlotInv, UNCHANGED <<slots, free>>, launcher' = "polling" => launcher = "polling",
         \A d \in Calls : (ctl[d] # "none" => ctl'[d] # "none") /\ (Live(d)' => Live(d))
  PROVE  SlotInv'
  <1>1. \A s \in Slots : slots[s] # None => slots[s] \in Calls
    BY DEF TypeOK
  <1>2. \A s \in Slots : slots'[s] # None => ctl'[slots'[s]] # "none"
    BY <1>1 DEF SlotInv
  <1>3. \A c \in Calls : Live(c)' => \E s \in Slots : slots'[s] = c
    BY DEF SlotInv
  <1>4. launcher' = "polling" /\ free' # 0 => slots'[free'] = None
    BY DEF SlotInv
  <1>5. \A s, t \in Slots : slots'[s] # None /\ slots'[s] = slots'[t] => s = t
    BY DEF SlotInv
  <1> QED BY <1>2, <1>3, <1>4, <1>5 DEF SlotInv, Slots

LEMMA ApplicationSlots ==
  ASSUME IInv, Application  PROVE SlotInv' /\ LauncherInv'
  <1> USE DEF IInv, appVars, launchVars, proxyVars, helperVars
  <1>1. CASE Start
    <2>1. \A d \in Calls : ~Live(d)
      BY <1>1 DEF Start, LauncherInv
    <2>2. /\ \A d \in Calls : ~Live(d)'
          /\ \A s \in Slots : slots'[s] = None
          /\ launcher' = "booting" /\ app' = "starting" /\ queue' = <<>>
      BY <1>1, <2>1 DEF Start, Live
    <2> QED BY <2>2 DEF SlotInv, LauncherInv, Distinct, Slots
  <1>2. CASE HangUp \/ Started \/ AppDies
    <2>1. UNCHANGED <<slots, free, launcher, ctl, queue>> /\ app' # "off"
      BY <1>2 DEF HangUp, Started, AppDies
    <2>2. \A d \in Calls : Live(d)' <=> Live(d)
      BY <2>1 DEF Live
    <2> QED BY <2>1, <2>2, SlotsKept DEF LauncherInv, Distinct
  <1>3. CASE Stopped
    <2>1. /\ UNCHANGED <<slots, free, ctl, queue>>
          /\ launcher = "exited" /\ launcher' = "none"
      BY <1>3 DEF Stopped
    <2>2. \A d \in Calls : Live(d)' <=> Live(d)
      BY <2>1 DEF Live
    <2> QED BY <2>1, <2>2, SlotsKept DEF LauncherInv, Distinct
  <1> QED BY <1>1, <1>2, <1>3 DEF Application, StartFails, Stop

LEMMA LauncherSlots ==
  ASSUME IInv, Launcher  PROVE SlotInv' /\ LauncherInv'
  <1> USE DEF IInv, appVars, launchVars, proxyVars, helperVars
  <1>0. launcher \notin {"none", "exited"} /\ UNCHANGED app /\ app # "off"
    BY DEF Launcher, Boots, Scan, Woken, Accept, Terminate, LauncherExits, LauncherInv
  <1>1. CASE Boots \/ Woken \/ Terminate \/ LauncherExits
    <2>1. UNCHANGED <<slots, free, ctl, queue>> /\ launcher' # "polling"
      BY <1>1 DEF Boots, Woken, Terminate, LauncherExits
    <2>2. \A d \in Calls : Live(d)' <=> Live(d)
      BY <2>1 DEF Live
    <2>3. ASSUME NEW d \in Calls, Live(d)
          PROVE  launcher' \in {"scanning", "polling", "terminating"}
      <3>1. PICK s \in Slots : slots[s] = d
        BY <2>3 DEF SlotInv
      <3>2. ~LauncherExits
        BY <2>3, <3>1, NoneIsNew DEF LauncherExits, Live
      <3>3. ~Boots
        BY <2>3 DEF Boots, LauncherInv
      <3> QED BY <1>1, <3>2, <3>3 DEF Woken, Terminate
    <2> QED BY <1>0, <2>1, <2>2, <2>3, SlotsKept DEF LauncherInv, Distinct
  <1>2. CASE Scan
    <2>1. /\ UNCHANGED <<ctl, queue>> /\ launcher' = "polling"
          /\ \A s \in Slots : slots'[s] = IF slots[s] # None /\ ctl[slots[s]] = "gone" THEN None
                                         ELSE slots[s]
          /\ free' # 0 => slots'[free'] = None
      BY <1>2 DEF Scan
    <2>2. \A d \in Calls : Live(d)' <=> Live(d)
      BY <2>1 DEF Live
    <2>3. ASSUME NEW d \in Calls, Live(d)  PROVE \E s \in Slots : slots'[s] = d
      BY <2>1, <2>3 DEF SlotInv, Live
    <2>4. \A s \in Slots : slots'[s] # None => slots'[s] = slots[s] /\ ctl'[slots'[s]] # "none"
      BY <2>1 DEF SlotInv
    <2>5. \A s, t \in Slots : slots'[s] # None /\ slots'[s] = slots'[t] => s = t
      BY <2>4 DEF SlotInv
    <2>6. SlotInv'
      BY <2>1, <2>2, <2>3, <2>4, <2>5 DEF SlotInv, Slots
    <2> QED BY <1>0, <2>1, <2>2, <2>6 DEF LauncherInv, Distinct
  <1>3. CASE Accept
    <2>1. queue # <<>> /\ queue \in Seq(Calls) /\ Distinct(queue)
      BY <1>3 DEF Accept, TypeOK, LauncherInv
    <2>2. PICK c \in Calls : c = Head(queue)
      BY <2>1
    <2>3. Occurs(queue, c) /\ Distinct(queue')
      BY <1>3, <2>1, <2>2, TailOccurs DEF Accept
    <2>4. ctl[c] = "none" /\ \A s \in Slots : slots[s] # c
      BY <2>3, NoneIsNew DEF CallInv, CallOK, Contact, SlotInv
    <2>5. launcher = "polling" /\ launcher' = "scanning" /\ UNCHANGED free
      BY <1>3 DEF Accept
    <2>6. CASE UNCHANGED <<slots, ctl>>
      <3>1. \A d \in Calls : Live(d)' <=> Live(d)
        BY <2>6 DEF Live
      <3> QED BY <1>0, <2>3, <2>5, <2>6, <3>1, SlotsKept DEF LauncherInv
    <2>7. CASE /\ free # 0 /\ slots' = [slots EXCEPT ![free] = c]
               /\ ctl' = [ctl EXCEPT ![c] = "reading"]
      <3>1. free \in Slots /\ slots[free] = None
        BY <2>5, <2>7, SomeSlots DEF TypeOK, Slots, SlotInv
      <3>2. \A s \in Slots : slots'[s] = IF s = free THEN c ELSE slots[s]
        BY <2>7, <3>1 DEF TypeOK
      <3>3. \A d \in Calls : ctl'[d] = IF d = c THEN "reading" ELSE ctl[d]
        BY <2>7 DEF TypeOK
      <3>4. \A s, t \in Slots : slots'[s] # None /\ slots'[s] = slots'[t] => s = t
        BY <2>4, <3>2 DEF SlotInv
      <3>5. \A s \in Slots : slots'[s] # None => ctl'[slots'[s]] # "none"
        <4>1. ASSUME NEW s \in Slots, slots'[s] # None  PROVE ctl'[slots'[s]] # "none"
          <5>1. CASE s = free
            BY <3>2, <3>3, <5>1
          <5>2. CASE s # free
            <6>1. slots'[s] = slots[s] /\ slots[s] \in Calls /\ slots[s] # c
              BY <2>4, <3>2, <4>1, <5>2 DEF TypeOK
            <6> QED BY <3>3, <4>1, <6>1 DEF SlotInv
          <5> QED BY <5>1, <5>2
        <4> QED BY <4>1
      <3>6. ASSUME NEW d \in Calls, Live(d)'  PROVE \E s \in Slots : slots'[s] = d
        <4>1. CASE d = c
          BY <3>1, <3>2, <4>1
        <4>2. CASE d # c
          <5>1. PICK s \in Slots : slots[s] = d
            BY <3>3, <3>6, <4>2 DEF SlotInv, Live
          <5> QED BY <3>1, <3>2, <5>1, NoneIsNew
        <4> QED BY <4>1, <4>2
      <3>7. SlotInv'
        BY <2>5, <3>4, <3>5, <3>6 DEF SlotInv, Slots
      <3> QED BY <1>0, <2>3, <2>5, <3>7 DEF LauncherInv
    <2> QED BY <1>3, <2>2, <2>6, <2>7 DEF Accept
  <1> QED BY <1>1, <1>2, <1>3 DEF Launcher

LEMMA CallSlots ==
  ASSUME IInv, NEW c \in Calls, Proxy(c) \/ Controller(c) \/ Helper(c)
  PROVE  SlotInv' /\ LauncherInv'
  <1> USE DEF IInv, appVars, launchVars, proxyVars, helperVars
  <1>1. UNCHANGED <<slots, free, launcher, app>>
    BY DEF Proxy, Call, SendChannel, WriteRequest, ReadAnswer, ReadStatus, Cancel,
           Controller, ForkHelper, Refuse, GiveUp, Acknowledge, ReportFailure, Abandon, Collect,
           Revoke, Leave, Helper, OpenSession, Execute, SpawnChild, HelperExits
  <1>2. \A d \in Calls : (ctl[d] # "none" => ctl'[d] # "none") /\ (Live(d)' => Live(d))
    BY DEF Proxy, Call, SendChannel, WriteRequest, ReadAnswer, ReadStatus, Cancel,
           Controller, ForkHelper, Refuse, GiveUp, Acknowledge, ReportFailure, Abandon, Collect,
           Revoke, Leave, Helper, OpenSession, Execute, SpawnChild, HelperExits, Live, TypeOK
  <1>3. Distinct(queue')
    <2>1. queue' = queue \/ (proxy[c] = "forked" /\ queue' = Append(queue, c))
      BY DEF Proxy, Call, SendChannel, WriteRequest, ReadAnswer, ReadStatus, Cancel,
           Controller, ForkHelper, Refuse, GiveUp, Acknowledge, ReportFailure, Abandon, Collect,
           Revoke, Leave, Helper, OpenSession, Execute, SpawnChild, HelperExits
    <2>2. proxy[c] = "forked" => ~Occurs(queue, c)
      BY DEF CallInv, CallOK, Contact
    <2>3. queue \in Seq(Calls) /\ Distinct(queue)
      BY DEF TypeOK, LauncherInv
    <2> QED BY <2>1, <2>2, <2>3, AppendDistinct
  <1> QED BY <1>1, <1>2, <1>3, SlotsKept DEF LauncherInv

-----------------------------------------------------------------------------
(* The theorems.                                                           *)

\* The shape of calls, slots and launcher is kept by every step.
LEMMA Invariance == Spec => []IInv
  <1>1. Init => IInv
    <2> SUFFICES ASSUME Init  PROVE IInv
      OBVIOUS
    <2>1. TypeOK
      <3>1. starts \in Nat /\ free \in 0..JobCount /\ queue \in Seq(Calls) /\ frozen \subseteq Kinds
        BY SomeSlots DEF Init
      <3>2. slots \in [Slots -> Calls \cup {None}]
        BY DEF Init
      <3>3. /\ proxy \in [Calls -> ProxyStates] /\ holds \in [Calls -> BOOLEAN]
            /\ request \in [Calls -> Requests \cup {None}]
            /\ replies \in [Calls -> Seq({"error", "started", "ended"})]
            /\ ctl \in [Calls -> {"none", "reading", "handshake", "waiting", "gone"}]
        BY DEF Init, ProxyStates
      <3>4. /\ term \in [Calls -> BOOLEAN] /\ child \in [Calls -> HelperStates]
            /\ spawned \in [Calls -> BOOLEAN]
        BY DEF Init, HelperStates
      <3> QED BY <3>1, <3>2, <3>3, <3>4 DEF Init, TypeOK
    <2>2. CallInv
      BY DEF Init, CallInv, CallOK, Stage, Contact, Told, Occurs
    <2>3. SlotInv /\ LauncherInv
      BY DEF Init, SlotInv, LauncherInv, Live, Distinct, Slots
    <2> QED BY <2>1, <2>2, <2>3 DEF IInv
  <1>2. IInv /\ [Next]_vars => IInv'
    <2> SUFFICES ASSUME IInv, [Next]_vars  PROVE IInv'
      OBVIOUS
    <2>1. TypeOK'
      BY NextTyped DEF IInv
    <2>2. CASE UNCHANGED vars
      <3>1. CallInv'
        BY <2>2, NoCall DEF vars, IInv
      <3>2. SlotInv' /\ LauncherInv'
        BY <2>2, SlotsKept DEF vars, IInv, LauncherInv, Distinct, Live
      <3> QED BY <2>1, <3>1, <3>2 DEF IInv
    <2>3. CASE Next
      BY <2>1, <2>3, ApplicationCalls, LauncherCalls, ProxyCalls, ControllerCalls, HelperCalls,
         ApplicationSlots, LauncherSlots, CallSlots DEF Next, IInv
    <2> QED BY <2>2, <2>3
  <1> QED BY <1>1, <1>2, PTL DEF Spec

LEMMA Watched == IInv => EveryHelperIsWatched
  <1> SUFFICES ASSUME IInv, NEW c \in Calls
               PROVE  /\ Running(c) => Live(c)
                      /\ Live(c) => \E s \in Slots : slots[s] = c /\ \A q \in Slots \ {s} : slots[q] # c
    BY DEF EveryHelperIsWatched
  <1>1. Running(c) => Live(c)
    BY DEF IInv, TypeOK, CallInv, CallOK, Stage, Running, Live
  <1>2. Live(c) => \E s \in Slots : slots[s] = c /\ \A q \in Slots \ {s} : slots[q] # c
    BY NoneIsNew DEF IInv, SlotInv
  <1> QED BY <1>1, <1>2

\* No helper runs without a controller, and no controller without a slot of its own
\* (helper_broker.c, serve_request and wn_helpers_serve), in states of the right shape.
THEOREM HelpersAreWatched == Spec => []Inv
  <1>1. IInv => Inv
    BY Watched DEF Inv, IInv
  <1> QED BY <1>1, Invariance, PTL

\* Whatever was running, when wn_helpers_stop has returned no controller, no helper and
\* no process of a helper's group is left.
THEOREM StopIsClean == Spec => []StopLeavesNothing
  <1>1. IInv => StopLeavesNothing
    BY Watched DEF StopLeavesNothing, EveryHelperIsWatched, IInv, LauncherInv
  <1> QED BY <1>1, Invariance, PTL

-----------------------------------------------------------------------------
(* One execve.                                                             *)

\* What a step of the call c may do to the execve it stands for.
ExecStep(c) ==
  \/ Exec!Ask(c) \/ Exec!Execute(c) \/ Exec!Finish(c) \/ Exec!Collect(c) \/ Exec!Discard(c)
  \/ Exec!Fail(c) \/ Exec!Acknowledge(c) \/ Exec!Return(c) \/ Exec!Kill(c)

\* The caller's and the helper's part of the execve of a call in these states.
CallOf(p)         == IF p \in {"forked", "writing", "asking"} THEN "asked" ELSE p
HelperOf(p, k, h) ==
  IF h = "running" THEN "alive"
  ELSE IF h = "exited" THEN "ended"
  ELSE IF h = "collected" THEN "collected"
  ELSE IF h = "gone" \/ k = "gone" \/ p = "failed" THEN "gone"
  ELSE "none"

LEMMA Mapping ==
  /\ call = [c \in Calls |-> CallOf(proxy[c])]
  /\ helper = [c \in Calls |-> HelperOf(proxy[c], ctl[c], child[c])]
  BY DEF call, helper, CallOf, HelperOf

\* Steps that leave every proxy, controller and helper where it is.
LEMMA Unmapped ==
  ASSUME UNCHANGED <<proxy, ctl, child>>  PROVE UNCHANGED Exec!vars
  BY DEF Exec!vars, call, helper

LEMMA LauncherExecs ==
  ASSUME IInv, Application \/ Launcher  PROVE UNCHANGED Exec!vars
  <1> USE DEF IInv, appVars, launchVars, proxyVars, helperVars
  <1>1. CASE ~Accept
    BY <1>1, Unmapped DEF Application, Start, Started, StartFails, Stop, HangUp, Stopped, AppDies,
         Launcher, Boots, Scan, Woken, Terminate, LauncherExits
  <1>2. CASE Accept
    <2>1. queue # <<>> /\ queue \in Seq(Calls) /\ Distinct(queue)
      BY <1>2 DEF Accept, TypeOK, LauncherInv
    <2>2. PICK c \in Calls : c = Head(queue)
      BY <2>1
    <2>3. ctl[c] = "none" /\ proxy[c] # "failed"
      BY <2>1, <2>2, TailOccurs DEF CallInv, CallOK, Contact
    <2>4. UNCHANGED <<proxy, child>> /\ (ctl' = ctl \/ ctl' = [ctl EXCEPT ![c] = "reading"])
      BY <1>2, <2>2 DEF Accept
    <2>5. \A d \in Calls : (ctl'[d] = "gone") <=> (ctl[d] = "gone")
      BY <2>3, <2>4 DEF TypeOK
    <2> QED BY <2>4, <2>5 DEF Exec!vars, call, helper
  <1> QED BY <1>1, <1>2

\* A step of one call changes the call and the helper of that execve only.
LEMMA OneExec ==
  ASSUME TypeOK, NEW c \in Calls, \A d \in Calls \ {c} : Same(d)
  PROVE  /\ call' = [call EXCEPT ![c] = CallOf(proxy'[c])]
         /\ helper' = [helper EXCEPT ![c] = HelperOf(proxy'[c], ctl'[c], child'[c])]
  <1>1. \A d \in Calls \ {c} : /\ CallOf(proxy'[d]) = CallOf(proxy[d])
                              /\ HelperOf(proxy'[d], ctl'[d], child'[d]) = HelperOf(proxy[d], ctl[d], child[d])
    BY DEF Same
  <1>2. /\ call' = [d \in Calls |-> CallOf(proxy'[d])]
        /\ helper' = [d \in Calls |-> HelperOf(proxy'[d], ctl'[d], child'[d])]
    BY DEF call, helper, CallOf, HelperOf
  <1> QED BY <1>1, <1>2, Mapping

LEMMA CallUnchanged ==
  ASSUME TypeOK, NEW c \in Calls, \A d \in Calls \ {c} : Same(d),
         CallOf(proxy'[c]) = CallOf(proxy[c]),
         HelperOf(proxy'[c], ctl'[c], child'[c]) = HelperOf(proxy[c], ctl[c], child[c])
  PROVE  UNCHANGED Exec!vars
  BY OneExec, Mapping DEF Exec!vars

LEMMA HalfUnchanged ==
  ASSUME TypeOK, NEW c \in Calls, \A d \in Calls \ {c} : Same(d)
  PROVE  /\ CallOf(proxy'[c]) = CallOf(proxy[c]) => call' = call
         /\ HelperOf(proxy'[c], ctl'[c], child'[c]) = HelperOf(proxy[c], ctl[c], child[c]) => helper' = helper
  BY OneExec, Mapping

LEMMA ProxyExecs ==
  ASSUME IInv, NEW c \in Calls, Proxy(c)
  PROVE  ExecStep(c) \/ UNCHANGED Exec!vars
  <1> USE DEF IInv, appVars, launchVars, proxyVars, helperVars
  <1>1. TypeOK /\ CallOK(c) /\ UNCHANGED <<ctl, child>> /\ \A d \in Calls \ {c} : Same(d)
    BY ProxyFrame DEF CallInv
  <1>2. /\ call[c] = CallOf(proxy[c]) /\ helper[c] = HelperOf(proxy[c], ctl[c], child[c])
        /\ call' = [call EXCEPT ![c] = CallOf(proxy'[c])]
        /\ helper' = [helper EXCEPT ![c] = HelperOf(proxy'[c], ctl[c], child[c])]
    BY <1>1, Mapping, OneExec
  <1>3. /\ CallOf(proxy'[c]) = CallOf(proxy[c]) => call' = call
        /\ HelperOf(proxy'[c], ctl[c], child[c]) = HelperOf(proxy[c], ctl[c], child[c]) => helper' = helper
    BY <1>1, HalfUnchanged
  <1>4. CASE Call(c)
    <2>1. proxy[c] = "idle" /\ proxy'[c] = "forked"
      BY <1>1, <1>4 DEF Call, TypeOK
    <2>2. Exec!Ask(c)
      BY <1>2, <1>3, <2>1 DEF Exec!Ask, CallOf, HelperOf
    <2> QED BY <2>2 DEF ExecStep
  <1>5. ASSUME proxy[c] \in {"forked", "writing", "asking"}, proxy'[c] = "failed",
               child[c] \in {"none", "gone"}
        PROVE  ExecStep(c)
    <2>1. Exec!Fail(c)
      BY <1>2, <1>5 DEF Exec!Fail, CallOf, HelperOf
    <2> QED BY <2>1 DEF ExecStep
  <1>6. CASE SendChannel(c)
    <2>1. proxy[c] = "forked" /\ proxy'[c] \in {"writing", "failed"}
      BY <1>1, <1>6 DEF SendChannel, TypeOK
    <2>2. child[c] = "none"
      BY <1>1, <2>1 DEF CallOK, Contact, Stage
    <2>3. proxy'[c] = "writing" => UNCHANGED Exec!vars
      BY <1>3, <2>1 DEF Exec!vars, CallOf, HelperOf
    <2> QED BY <1>5, <2>1, <2>2, <2>3
  <1>7. CASE WriteRequest(c)
    <2>1. proxy[c] = "writing" /\ proxy'[c] \in {"asking", "failed"}
      BY <1>1, <1>7 DEF WriteRequest, TypeOK
    <2>2. child[c] = "none"
      BY <1>1, <2>1 DEF CallOK, Contact
    <2>3. proxy'[c] = "asking" => UNCHANGED Exec!vars
      BY <1>3, <2>1 DEF Exec!vars, CallOf, HelperOf
    <2> QED BY <1>5, <2>1, <2>2, <2>3
  <1>8. CASE ReadAnswer(c)
    <2>1. /\ proxy[c] = "asking"
          /\ \/ /\ replies[c] # <<>>
                /\ proxy'[c] = IF Head(replies[c]) = "started" THEN "running" ELSE "failed"
             \/ replies[c] = <<>> /\ Dropped(c) /\ proxy'[c] = "failed"
      BY <1>1, <1>8 DEF ReadAnswer, TypeOK
    <2>2. CASE replies[c] \in {<<>>, <<"error">>}
      <3>1. proxy'[c] = "failed" /\ child[c] \in {"none", "gone"}
        BY <1>1, <2>1, <2>2, ReplyWords DEF CallOK, Stage, Told, Dropped, Live, TypeOK
      <3> QED BY <1>5, <2>1, <3>1
    <2>3. CASE replies[c] \in {<<"started">>, <<"started", "ended">>}
      <3>1. proxy'[c] = "running" /\ child[c] \in {"running", "exited", "collected", "gone"}
        BY <1>1, <2>1, <2>3, ReplyWords DEF CallOK, Stage, Told, TypeOK
      <3>2. Exec!Acknowledge(c)
        BY <1>2, <1>3, <2>1, <3>1 DEF Exec!Acknowledge, CallOf, HelperOf
      <3> QED BY <3>2 DEF ExecStep
    <2> QED BY <1>1, <2>1, <2>2, <2>3 DEF CallOK, Told, TypeOK
  <1>9. CASE ReadStatus(c)
    <2>1. /\ proxy[c] = "running"
          /\ \/ replies[c] # <<>> /\ proxy'[c] = "ended"
             \/ replies[c] = <<>> /\ Dropped(c) /\ proxy'[c] = "lost"
      BY <1>1, <1>9 DEF ReadStatus, TypeOK
    <2>2. child[c] = IF replies[c] = <<>> THEN "gone" ELSE "collected"
      BY <1>1, <2>1, ReplyWords DEF CallOK, Contact, Told, Dropped, Live
    <2>3. Exec!Return(c)
      BY <1>2, <1>3, <2>1, <2>2 DEF Exec!Return, CallOf, HelperOf
    <2> QED BY <2>3 DEF ExecStep
  <1>10. CASE Cancel(c)
    <2>1. proxy[c] \in {"forked", "writing", "asking", "running"} /\ proxy'[c] = "killed"
      BY <1>1, <1>10 DEF Cancel, TypeOK
    <2>2. Exec!Kill(c)
      BY <1>2, <1>3, <2>1 DEF Exec!Kill, CallOf, HelperOf
    <2> QED BY <2>2 DEF ExecStep
  <1> QED BY <1>4, <1>6, <1>7, <1>8, <1>9, <1>10 DEF Proxy

LEMMA ControllerExecs ==
  ASSUME IInv, NEW c \in Calls, Controller(c)
  PROVE  ExecStep(c) \/ UNCHANGED Exec!vars
  <1> USE DEF IInv, appVars, launchVars, proxyVars, helperVars
  <1>1. TypeOK /\ CallOK(c) /\ UNCHANGED proxy /\ \A d \in Calls \ {c} : Same(d)
    BY ControllerFrame DEF CallInv
  <1>2. /\ call[c] = CallOf(proxy[c]) /\ helper[c] = HelperOf(proxy[c], ctl[c], child[c])
        /\ helper' = [helper EXCEPT ![c] = HelperOf(proxy[c], ctl'[c], child'[c])]
    BY <1>1, Mapping, OneExec
  <1>3. /\ call' = call
        /\ HelperOf(proxy[c], ctl'[c], child'[c]) = HelperOf(proxy[c], ctl[c], child[c]) => helper' = helper
    BY <1>1, HalfUnchanged
  <1>4. Live(c) /\ proxy[c] \notin {"idle", "failed"}
    BY <1>1 DEF Controller, ForkHelper, Refuse, GiveUp, Acknowledge, ReportFailure, Abandon, Collect,
           Revoke, Live, CallOK, Contact
  <1>5. ASSUME ctl'[c] = "gone", child'[c] = "gone" \/ child'[c] = child[c],
               child[c] \notin {"gone", "collected"}, child[c] = child'[c] => child[c] = "none"
        PROVE  ExecStep(c)
    <2>1. Exec!Discard(c)
      BY <1>2, <1>3, <1>4, <1>5 DEF Exec!Discard, CallOf, HelperOf, Live
    <2> QED BY <2>1 DEF ExecStep
  <1>6. CASE ForkHelper(c)
    <2>1. ctl[c] = "reading" /\ ctl'[c] = "handshake" /\ child'[c] = "forked"
      BY <1>1, <1>6 DEF ForkHelper, TypeOK
    <2>2. child[c] = "none"
      BY <1>1, <2>1 DEF CallOK, Stage
    <2> QED BY <1>3, <1>4, <2>1, <2>2 DEF Exec!vars, HelperOf
  <1>7. CASE Refuse(c) \/ GiveUp(c)
    <2>1. ctl[c] = "reading" /\ ctl'[c] = "gone" /\ child'[c] = child[c]
      BY <1>1, <1>7 DEF Refuse, GiveUp, Leave, TypeOK
    <2>2. child[c] = "none"
      BY <1>1, <2>1 DEF CallOK, Stage
    <2> QED BY <1>5, <2>1, <2>2
  <1>8. CASE Acknowledge(c)
    <2>1. ctl[c] = "handshake" /\ ctl'[c] = "waiting" /\ child'[c] = child[c]
      BY <1>1, <1>8 DEF Acknowledge, TypeOK
    <2> QED BY <1>3, <2>1 DEF Exec!vars, HelperOf
  <1>9. CASE ReportFailure(c) \/ Abandon(c) \/ Revoke(c)
    <2>1. ctl[c] \in {"handshake", "waiting"} /\ ctl'[c] = "gone" /\ child'[c] = "gone"
      BY <1>1, <1>9 DEF ReportFailure, Abandon, Revoke, KillHelper, Leave, TypeOK
    <2>2. child[c] \notin {"none", "gone", "collected"}
      BY <1>1, <2>1 DEF CallOK, Stage
    <2> QED BY <1>5, <2>1, <2>2
  <1>10. CASE Collect(c)
    <2>1. child[c] = "exited" /\ child'[c] = "collected"
      BY <1>1, <1>10 DEF Collect, KillHelper, TypeOK
    <2>2. Exec!Collect(c)
      BY <1>2, <1>3, <2>1 DEF Exec!Collect, HelperOf
    <2> QED BY <2>2 DEF ExecStep
  <1> QED BY <1>6, <1>7, <1>8, <1>9, <1>10 DEF Controller

LEMMA HelperFrame ==
  ASSUME TypeOK, NEW c \in Calls, Helper(c)
  PROVE  /\ UNCHANGED <<proxy, request, queue, ctl, replies>>
         /\ \A d \in Calls \ {c} : Same(d)
         /\ \/ child[c] = "forked" /\ child'[c] \in {"session", "failed"}
            \/ child[c] = "session" /\ child'[c] \in {"running", "failed"}
            \/ child[c] = "running" /\ child'[c] \in {"running", "exited"}
  BY DEF Helper, OpenSession, Execute, SpawnChild, HelperExits, TypeOK, Same,
         appVars, launchVars, proxyVars

LEMMA HelperExecs ==
  ASSUME IInv, NEW c \in Calls, Helper(c)
  PROVE  ExecStep(c) \/ UNCHANGED Exec!vars
  <1>1. TypeOK /\ CallOK(c) /\ UNCHANGED <<proxy, ctl>> /\ \A d \in Calls \ {c} : Same(d)
    BY HelperFrame DEF CallInv, IInv
  <1>2. /\ call[c] = CallOf(proxy[c]) /\ helper[c] = HelperOf(proxy[c], ctl[c], child[c])
        /\ helper' = [helper EXCEPT ![c] = HelperOf(proxy[c], ctl[c], child'[c])]
    BY <1>1, Mapping, OneExec
  <1>3. /\ call' = call
        /\ HelperOf(proxy[c], ctl[c], child'[c]) = HelperOf(proxy[c], ctl[c], child[c]) => helper' = helper
    BY <1>1, HalfUnchanged
  <1>4. CASE child[c] = "session" /\ child'[c] = "running"
    <2>1. ctl[c] = "handshake" /\ proxy[c] \in {"asking", "killed"}
      BY <1>1, <1>4 DEF CallOK, Stage, Contact, TypeOK
    <2>2. Exec!Execute(c)
      BY <1>2, <1>3, <1>4, <2>1 DEF Exec!Execute, CallOf, HelperOf
    <2> QED BY <2>2 DEF ExecStep
  <1>5. CASE child[c] = "running" /\ child'[c] = "exited"
    <2>1. Exec!Finish(c)
      BY <1>2, <1>3, <1>5 DEF Exec!Finish, HelperOf
    <2> QED BY <2>1 DEF ExecStep
  <1>6. CASE \/ child[c] \in {"forked", "session"} /\ child'[c] \in {"session", "failed"}
             \/ child[c] = "running" /\ child'[c] = "running"
    BY <1>3, <1>6 DEF Exec!vars, HelperOf
  <1>7. TypeOK
    BY <1>1
  <1> QED BY <1>4, <1>5, <1>6, <1>7, HelperFrame

\* The proxy, the launcher and the controller together behave like one execve: the caller's
\* error pipe closes only on a real exec, a call that failed has no helper and gets none,
\* and a status is passed on only after the helper's group is gone (helper_broker.c).
THEOREM CallsAreExecs == Spec => ImplementsExec
  <1>1. Init => Exec!Init
    BY DEF Init, Exec!Init, call, helper
  <1>2. IInv /\ [Next]_vars => [Exec!Next]_Exec!vars
    <2> SUFFICES ASSUME IInv, [Next]_vars  PROVE Exec!Next \/ UNCHANGED Exec!vars
      OBVIOUS
    <2>1. CASE UNCHANGED vars
      BY <2>1, Unmapped DEF vars
    <2>2. CASE Application \/ Launcher
      BY <2>2, LauncherExecs
    <2>3. ASSUME NEW c \in Calls, Proxy(c) \/ Controller(c) \/ Helper(c)
          PROVE  Exec!Next \/ UNCHANGED Exec!vars
      <3>1. ExecStep(c) \/ UNCHANGED Exec!vars
        BY <2>3, ProxyExecs, ControllerExecs, HelperExecs
      <3> QED BY <3>1 DEF ExecStep, Exec!Next
    <2> QED BY <2>1, <2>2, <2>3 DEF Next
  <1> QED BY <1>1, <1>2, Invariance, PTL DEF Spec, Exec!Spec, ImplementsExec

=============================================================================
