------------------------------ MODULE Decoder ------------------------------
(***************************************************************************)
(* Documents are decoded in helper processes (decoder_ipc.c, on POSIX).    *)
(* A call writes one request to a socket and reads one reply; a one-shot   *)
(* helper (image.c, pdf.c, archive.c, math_shim.cpp) then exits, a model   *)
(* session (fbx_helper.c) stays for further exchanges.  The streams are    *)
(* cut into items: a header, the page count of a PDF, pieces of payload.   *)
(***************************************************************************)
EXTENDS Integers, Sequences, FiniteSetsExt, DecoderAnswers

CONSTANTS
  Requests,    \* the calls the application makes
  FaultSets,   \* what may go wrong in a behaviour, one of these sets
  Heads,       \* the headers a helper may write by mistake
  Buffer,      \* items a socket holds in one direction
  MaxSequence  \* UINT32_MAX

ASSUME NoneIsNew == None \notin Requests /\ None \notin Heads /\ None \notin 1..PagesMax
ASSUME RequestsTyped == Requests \subseteq RequestSet /\ Heads \subseteq HeadSet
ASSUME Bounds == Buffer \in Nat \ {0} /\ MaxSequence \in Nat

Faults == {"crash", "repeat", "excess", "lie", "slow"}
ASSUME FaultsTyped == FaultSets \subseteq SUBSET Faults

VARIABLES
  faults,    \* what may go wrong in this behaviour
  app,       \* "idle", "transfer", "ended" (end of the reply), "stopping", "killing", "reaping"
  request,   \* the last call, None at first
  session,   \* "none", "active" or "dead"
  sequence,  \* of the last exchange of the session
  sent,      \* items of the request sent
  reply,     \* what has been received of the reply
  outcome,   \* of the last call: "none" yet, "ok" or "failed"
  socket,    \* the application's end of the socket is open
  shut,      \* it will send no more
  owned,     \* process->child is a process
  reaped,    \* process->reaped
  pid,       \* what that number is: "none", "running", "zombie" or "freed"
  code,      \* the exit status of the helper
  helper,    \* "header", "payload", "eof", "decoding" or "writing"
  handled,   \* the sequence number of the helper
  scene,     \* the helper has a model open
  todo,      \* pieces of the request it has to read
  out,       \* items it has to write
  inbox,     \* items on the way to the helper
  wire       \* items on the way to the application

vars == <<faults, app, request, session, sequence, sent, reply, outcome, socket, shut, owned,
          reaped, pid, code, helper, handled, scene, todo, out, inbox, wire>>

callVars == <<request, session, sequence, sent, reply, outcome>>
procVars == <<socket, shut, owned, reaped>>
helperVars == <<pid, code, helper, handled, scene, todo, out>>

Init ==
  /\ faults \in FaultSets
  /\ app = "idle" /\ request = None /\ session = "none" /\ sequence = 0
  /\ sent = 0 /\ reply = [head |-> None, pages |-> None, body |-> <<>>] /\ outcome = "none"
  /\ socket = FALSE /\ shut = FALSE /\ owned = FALSE /\ reaped = FALSE
  /\ pid = "none" /\ code = 0 /\ helper = "header" /\ handled = 0 /\ scene = FALSE
  /\ todo = 0 /\ out = <<>> /\ inbox = <<>> /\ wire = <<>>

\* One-shot helpers get the end of the request and end themselves.
Finish == request # None /\ request.kind # "model"

\* The number a reply must carry: replies of one-shot helpers have none, like the
\* first and only one.
Expected == IF Finish THEN 1 ELSE sequence

Total(r) == 1 + Pieces(r.size)

\* The header fits the request, the body is as long as the header says.
Complete ==
  /\ reply.head # None
  /\ reply.head.kind = "pdf" => reply.pages # None
  /\ Len(reply.body) = Pieces(BodySize(reply.head))

Eof == wire = <<>> /\ pid # "running"

-----------------------------------------------------------------------------
(* The application.                                                        *)

\* decoder_start: a socket, and a process that owns the other end.
Spawned ==
  /\ socket' = TRUE /\ shut' = FALSE /\ owned' = TRUE /\ reaped' = FALSE
  /\ pid' = "running" /\ code' = 0 /\ helper' = "header" /\ handled' = 0 /\ scene' = FALSE
  /\ todo' = 0 /\ out' = <<>> /\ inbox' = <<>> /\ wire' = <<>>

Nothing == UNCHANGED <<procVars, helperVars, inbox, wire>>

Ask(r) ==
  /\ request' = r
  /\ sent' = 0
  /\ reply' = [head |-> None, pages |-> None, body |-> <<>>]

\* A one-shot call: invalid arguments are refused, the helper may fail to start.
Decode(r) ==
  /\ app = "idle" /\ session = "none"
  /\ r.kind # "model"
  /\ Ask(r)
  /\ \/ /\ Valid(r)
        /\ app' = "transfer" /\ outcome' = "none"
        /\ Spawned
     \/ /\ Valid(r) => "slow" \in faults
        /\ app' = "idle" /\ outcome' = "failed"
        /\ Nothing
  /\ UNCHANGED <<faults, session, sequence>>

StartSession ==
  /\ app = "idle" /\ session = "none"
  /\ session' = "active" /\ sequence' = 0
  /\ request' = None /\ outcome' = "none"
  /\ Spawned
  /\ UNCHANGED <<faults, app, sent, reply>>

\* Every failure ends the session; a pending byte or end of the reply counts as one.
Exchange(r) ==
  /\ app = "idle" /\ session # "none"
  /\ r.kind = "model"
  /\ Ask(r)
  /\ LET fits == Valid(r) /\ sequence < MaxSequence IN
     /\ sequence' = IF session = "active" /\ fits THEN sequence + 1 ELSE sequence
     /\ \/ /\ session = "active" /\ fits /\ wire = <<>> /\ ~Eof
           /\ app' = "transfer" /\ outcome' = "none" /\ UNCHANGED session
        \/ /\ session = "active" /\ (fits => wire # <<>> \/ Eof)
           /\ app' = "stopping" /\ outcome' = "failed" /\ session' = "dead"
        \/ /\ session = "dead"
           /\ outcome' = "failed" /\ UNCHANGED <<app, session>>
  /\ UNCHANGED faults
  /\ Nothing

CloseSession ==
  /\ app = "idle" /\ session # "none"
  /\ session' = "none"
  /\ app' = IF session = "active" THEN "stopping" ELSE "idle"
  /\ UNCHANGED <<faults, request, sequence, sent, reply, outcome>>
  /\ Nothing

\* The transfer returns; a one-shot helper is stopped in any case.
Succeeds ==
  /\ outcome' = "ok"
  /\ app' = IF Finish THEN "stopping" ELSE "idle"
  /\ UNCHANGED session
FailsOpen ==  \* mutant: a failed exchange leaves its session active
  /\ outcome' = "failed"
  /\ app' = IF Finish THEN "stopping" ELSE "idle"
  /\ UNCHANGED session
Fails ==
  /\ outcome' = "failed"
  /\ app' = "stopping"
  /\ session' = IF Finish THEN session ELSE "dead"
Goes ==
  /\ UNCHANGED <<outcome, app, session>>

\* An exchange is over once the request is out, the reply complete and no byte more
\* is there; otherwise it fails.
EndExchange ==
  /\ app = "transfer" /\ ~Finish
  /\ sent = Total(request) /\ Complete
  /\ IF wire = <<>> /\ ~Eof THEN Succeeds ELSE Fails
  /\ UNCHANGED <<faults, request, sequence, sent, reply>>
  /\ Nothing

Busy == app = "transfer" /\ ~(~Finish /\ sent = Total(request) /\ Complete)

SendNoEnd ==  \* mutant: the end of the request is not sent
  /\ Busy
  /\ sent < Total(request)
  /\ \/ /\ pid = "running"
        /\ Len(inbox) < Buffer
        /\ inbox' = Append(inbox, IF sent = 0 THEN <<sequence, request>> ELSE <<>>)
        /\ sent' = sent + 1
        /\ UNCHANGED shut
        /\ Goes
     \/ /\ pid # "running"
        /\ Fails
        /\ UNCHANGED <<inbox, sent, shut>>
  /\ UNCHANGED <<faults, request, sequence, reply, socket, owned, reaped, helperVars, wire>>
Send ==
  /\ Busy
  /\ sent < Total(request)
  /\ \/ /\ pid = "running"
        /\ Len(inbox) < Buffer
        /\ inbox' = Append(inbox, IF sent = 0 THEN <<sequence, request>> ELSE <<>>)
        /\ sent' = sent + 1
        /\ shut' = (Finish /\ sent' = Total(request))
        /\ Goes
     \/ /\ pid # "running"
        /\ Fails
        /\ UNCHANGED <<inbox, sent, shut>>
  /\ UNCHANGED <<faults, request, sequence, reply, socket, owned, reaped, helperVars, wire>>

\* How many items may come next: the header, the page count, the rest of the body, and
\* one more to notice an excess.
Capacity ==
  IF reply.head = None \/ (reply.head.kind = "pdf" /\ reply.pages = None) \/ Complete
  THEN 1
  ELSE Pieces(BodySize(reply.head)) - Len(reply.body)

ReceiveHead ==
  /\ reply.head = None
  /\ reply' = [reply EXCEPT !.head = Head(wire).head]
  /\ wire' = Tail(wire)
  /\ IF Head(wire).head # None /\ HeaderFits(request, Expected, Head(wire).head) THEN Goes ELSE Fails

ReceivePages ==
  /\ reply.head # None /\ reply.head.kind = "pdf" /\ reply.pages = None
  /\ reply' = [reply EXCEPT !.pages = Head(wire).pages]
  /\ wire' = Tail(wire)
  /\ IF PagesFit(request, reply'.pages) THEN Goes ELSE Fails

ReceiveBody ==
  /\ reply.head # None /\ (reply.head.kind = "pdf" => reply.pages # None)
  /\ ~Complete
  /\ LET n == Min({Capacity, Len(wire)}) IN
     /\ reply' = [reply EXCEPT !.body = @ \o [i \in 1..n |-> wire[i].tag]]
     /\ wire' = SubSeq(wire, n + 1, Len(wire))
  /\ Goes

ReceiveExcess ==
  /\ Complete
  /\ wire' = Tail(wire)
  /\ Fails
  /\ UNCHANGED reply

Receive ==
  /\ Busy
  /\ wire # <<>>
  /\ ReceiveHead \/ ReceivePages \/ ReceiveBody \/ ReceiveExcess
  /\ UNCHANGED <<faults, request, sequence, sent, procVars, helperVars, inbox>>

\* Only a one-shot reply may end, and only when it is whole.
ReceiveEof ==
  /\ Busy
  /\ Eof
  /\ IF Finish /\ Complete /\ sent = Total(request)
     THEN app' = "ended" /\ UNCHANGED <<outcome, session>>
     ELSE Fails
  /\ UNCHANGED <<faults, request, sequence, sent, reply>>
  /\ Nothing

CollectUnseen ==  \* mutant: the collected process is forgotten
  /\ app = "ended"
  /\ pid = "zombie"
  /\ pid' = "freed"
  /\ IF code = 0 THEN Succeeds ELSE Fails
  /\ UNCHANGED <<faults, request, sequence, sent, reply, procVars, code, helper, handled, scene, todo, out, inbox, wire>>
\* waitpid of the ended helper: its number may name another process from now on.
Collect ==
  /\ app = "ended"
  /\ pid = "zombie"
  /\ pid' = "freed"
  /\ reaped' = TRUE
  /\ IF code = 0 THEN Succeeds ELSE Fails
  /\ UNCHANGED <<faults, request, sequence, sent, reply, socket, shut, owned,
                 code, helper, handled, scene, todo, out, inbox, wire>>

\* The deadline, a clock, poll or allocation that fails.
GiveUp ==
  /\ "slow" \in faults
  /\ app \in {"transfer", "ended"}
  /\ Fails
  /\ UNCHANGED <<faults, request, sequence, sent, reply>>
  /\ Nothing

\* decoder_stop closes the socket, which ends a session's helper by itself ...
Stop ==
  /\ app = "stopping"
  /\ socket' = FALSE
  /\ IF reaped
     THEN owned' = FALSE /\ app' = "idle"
     ELSE app' = "killing" /\ UNCHANGED owned
  /\ UNCHANGED <<faults, callVars, shut, reaped, helperVars, inbox, wire>>

\* ... and kills it, unless the process is known to be collected.
Kill ==
  /\ app = "killing"
  /\ app' = "reaping"
  /\ pid' = IF pid = "running" THEN "zombie" ELSE pid
  /\ code' = IF pid = "running" THEN 1 ELSE code
  /\ UNCHANGED <<faults, callVars, procVars, helper, handled, scene, todo, out, inbox, wire>>

Reap ==
  /\ app = "reaping"
  /\ pid' = "freed"
  /\ owned' = FALSE /\ app' = "idle"
  /\ UNCHANGED <<faults, callVars, socket, shut, reaped, code, helper, handled, scene, todo, out, inbox, wire>>

App ==
  \/ EndExchange \/ Send \/ Receive \/ ReceiveEof \/ Collect \/ GiveUp \/ Stop \/ Kill \/ Reap

-----------------------------------------------------------------------------
(* The helper.                                                             *)

Exit(status) ==
  /\ pid' = "zombie" /\ code' = status
  /\ UNCHANGED <<helper, handled, scene, todo, out>>

Proceeds(state) == helper' = state /\ UNCHANGED <<pid, code>>

\* Between two requests: the end of the stream is the end of a session.
ReadHeader ==
  /\ pid = "running" /\ helper = "header"
  /\ \/ /\ inbox # <<>>
        /\ LET seq == Head(inbox)[1]
               r == Head(inbox)[2]
               ok == r.kind = "model" => handled < MaxSequence /\ seq = handled + 1 /\ Accepts(r, scene)
           IN IF ok
              THEN /\ Proceeds("payload")
                   /\ handled' = handled + 1
                   /\ todo' = Pieces(r.size)
                   /\ UNCHANGED <<scene, out>>
              ELSE Exit(1)
        /\ inbox' = Tail(inbox)
     \/ /\ inbox = <<>> /\ (shut \/ ~socket)
        /\ Exit(IF Finish THEN 1 ELSE 0)
        /\ UNCHANGED inbox
  /\ UNCHANGED <<faults, app, callVars, procVars, wire>>

ReadPayload ==
  /\ pid = "running" /\ helper = "payload"
  /\ \/ /\ todo > 0 /\ inbox # <<>>
        /\ todo' = todo - 1 /\ inbox' = Tail(inbox)
        /\ UNCHANGED <<pid, code, helper, handled, scene, out>>
     \/ /\ todo = 0
        /\ Proceeds(IF request.kind = "model" THEN "decoding" ELSE "eof")
        /\ UNCHANGED <<handled, scene, todo, out, inbox>>
     \/ /\ todo > 0 /\ inbox = <<>> /\ (shut \/ ~socket)
        /\ Exit(1)
        /\ UNCHANGED inbox
  /\ UNCHANGED <<faults, app, callVars, procVars, wire>>

\* A one-shot helper decodes only a request that ends where it says.
ReadEof ==
  /\ pid = "running" /\ helper = "eof"
  /\ inbox = <<>> /\ (shut \/ ~socket)
  /\ Proceeds("decoding")
  /\ UNCHANGED <<faults, app, callVars, procVars, handled, scene, todo, out, inbox, wire>>

Item(head, pages) == [head |-> head, pages |-> pages, tag |-> handled]
Answer(head, pages) ==
  <<Item(head, None)>>
    \o (IF head.kind = "pdf" THEN <<Item(None, pages)>> ELSE <<>>)
    \o [i \in 1..Pieces(BodySize(head)) |-> Item(None, None)]

\* What the helper writes: the answer, nothing for a document it cannot read, and when
\* it fails, the answer twice, one item too much, or anything.
Written ==
  LET a == Answer(AnswerHead(request, handled), request.doc.pages)
      right == IF Decodes(request) THEN {a} ELSE {}
  IN right \cup (IF "repeat" \in faults THEN {x \o x : x \in right} ELSE {})
           \cup (IF "excess" \in faults THEN {Append(x, Item(None, None)) : x \in right} ELSE {})
           \cup (IF "lie" \in faults THEN {Answer(h, request.doc.pages) : h \in Heads} ELSE {})

Decoded ==
  /\ pid = "running" /\ helper = "decoding"
  /\ \/ /\ out' \in Written
        /\ Proceeds("writing")
        /\ scene' = (scene \/ request.kind = "model")
        /\ UNCHANGED <<handled, todo>>
     \/ /\ ~Decodes(request)
        /\ Exit(1)
  /\ UNCHANGED <<faults, app, callVars, procVars, inbox, wire>>

\* Standard output is flushed in parts.
Write ==
  /\ pid = "running" /\ helper = "writing"
  /\ out # <<>>
  /\ IF socket
     THEN \E k \in 1..Min({Len(out), Buffer - Len(wire)}) :
            /\ wire' = wire \o SubSeq(out, 1, k)
            /\ out' = SubSeq(out, k + 1, Len(out))
            /\ UNCHANGED <<pid, code, helper, handled, scene, todo>>
     ELSE Exit(1) /\ UNCHANGED wire
  /\ UNCHANGED <<faults, app, callVars, procVars, inbox>>

Flushed ==
  /\ pid = "running" /\ helper = "writing"
  /\ out = <<>>
  /\ IF request.kind = "model"
     THEN Proceeds("header") /\ UNCHANGED <<handled, scene, todo, out>>
     ELSE Exit(0)
  /\ UNCHANGED <<faults, app, callVars, procVars, inbox, wire>>

\* A limit, a fault in a library, the memory: it may end anywhere.
Crash ==
  /\ "crash" \in faults
  /\ pid = "running"
  /\ Exit(1)
  /\ UNCHANGED <<faults, app, callVars, procVars, inbox, wire>>

Helper == ReadHeader \/ ReadPayload \/ ReadEof \/ Decoded \/ Write \/ Flushed

-----------------------------------------------------------------------------

Next ==
  \/ \E r \in Requests : Decode(r) \/ Exchange(r)
  \/ StartSession \/ CloseSession
  \/ App \/ Helper \/ Crash

Spec == Init /\ [][Next]_vars

\* The application's loop never blocks longer than its deadline; only a helper in which
\* nothing goes wrong is sure to go on.
FairSpec ==
  /\ Spec
  /\ WF_vars(App)
  /\ WF_vars(GiveUp)
  /\ WF_vars(faults = {} /\ Helper)

-----------------------------------------------------------------------------

TypeOK ==
  /\ faults \in FaultSets
  /\ app \in {"idle", "transfer", "ended", "stopping", "killing", "reaping"}
  /\ request \in Requests \cup {None}
  /\ session \in {"none", "active", "dead"}
  /\ sequence \in 0..MaxSequence
  /\ sent \in Nat /\ (request # None => sent <= Total(request))
  /\ reply.body \in Seq(0..MaxSequence + 1)
  /\ outcome \in {"none", "ok", "failed"}
  /\ pid \in {"none", "running", "zombie", "freed"} /\ code \in {0, 1}
  /\ helper \in {"header", "payload", "eof", "decoding", "writing"}
  /\ Len(inbox) <= Buffer /\ Len(wire) <= Buffer

\* The process that decoder_stop kills and waits for is the helper: its number is not
\* free for another process before the application has collected it and knows.
OwnsPid == owned /\ ~reaped => pid \in {"running", "zombie"}

\* No helper, and no zombie of one, outlives its call or its session.
NothingLeft ==
  app = "idle" /\ session # "active" => ~socket /\ ~owned /\ pid \in {"none", "freed"}

\* A helper is killed as what it is and leaves nothing, in states of the right shape.
Inv == TypeOK /\ OwnsPid /\ NothingLeft

\* What a call returns was written in answer to it and is as long as its header says,
\* the header within what the call allows, whatever the helper wrote besides.
RepliesAreGenuine ==
  outcome = "ok" =>
    /\ Complete
    /\ Allowed(request, reply)
    /\ \A i \in 1..Len(reply.body) : reply.body[i] = Expected

\* Nothing is shown that a helper wrote before it crashed.
OnlyFromCleanExit == outcome = "ok" /\ Finish => code = 0 /\ pid \in {"zombie", "freed"}

\* An answer is the helper's own, complete, and of a helper that did not crash.
AnswersAreGenuine == RepliesAreGenuine /\ OnlyFromCleanExit

\* Between two exchanges of a live session nothing of an older one is on the way to
\* the helper, and both sides count alike.
SessionInStep ==
  app = "idle" /\ session = "active" =>
    inbox = <<>> /\ (pid = "running" => handled = sequence)

\* Calls return: no helper can keep its caller.
CallsReturn == app \in {"transfer", "ended", "stopping", "killing", "reaping"} ~> app = "idle"

\* A working helper's answer arrives: the two never wait for each other, though the
\* sockets hold less than a request or a reply.
WorkingHelperAnswers ==
  (faults = {} /\ app = "transfer" /\ sent = 0 /\ Decodes(request)
     /\ (request.kind = "model" => Accepts(request, scene) /\ request.doc.bytes <= request.cap))
    ~> (app = "idle" /\ outcome = "ok")

\* Every call returns, and with the answer when the helper works.
CallsEnd == CallsReturn /\ WorkingHelperAnswers
=============================================================================
