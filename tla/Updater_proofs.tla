---------------------------- MODULE Updater_proofs ----------------------------
(***************************************************************************)
(* Proofs about the self-update: what the user is told is ready is         *)
(* verified, an image that works is always at the path, it is replaced     *)
(* only with consent and after the end of the application, and quitting    *)
(* without consent leaves no helper and nothing it did not try to remove.  *)
(***************************************************************************)
EXTENDS Updater, TLAPS

Contains(q, S) == \E i \in 1..Len(q) : q[i] \in S

Checked    == {"checked", "linked", "linksynced", "renamed", "installed"}
Installing == {"awaiting"} \cup Checked

\* An installation, asked for or going on, has a consent, which nobody takes back; and
\* it goes on only after the end of the application.
Consented ==
  /\ Contains(commands, {"A", "Q"}) \/ helper \in Installing => apply
  /\ apply => main \in {"quitting", "joining", "exited", "dead"}
  /\ helper \in Checked => main \in {"exited", "dead"}

\* The candidate is a verified later release on the disk; the old image is linked and
\* synced before the new one takes its place.
ImageInv ==
  /\ candidate # None => synced /\ Newer(Current, candidate)
  /\ helper \in Installing => candidate # None
  /\ helper \in {"checked", "linked", "linksynced"} => source = Current
  /\ helper \in {"linked", "linksynced"} => rollback = Current
  /\ helper = "linksynced" => "link" \notin unsynced
  /\ \/ source \in {Current, Other}
     \/ candidate # None /\ source = candidate /\ rollback = Current /\ "link" \notin unsynced

Truth == phase = "ready" \/ Contains(lines, {"R"}) => candidate # None

\* Without a consent a worker ends only after its helper did and the workspace was removed,
\* as far as it can be.
Clean ==
  /\ main = "off" => worker = "none" /\ helper = "none" /\ stage = "none"
  /\ worker = "staging" => helper = "none"
  /\ main = "exited" => worker \in {"none", "ended"}
  /\ worker \in {"none", "ended"} /\ main # "dead" /\ ~apply =>
       helper \in {"none", "gone"} /\ (helper = "gone" => collected) /\ stage # "there"

IInv == TypeOK /\ Consented /\ ImageInv /\ Truth /\ Clean
Msgs  == {"C", "0", "1", "A", "Q"}
Words == {"C", "I", "P", "R", "E", "X"}

World == Timer \/ HelperDies \/ Foreign \/ PowerFails

LEMMA NextSteps == Next => Main \/ Worker \/ Helper \/ World
  BY DEF Next, World

-----------------------------------------------------------------------------
(* Queues.                                                                 *)

LEMMA AppendContains ==
  ASSUME NEW S, NEW q \in Seq(S), NEW e \in S, NEW T
  PROVE  /\ Append(q, e) \in Seq(S) /\ Len(Append(q, e)) = Len(q) + 1
         /\ Contains(Append(q, e), T) <=> (Contains(q, T) \/ e \in T)
  <1>1. /\ Len(Append(q, e)) = Len(q) + 1 /\ Len(q) \in Nat
        /\ Append(q, e)[Len(q) + 1] = e
        /\ \A i \in 1..Len(q) : Append(q, e)[i] = q[i]
    OBVIOUS
  <1>2. Contains(Append(q, e), T) <=> (Contains(q, T) \/ e \in T)
    BY <1>1 DEF Contains
  <1> QED BY <1>1, <1>2

LEMMA TailContains ==
  ASSUME NEW S, NEW q \in Seq(S), q # <<>>, NEW T
  PROVE  /\ Tail(q) \in Seq(S) /\ Len(Tail(q)) = Len(q) - 1 /\ Head(q) \in S
         /\ Contains(Tail(q), T) => Contains(q, T)
         /\ Head(q) \in T => Contains(q, T)
  <1>1. /\ Len(Tail(q)) = Len(q) - 1 /\ Head(q) = q[1] /\ Len(q) \in Nat \ {0}
        /\ \A i \in 1..Len(Tail(q)) : Tail(q)[i] = q[i + 1]
    OBVIOUS
  <1>2. Contains(Tail(q), T) => Contains(q, T)
    <2>1. SUFFICES ASSUME NEW i \in 1..Len(Tail(q)), Tail(q)[i] \in T  PROVE Contains(q, T)
      BY DEF Contains
    <2>2. i + 1 \in 1..Len(q) /\ q[i + 1] \in T
      BY <1>1, <2>1
    <2> QED BY <2>2 DEF Contains
  <1>3. Head(q) \in T => Contains(q, T)
    BY <1>1 DEF Contains
  <1> QED BY <1>1, <1>2, <1>3

\* The socket holds what it held, and one more at its end ...
LEMMA SendsTyped ==
  ASSUME TypeOK, NEW c \in Msgs, Sends(c)
  PROVE  /\ commands' \in Seq(Msgs) /\ Len(commands') <= Buffer
         /\ \A T : Contains(commands', T) <=> (Contains(commands, T) \/ c \in T)
  <1>1. commands \in Seq(Msgs) /\ Len(commands) < Buffer /\ commands' = Append(commands, c)
    BY DEF Sends, TypeOK, Msgs
  <1>2. Len(commands) \in Nat /\ Buffer \in Nat
    BY <1>1, Bounds
  <1> QED BY <1>1, <1>2, AppendContains

LEMMA EmitTyped ==
  ASSUME TypeOK, NEW l \in Words, Emit(l)
  PROVE  /\ lines' \in Seq(Words) /\ Len(lines') <= Buffer
         /\ \A T : Contains(lines', T) => (Contains(lines, T) \/ l \in T)
  <1>1. lines \in Seq(Words) /\ Len(lines) <= Buffer
    BY DEF TypeOK, Words
  <1>2. CASE UNCHANGED lines
    BY <1>1, <1>2
  <1>3. CASE Len(lines) < Buffer /\ lines' = Append(lines, l)
    <2>1. Len(lines) \in Nat /\ Buffer \in Nat
      BY <1>1, Bounds
    <2> QED BY <1>1, <1>3, <2>1, AppendContains
  <1> QED BY <1>2, <1>3 DEF Emit

-----------------------------------------------------------------------------
(* What the main thread, the worker and the helper leave alone.            *)

LEMMA MainFrame ==
  ASSUME Main
  PROVE  UNCHANGED <<lines, stage, helper, collected, choiceVars, downloadVars, diskVars>>
  BY DEF Main, Start, DrawCheck, ClickCheck, Check, SendCheck, SetMode, Apply, Quit, Stop, Exit, AppDies,
     clientVars, socketVars, choiceVars, downloadVars, diskVars

LEMMA MainCommands ==
  ASSUME Main
  PROVE  \/ UNCHANGED commands
         \/ (SendCheck \/ SetMode) /\ \E c \in {"C", "0", "1"} : Sends(c)
         \/ (Apply \/ Quit) /\ \E c \in {"A", "Q"} : Sends(c) /\ apply' = TRUE /\ main' = "quitting"
  BY DEF Main, Start, DrawCheck, ClickCheck, Check, SendCheck, SetMode, Apply, Quit, Stop, Exit, AppDies,
     clientVars, socketVars, choiceVars, downloadVars, diskVars, CannotSend

LEMMA WorkerFrame ==
  ASSUME Worker
  PROVE  UNCHANGED <<main, stop, apply, commands, shut, checks, choiceVars, downloadVars, diskVars>>
  BY DEF Worker, Stage, ReadLine, ReadEnd, Fail, clientVars, socketVars, choiceVars, downloadVars, diskVars

LEMMA HelperFrame ==
  ASSUME Helper
  PROVE  UNCHANGED <<main, clientVars, worker, shut, checks, collected, power>>
  BY DEF Helper, Begin, BeginCheck, Reports, Downloaded, HungUp, Command, Verify, KeepOld, SyncOld, Replace,
     SyncNew, Finish, Throw, clientVars, socketVars, choiceVars, downloadVars, diskVars

LEMMA HelperLines ==
  ASSUME Helper
  PROVE  \/ UNCHANGED lines
         \/ \E l \in {"C", "I", "P", "E", "X"} : Emit(l)
         \/ Emit("R") /\ candidate' # None /\ Downloaded
  BY VersionsTyped DEF Helper, Begin, BeginCheck, Reports, Downloaded, HungUp, Command, Verify, KeepOld, SyncOld,
     Replace, SyncNew, Finish, Throw, clientVars, socketVars, choiceVars, downloadVars, diskVars, Versions

-----------------------------------------------------------------------------
(* Types.                                                                  *)

LEMMA MainTyped ==
  ASSUME TypeOK, Main  PROVE TypeOK'
  <1> USE DEF clientVars, socketVars, choiceVars, downloadVars, diskVars
  <1>1. commands' \in Seq(Msgs) /\ Len(commands') <= Buffer
    BY MainCommands, SendsTyped DEF TypeOK, Msgs
  <1>2. main' \in MainStates /\ shut' \in BOOLEAN
    BY DEF Main, Start, DrawCheck, ClickCheck, Check, SendCheck, SetMode, Apply, Quit, Stop, Exit, AppDies,
       TypeOK, MainStates
  <1>3. phase' \in Phases
    BY DEF Main, Start, DrawCheck, ClickCheck, Check, SendCheck, SetMode, Apply, Quit, Stop, Exit, AppDies,
       TypeOK, Phases
  <1>4. stop' \in BOOLEAN /\ apply' \in BOOLEAN
    BY DEF Main, Start, DrawCheck, ClickCheck, Check, SendCheck, SetMode, Apply, Quit, Stop, Exit, AppDies, TypeOK
  <1>5. worker' \in {"none", "staging", "reading", "failed", "ended"}
    BY DEF Main, Start, DrawCheck, ClickCheck, Check, SendCheck, SetMode, Apply, Quit, Stop, Exit, AppDies, TypeOK
  <1>6. checks' \in 0..Checks
    BY Bounds DEF Main, Start, DrawCheck, ClickCheck, Check, SendCheck, SetMode, Apply, Quit, Stop, Exit, AppDies,
       TypeOK
  <1> QED BY <1>1, <1>2, <1>3, <1>4, <1>5, <1>6, MainFrame DEF TypeOK, Msgs

LEMMA WorkerTyped ==
  ASSUME TypeOK, Worker  PROVE TypeOK'
  <1> USE DEF clientVars, socketVars, choiceVars, downloadVars, diskVars
  <1>1. phase' \in Phases
    BY DEF Worker, Stage, ReadLine, ReadEnd, Fail, TypeOK, Phases
  <1>2. worker' \in {"none", "staging", "reading", "failed", "ended"}
    BY DEF Worker, Stage, ReadLine, ReadEnd, Fail, TypeOK
  <1>3. lines' \in Seq(Words) /\ Len(lines') <= Buffer
    <2>1. lines \in Seq(Words) /\ Len(lines) <= Buffer /\ Len(lines) \in Nat /\ Buffer \in Nat
      BY Bounds DEF TypeOK, Words
    <2>2. lines' = lines \/ (lines # <<>> /\ lines' = Tail(lines))
      BY DEF Worker, Stage, ReadLine, ReadEnd, Fail
    <2> QED BY <2>1, <2>2, TailContains
  <1>4. stage' \in {"none", "there", "left"} /\ collected' \in BOOLEAN
    BY DEF Worker, Stage, ReadLine, ReadEnd, Fail, RemoveWorkspace, TypeOK
  <1>5. helper' \in HelperStates
    BY DEF Worker, Stage, ReadLine, ReadEnd, Fail, TypeOK, HelperStates
  <1> QED BY <1>1, <1>2, <1>3, <1>4, <1>5, WorkerFrame DEF TypeOK, Words

LEMMA HelperTyped ==
  ASSUME TypeOK, ImageInv, Helper  PROVE TypeOK'
  <1> USE DEF clientVars, socketVars, choiceVars, downloadVars, diskVars
  <1>1. lines' \in Seq(Words) /\ Len(lines') <= Buffer
    BY HelperLines, EmitTyped DEF TypeOK, Words
  <1>2. commands' \in Seq(Msgs) /\ Len(commands') <= Buffer
    <2>1. commands \in Seq(Msgs) /\ Len(commands) <= Buffer /\ Len(commands) \in Nat /\ Buffer \in Nat
      BY Bounds DEF TypeOK, Msgs
    <2>2. commands' = commands \/ (commands # <<>> /\ commands' = Tail(commands))
      BY DEF Helper, Begin, BeginCheck, Reports, Downloaded, HungUp, Command, Verify, KeepOld, SyncOld,
         Replace, SyncNew, Finish, Throw
    <2> QED BY <2>1, <2>2, TailContains
  <1>3. helper' \in HelperStates
    BY DEF Helper, Begin, BeginCheck, Reports, Downloaded, HungUp, Command, Verify, KeepOld, SyncOld,
       Replace, SyncNew, Finish, Throw, HelperStates, TypeOK
  <1>4. /\ automatic' \in BOOLEAN /\ requested' \in BOOLEAN /\ restart' \in BOOLEAN
        /\ synced' \in BOOLEAN
    BY Zenon DEF Helper, Begin, BeginCheck, Reports, Downloaded, HungUp, Command, Verify, KeepOld, SyncOld,
       Replace, SyncNew, Finish, Throw, TypeOK
  <1>8. stage' \in {"none", "there", "left"}
    BY DEF Helper, Begin, BeginCheck, Reports, Downloaded, HungUp, Command, Verify, KeepOld, SyncOld, Replace,
       SyncNew, Finish, Throw, RemoveWorkspace, TypeOK
  <1>5. candidate' \in Releases \cup {None}
    BY DEF Helper, Begin, BeginCheck, Reports, Downloaded, HungUp, Command, Verify, KeepOld, SyncOld,
       Replace, SyncNew, Finish, Throw, TypeOK
  <1>6. source' \in Versions \cup {Other, Torn}
    BY DEF Helper, Begin, BeginCheck, Reports, Downloaded, HungUp, Command, Verify, KeepOld, SyncOld,
       Replace, SyncNew, Finish, Throw, TypeOK, ImageInv, Versions, Installing, Checked
  <1>7. rollback' \in {Current, None} /\ unsynced' \subseteq {"link", "rename"}
    BY DEF Helper, Begin, BeginCheck, Reports, Downloaded, HungUp, Command, Verify, KeepOld, SyncOld,
       Replace, SyncNew, Finish, Throw, TypeOK, ImageInv
  <1> QED BY <1>1, <1>2, <1>3, <1>4, <1>5, <1>6, <1>7, <1>8, HelperFrame DEF TypeOK, Msgs, Words

LEMMA WorldTyped ==
  ASSUME TypeOK, World  PROVE TypeOK'
  <1> USE DEF clientVars, socketVars, choiceVars, downloadVars, diskVars
  <1>1. CASE Timer
    BY <1>1, Bounds DEF Timer, TypeOK
  <1>2. CASE HelperDies
    BY <1>2 DEF HelperDies, TypeOK, HelperStates
  <1>3. CASE Foreign
    BY <1>3 DEF Foreign, TypeOK
  <1>4. CASE PowerFails
    <2>1. /\ main' \in MainStates /\ worker' = "none" /\ helper' \in HelperStates /\ shut' = TRUE
          /\ unsynced' = {} /\ power' = FALSE
      BY <1>4 DEF PowerFails, MainStates, HelperStates
    <2>2. source' \in Versions \cup {Other, Torn} /\ rollback' \in {Current, None}
      BY <1>4 DEF PowerFails, TypeOK, Versions
    <2>3. UNCHANGED <<phase, stop, apply, commands, lines, checks, stage, collected, choiceVars, downloadVars>>
      BY <1>4 DEF PowerFails
    <2> QED BY <2>1, <2>2, <2>3 DEF TypeOK
  <1> QED BY <1>1, <1>2, <1>3, <1>4 DEF World

LEMMA NextTyped ==
  ASSUME IInv, Next  PROVE TypeOK'
  BY NextSteps, MainTyped, WorkerTyped, HelperTyped, WorldTyped DEF IInv

-----------------------------------------------------------------------------
(* Consent.                                                                *)

LEMMA ConsentKept ==
  ASSUME IInv, Next  PROVE Consented'
  <1> USE DEF clientVars, socketVars, choiceVars, downloadVars, diskVars
  <1>1. TypeOK /\ Consented /\ Clean
    BY DEF IInv
  <1>2. CASE Main
    <2>1. UNCHANGED helper
      BY <1>2, MainFrame
    <2>2. apply' => main' \in {"quitting", "joining", "exited", "dead"}
      BY <1>1, <1>2 DEF Main, Start, DrawCheck, ClickCheck, Check, SendCheck, SetMode, Apply, Quit, Stop, Exit,
         AppDies, Consented, AppRuns
    <2>3. helper \in Checked => main' \in {"exited", "dead"}
      BY <1>1, <1>2 DEF Main, Start, DrawCheck, ClickCheck, Check, SendCheck, SetMode, Apply, Quit, Stop, Exit,
         AppDies, Consented, AppRuns
    <2>4. apply => apply'
      BY <1>1, <1>2 DEF Main, Start, DrawCheck, ClickCheck, Check, SendCheck, SetMode, Apply, Quit, Stop, Exit,
         AppDies, Consented, TypeOK
    <2>5. Contains(commands', {"A", "Q"}) => Contains(commands, {"A", "Q"}) \/ apply'
      BY <1>1, <1>2, MainCommands, SendsTyped DEF Msgs
    <2> QED BY <1>1, <2>1, <2>2, <2>3, <2>4, <2>5 DEF Consented
  <1>3. CASE Worker
    <2>1. UNCHANGED <<main, apply, commands>>
      BY <1>3, WorkerFrame
    <2>2. helper' = helper \/ helper' \in {"starting", "gone"}
      BY <1>3 DEF Worker, Stage, ReadLine, ReadEnd, Fail
    <2> QED BY <1>1, <2>1, <2>2 DEF Consented, Installing, Checked
  <1>4. CASE Helper
    <2>1. UNCHANGED <<main, apply>>
      BY <1>4, HelperFrame
    <2>2. \/ UNCHANGED commands /\ (helper' \in Installing => helper \in Installing)
          \/ Command
      BY <1>4 DEF Helper, Begin, BeginCheck, Reports, Downloaded, HungUp, Verify, KeepOld, SyncOld, Replace,
         SyncNew, Finish, Throw, Installing, Checked
    <2>3. Command => Contains(commands, {"A", "Q"}) \/ (~Contains(commands', {"A", "Q"}) /\ helper' \notin Installing)
      <3>1. commands \in Seq(Msgs)
        BY <1>1 DEF TypeOK, Msgs
      <3> QED BY <3>1, TailContains DEF Command, Idle, Installing, Checked
    <2>4. helper' \in Checked => helper \in Checked \/ (helper = "awaiting" /\ ~AppRuns)
      BY <1>4 DEF Helper, Begin, BeginCheck, Reports, Downloaded, HungUp, Command, Idle, Verify, KeepOld, SyncOld,
         Replace, SyncNew, Finish, Throw, Checked
    <2>5. helper' \in Checked => main \in {"exited", "dead"}
      BY <1>1, <2>4 DEF Consented, Installing, AppRuns
    <2> QED BY <1>1, <2>1, <2>2, <2>3, <2>5 DEF Consented
  <1>5. CASE World
    <2>1. UNCHANGED <<apply, commands>> /\ (main' = main \/ main' = "dead") /\ (helper' = helper \/ helper' = "gone")
      BY <1>5 DEF World, Timer, HelperDies, Foreign, PowerFails
    <2> QED BY <1>1, <2>1 DEF Consented, Installing, Checked
  <1> QED BY <1>2, <1>3, <1>4, <1>5, NextSteps

-----------------------------------------------------------------------------
(* The image.                                                              *)

LEMMA NewerDiffers == \A v : Newer(Current, v) => v # Current
  <1> SUFFICES ASSUME Newer(Current, Current)  PROVE FALSE
    OBVIOUS
  <1>1. PICK i \in 1..4 : Current[i] > Current[i]
    BY DEF Newer
  <1>2. Current[i] \in Nat
    BY VersionsTyped DEF Versions
  <1> QED BY <1>1, <1>2

LEMMA ImageKept ==
  ASSUME IInv, Next  PROVE ImageInv'
  <1> USE DEF clientVars, socketVars, choiceVars, downloadVars, diskVars
  <1>1. TypeOK /\ ImageInv
    BY DEF IInv
  <1>2. CASE Main
    BY <1>1, <1>2, MainFrame DEF ImageInv
  <1>3. CASE Worker
    <2>1. UNCHANGED <<candidate, synced, source, rollback, unsynced>>
      BY <1>3, WorkerFrame
    <2>2. helper' = helper \/ helper' \in {"starting", "gone"}
      BY <1>3 DEF Worker, Stage, ReadLine, ReadEnd, Fail
    <2> QED BY <1>1, <2>1, <2>2 DEF ImageInv, Installing, Checked
  <1>4. CASE Helper
    <2>1. CASE Begin \/ BeginCheck \/ Reports \/ HungUp \/ Finish \/ Throw
      <3>1. UNCHANGED <<candidate, synced, source, rollback, unsynced>> /\ helper' \notin Installing
        BY <2>1 DEF Begin, BeginCheck, Reports, HungUp, Finish, Throw, Installing, Checked
      <3> QED BY <1>1, <3>1 DEF ImageInv, Installing, Checked
    <2>2. CASE Command
      <3>1. /\ UNCHANGED <<candidate, synced, source, rollback, unsynced>>
            /\ helper' \notin Checked /\ (helper' = "awaiting" => candidate # None)
        BY <2>2 DEF Command, Idle, Checked
      <3> QED BY <1>1, <3>1 DEF ImageInv, Installing, Checked
    <2>3. CASE Downloaded
      <3>1. /\ candidate' # None /\ Newer(Current, candidate') /\ synced' /\ source = Current
            /\ helper' = "loop" /\ UNCHANGED <<source, rollback, unsynced>>
        BY <2>3, VersionsTyped DEF Downloaded, Versions
      <3> QED BY <1>1, <3>1 DEF ImageInv, Installing, Checked, Newer
    <2>4. CASE Verify
      BY <1>1, <2>4 DEF Verify, ImageInv, Installing, Checked
    <2>5. CASE KeepOld
      BY <1>1, <2>5, NewerDiffers DEF KeepOld, ImageInv, Installing, Checked
    <2>6. CASE SyncOld
      BY <1>1, <2>6 DEF SyncOld, ImageInv, Installing, Checked
    <2>7. CASE Replace
      BY <1>1, <2>7 DEF Replace, ImageInv, Installing, Checked
    <2>8. CASE SyncNew
      BY <1>1, <2>8 DEF SyncNew, ImageInv, Installing, Checked
    <2> QED BY <1>4, <2>1, <2>2, <2>3, <2>4, <2>5, <2>6, <2>7, <2>8 DEF Helper
  <1>5. CASE World
    <2>1. CASE Timer \/ HelperDies
      <3>1. UNCHANGED <<candidate, synced, source, rollback, unsynced>> /\ (helper' = helper \/ helper' = "gone")
        BY <2>1 DEF Timer, HelperDies
      <3> QED BY <1>1, <3>1 DEF ImageInv, Installing, Checked
    <2>2. CASE Foreign
      BY <1>1, <2>2 DEF Foreign, ImageInv
    <2>3. CASE PowerFails
      <3>1. PICK lost \in SUBSET unsynced :
              /\ rollback' = IF "link" \in lost THEN None ELSE rollback
              /\ source' = IF "rename" \in lost THEN Current
                           ELSE IF source = candidate /\ ~synced THEN Torn ELSE source
        BY <2>3 DEF PowerFails
      <3>2. UNCHANGED <<candidate, synced>> /\ helper' = "gone" /\ unsynced' = {}
        BY <2>3 DEF PowerFails
      <3>3. source = candidate => candidate # None
        BY <1>1, VersionsTyped, MarkersDiffer DEF ImageInv, TypeOK, Versions
      <3> QED BY <1>1, <3>1, <3>2, <3>3 DEF ImageInv, Installing, Checked
    <2> QED BY <1>5, <2>1, <2>2, <2>3 DEF World
  <1> QED BY <1>2, <1>3, <1>4, <1>5, NextSteps

-----------------------------------------------------------------------------
(* What the user is told, and what is left.                                *)

LEMMA TruthKept ==
  ASSUME IInv, Next  PROVE Truth'
  <1> USE DEF clientVars, socketVars, choiceVars, downloadVars, diskVars
  <1>1. TypeOK /\ Truth
    BY DEF IInv
  <1>2. CASE Main
    <2>1. phase' = "ready" => phase = "ready"
      BY <1>2 DEF Main, Start, DrawCheck, ClickCheck, Check, SendCheck, SetMode, Apply, Quit, Stop, Exit, AppDies
    <2> QED BY <1>1, <1>2, <2>1, MainFrame DEF Truth
  <1>3. CASE Worker
    <2>1. UNCHANGED candidate
      BY <1>3, WorkerFrame
    <2>2. lines \in Seq(Words)
      BY <1>1 DEF TypeOK, Words
    <2>3. lines' = lines \/ (lines # <<>> /\ lines' = Tail(lines))
      BY <1>3 DEF Worker, Stage, ReadLine, ReadEnd, Fail
    <2>4. Contains(lines', {"R"}) => Contains(lines, {"R"})
      BY <2>2, <2>3, TailContains
    <2>5. phase' = "ready" => phase = "ready" \/ (lines # <<>> /\ Head(lines) = "R")
      <3>1. lines # <<>> => Head(lines) \in Words
        BY <2>2, TailContains
      <3> QED BY <1>1, <1>3, <3>1 DEF Worker, Stage, ReadLine, ReadEnd, Fail, Words
    <2>6. phase' = "ready" => phase = "ready" \/ Contains(lines, {"R"})
      BY <2>2, <2>5, TailContains
    <2> QED BY <1>1, <2>1, <2>4, <2>6 DEF Truth
  <1>4. CASE Helper
    <2>1. UNCHANGED phase
      BY <1>4, HelperFrame
    <2>2. candidate # None => candidate' # None
      BY <1>4, VersionsTyped DEF Helper, Begin, BeginCheck, Reports, Downloaded, HungUp, Command, Verify, KeepOld,
         SyncOld, Replace, SyncNew, Finish, Throw, Versions
    <2>3. Contains(lines', {"R"}) => Contains(lines, {"R"}) \/ candidate' # None
      <3>1. CASE UNCHANGED lines
        BY <3>1 DEF Contains
      <3>2. ASSUME NEW l \in {"C", "I", "P", "E", "X"}, Emit(l)
            PROVE  Contains(lines', {"R"}) => Contains(lines, {"R"})
        <4>1. l \in Words /\ l \notin {"R"}
          BY DEF Words
        <4> QED BY <1>1, <3>2, <4>1, EmitTyped
      <3> QED BY <1>4, <3>1, <3>2, HelperLines
    <2> QED BY <1>1, <2>1, <2>2, <2>3 DEF Truth
  <1>5. CASE World
    <2>1. UNCHANGED <<phase, lines, candidate>>
      BY <1>5 DEF World, Timer, HelperDies, Foreign, PowerFails
    <2> QED BY <1>1, <2>1 DEF Truth, Contains
  <1> QED BY <1>2, <1>3, <1>4, <1>5, NextSteps

LEMMA CleanKept ==
  ASSUME IInv, Next  PROVE Clean'
  <1> USE DEF clientVars, socketVars, choiceVars, downloadVars, diskVars
  <1>1. TypeOK /\ Clean /\ Consented
    BY DEF IInv
  <1>2. CASE Main
    <2>1. UNCHANGED <<stage, helper, collected>>
      BY <1>2, MainFrame
    <2>2. main' # "off" /\ main # "dead"
      BY <1>1, <1>2 DEF Main, Start, DrawCheck, ClickCheck, Check, SendCheck, SetMode, Apply, Quit, Stop, Exit,
         AppDies, AppRuns
    <2>5. main' = "exited" => worker' \in {"none", "ended"}
      BY <1>1, <1>2 DEF Main, Start, DrawCheck, ClickCheck, Check, SendCheck, SetMode, Apply, Quit, Stop, Exit,
         AppDies, AppRuns
    <2>3. \/ UNCHANGED worker
          \/ main = "off" /\ worker' \in {"none", "staging"}
          \/ main' = "dead" /\ worker' = "none"
      BY <1>2 DEF Main, Start, DrawCheck, ClickCheck, Check, SendCheck, SetMode, Apply, Quit, Stop, Exit, AppDies
    <2>4. apply => apply'
      BY <1>1, <1>2 DEF Main, Start, DrawCheck, ClickCheck, Check, SendCheck, SetMode, Apply, Quit, Stop, Exit,
         AppDies, Consented, TypeOK
    <2> QED BY <1>1, <2>1, <2>2, <2>3, <2>4, <2>5 DEF Clean
  <1>3. CASE Worker
    <2>1. UNCHANGED <<main, apply>> /\ main \notin {"off", "exited"}
      BY <1>1, <1>3, WorkerFrame DEF Clean, Worker, Stage, ReadLine, ReadEnd, Fail
    <2>2. CASE Stage \/ ReadEnd
      <3>1. worker' \notin {"none", "ended", "staging"}
        BY <2>2 DEF Stage, ReadEnd
      <3> QED BY <2>1, <3>1 DEF Clean
    <2>3. CASE ReadLine
      <3>1. /\ UNCHANGED <<stage, helper, collected>> /\ worker' \notin {"none", "staging"}
            /\ worker' = "ended" => apply
        BY <2>3 DEF ReadLine
      <3> QED BY <2>1, <3>1 DEF Clean
    <2>4. CASE Fail
      <3>1. /\ worker' = "ended" /\ stage' # "there" /\ helper' \in {"none", "gone"}
            /\ helper' = "gone" => collected'
        BY <2>4 DEF Fail, RemoveWorkspace, Alive
      <3> QED BY <2>1, <3>1 DEF Clean
    <2> QED BY <1>3, <2>2, <2>3, <2>4 DEF Worker
  <1>4. CASE Helper
    <2>1. UNCHANGED <<main, apply, worker, collected>>
      BY <1>4, HelperFrame
    <2>2. helper \notin {"none", "gone"}
      BY <1>4 DEF Helper, Begin, BeginCheck, Reports, Downloaded, HungUp, Command, Idle, Verify, KeepOld, SyncOld,
         Replace, SyncNew, Finish, Throw
    <2> QED BY <1>1, <2>1, <2>2 DEF Clean
  <1>5. CASE World
    <2>1. CASE Timer \/ Foreign
      <3>1. UNCHANGED <<main, apply, worker, collected, stage, helper>>
        BY <2>1 DEF Timer, Foreign
      <3> QED BY <1>1, <3>1 DEF Clean
    <2>2. CASE HelperDies
      BY <1>1, <2>2 DEF HelperDies, Alive, Clean
    <2>3. CASE PowerFails
      BY <1>1, <2>3 DEF PowerFails, Clean
    <2> QED BY <1>5, <2>1, <2>2, <2>3 DEF World
  <1> QED BY <1>2, <1>3, <1>4, <1>5, NextSteps

-----------------------------------------------------------------------------
(* The theorems.                                                           *)

LEMMA Invariance == Spec => []IInv
  <1>1. Init => IInv
    <2> SUFFICES ASSUME Init  PROVE IInv
      OBVIOUS
    <2>1. TypeOK
      <3>1. commands \in Seq(Msgs) /\ lines \in Seq(Words) /\ Len(commands) = 0 /\ Len(lines) = 0
        BY DEF Init
      <3>2. checks \in 0..Checks /\ 0 <= Buffer
        BY Bounds DEF Init
      <3>3. requested \in BOOLEAN /\ automatic \in BOOLEAN
        BY DEF Init
      <3> QED BY <3>1, <3>2, <3>3 DEF Init, TypeOK, MainStates, HelperStates, Phases, Versions, Msgs, Words
    <2>2. Consented /\ Truth /\ Clean
      BY DEF Init, Consented, Truth, Clean, Contains, Installing, Checked
    <2>3. ImageInv
      BY DEF Init, ImageInv, Installing, Checked
    <2> QED BY <2>1, <2>2, <2>3 DEF IInv
  <1>2. IInv /\ [Next]_vars => IInv'
    <2> SUFFICES ASSUME IInv, [Next]_vars  PROVE IInv'
      OBVIOUS
    <2>1. CASE Next
      BY <2>1, NextTyped, ConsentKept, ImageKept, TruthKept, CleanKept DEF IInv
    <2>2. CASE UNCHANGED vars
      BY <2>2 DEF vars, IInv, TypeOK, Consented, ImageInv, Truth, Clean, Contains
    <2> QED BY <2>1, <2>2
  <1> QED BY <1>1, <1>2, PTL DEF Spec

\* Dates with a month of a year and a day of a month are in the order of their days: a
\* later day is a greater number, whatever the fields after the one that decides.
LEMMA DayOrder ==
  ASSUME NEW a \in Nat, NEW b \in Nat, NEW c \in 1..12, NEW d \in 1..12, NEW e \in 1..31, NEW f \in 1..31,
         a > b \/ (a = b /\ c > d) \/ (a = b /\ c = d /\ e > f)
  PROVE  (a * 13 + c) * 32 + e > (b * 13 + d) * 32 + f
  <1>1. PICK x, y \in Nat : x = a * 13 + c /\ y = b * 13 + d
    OBVIOUS
  <1>2. x > y \/ (x = y /\ e > f)
    BY <1>1
  <1>3. x * 32 + e > y * 32 + f
    BY <1>2
  <1> QED BY <1>1, <1>3

\* The comparison of versions field by field is that of their days, then revisions.
LEMMA NewerIsLater ==
  ASSUME NEW v \in Releases, Newer(Current, v)
  PROVE  NewRelease(v)
  <1>1. /\ v[1] \in Nat /\ v[4] \in Nat /\ Current[1] \in Nat /\ Current[4] \in Nat
    BY VersionsTyped DEF Versions
  <1>2. v[2] \in 1..12 /\ v[3] \in 1..31 /\ Current[2] \in 1..12 /\ Current[3] \in 1..31
    BY DEF Newer, ValidVersion
  <1>3. PICK i \in 1..4 : v[i] > Current[i] /\ \A j \in 1..(i - 1) : v[j] = Current[j]
    BY DEF Newer
  <1>4. CASE i \in 1..3
    <2>1. \/ v[1] > Current[1]
          \/ v[1] = Current[1] /\ v[2] > Current[2]
          \/ v[1] = Current[1] /\ v[2] = Current[2] /\ v[3] > Current[3]
      BY <1>3, <1>4
    <2>2. Day(v) > Day(Current)
      <3>1. PICK a, b \in Nat, c, d \in 1..12, e, f \in 1..31 :
              a = v[1] /\ b = Current[1] /\ c = v[2] /\ d = Current[2] /\ e = v[3] /\ f = Current[3]
        BY <1>1, <1>2
      <3>2. a > b \/ (a = b /\ c > d) \/ (a = b /\ c = d /\ e > f)
        BY <2>1, <3>1
      <3>3. (a * 13 + c) * 32 + e > (b * 13 + d) * 32 + f
        BY <3>2, DayOrder
      <3> QED BY <3>1, <3>3 DEF Day
    <2> QED BY <2>2 DEF NewRelease
  <1>5. CASE i = 4
    <2>1. v[1] = Current[1] /\ v[2] = Current[2] /\ v[3] = Current[3] /\ v[4] > Current[4]
      BY <1>3, <1>5
    <2> QED BY <2>1 DEF NewRelease, Day
  <1> QED BY <1>4, <1>5

\* What is shown as ready is a verified release later than the one that runs, for every
\* four numbers the feed may offer, and an application that quits without consent leaves no
\* helper, and no workspace it did not try to remove (appimage_update_client.c).
THEOREM UpdaterSafe == Spec => []Inv
  <1>1. IInv => Inv
    <2> SUFFICES ASSUME IInv  PROVE Inv
      OBVIOUS
    <2>1. ReadyIsVerified
      BY NewerIsLater DEF IInv, Truth, ImageInv, TypeOK, ReadyIsVerified, Versions
    <2>2. StopCleansUp
      BY DEF StopCleansUp, IInv, Clean, Alive
    <2> QED BY <2>1, <2>2 DEF Inv, IInv
  <1> QED BY <1>1, Invariance, PTL

\* Whatever fails, and whenever the power does, an image that works is at the path, and
\* once it is replaced the previous one is beside it (appimage_update.cpp).
THEOREM ImageSafe == Spec => []ImageIsSafe
  <1>1. IInv => ImageIsSafe
    <2> SUFFICES ASSUME IInv  PROVE ImageIsSafe
      OBVIOUS
    <2>1. InstalledIsWhole
      <3>1. candidate # None => candidate \in Releases /\ Newer(Current, candidate)
        BY DEF IInv, ImageInv, TypeOK
      <3>2. candidate # None => NewRelease(candidate)
        BY <3>1, NewerIsLater DEF Versions
      <3> QED BY <3>2 DEF IInv, ImageInv, InstalledIsWhole
    <2>2. OldIsKept
      <3>1. candidate # None => candidate \in Versions /\ candidate # Current
        BY NewerDiffers DEF IInv, ImageInv, TypeOK, Versions
      <3> QED BY <3>1, VersionsTyped, MarkersDiffer DEF IInv, ImageInv, OldIsKept, Versions
    <2> QED BY <2>1, <2>2 DEF ImageIsSafe
  <1> QED BY <1>1, Invariance, PTL

\* The image of a running application is never replaced, nor without a consent: the
\* helper waits for the end of its parent, and only a consent makes it wait.
THEOREM ReplacesAfterExit == Spec => ReplacedAfterExit
  <1>1. IInv /\ [Next]_vars => [source' # source /\ source' = candidate => ~AppRuns /\ apply]_source
    <2> SUFFICES ASSUME IInv, Next, source' # source, source' = candidate
                 PROVE  ~AppRuns /\ apply
      BY DEF vars
    <2>1. candidate \notin {Other, Torn} /\ (candidate # None => candidate # Current)
      BY VersionsTyped, MarkersDiffer, NewerDiffers DEF IInv, ImageInv, TypeOK, Versions
    <2>2. candidate # Current
      BY <2>1, VersionsTyped DEF Versions
    <2>3. ~Main /\ ~Worker
      BY MainFrame, WorkerFrame DEF diskVars
    <2>4. ~World
      BY <2>1, <2>2 DEF World, Timer, HelperDies, Foreign, PowerFails, diskVars
    <2>5. Replace
      BY <2>3, <2>4, NextSteps DEF Helper, Begin, BeginCheck, Reports, Downloaded, HungUp, Command, Verify, KeepOld,
         SyncOld, SyncNew, Finish, Throw, diskVars
    <2>6. helper \in Checked
      BY <2>5 DEF Replace, Checked
    <2> QED BY <2>6 DEF IInv, Consented, Installing, AppRuns
  <1> QED BY <1>1, Invariance, PTL DEF Spec, ReplacedAfterExit

=============================================================================
