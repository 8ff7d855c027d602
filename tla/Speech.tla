------------------------------- MODULE Speech -------------------------------
(***************************************************************************)
(* The speech and translation programs (stt.c, tts.c, translate.cpp), each *)
(* started by the application for one job, the shared memory they talk     *)
(* through (helper_ipc.c) and the folder of downloaded models they share   *)
(* with the programs of other instances (speech_download.h).               *)
(***************************************************************************)
EXTENDS Naturals, Sequences, FiniteSets

CONSTANTS
  Jobs,        \* which of AllJobs are asked for
  Files,       \* model files of a program, in their order: 1..Files
  Texts,       \* texts to read aloud, as sequences of byte kinds, see ChunkLength
  Chunk,       \* CHUNK_BYTES of tts.c
  Window,      \* CHUNK_SAMPLES of stt.c
  Recording,   \* MAX_SAMPLES, the longest dictation
  Audio,       \* MAX_AUDIO_SAMPLES, the longest file
  TextLimit,   \* TEXT_LIMIT, bytes of transcript
  Byte,        \* values of a byte of the header
  Tokens,      \* OUTPUT_TOKENS
  Region,      \* bytes of a translation
  Helper, Rival,  \* the program of this job, one of another instance
  None         \* nobody, or no exit code

AllJobs == {"download", "dictate", "audio", "read", "translate"}
Users == {Helper, Rival}
ASSUME JobsKnown == Jobs \subseteq AllJobs
ASSUME Limits == {Files, Chunk, Window, Recording, Audio, TextLimit, Byte, Tokens, Region} \subseteq Nat \ {0}
ASSUME UsersDiffer == Helper # Rival /\ None \notin Users
\* A byte holds the number of a file and a percentage, two of them the length of a transcript.
ASSUME HeaderFits == Files <= Byte /\ 2 < Byte /\ TextLimit < Byte * Byte

\* UTF-8 in byte kinds, see ChunkLength: what the application gives is validated.
Kinds == {"a", "s", ".", "l", "c", "w"}
Continued(t) == \A i \in 1..Len(t) : t[i] = "c" => i > 1 /\ t[i - 1] \in {"l", "w", "c"}
WideWhole(t) ==
  \A i \in 1..Len(t) : t[i] = "w" =>
    /\ i + 2 <= Len(t) /\ t[i + 1] = "c" /\ t[i + 2] = "c"
    /\ i + 3 <= Len(t) => t[i + 3] # "c"
AtMostFour(t) == \A i \in 1..Len(t) : i + 3 <= Len(t) => \E k \in i..(i + 3) : t[k] # "c"
ASSUME TextsAreValid == \A t \in Texts : t \in Seq(Kinds) /\ Continued(t) /\ WideWhole(t) /\ AtMostFour(t)
ASSUME ChunkHoldsOne == 4 <= Chunk

VARIABLES
  app,       \* the main thread: "idle", "busy", "seen", "peek", "exited", "finishing", "gone"
  job,       \* the job of the program
  seen,      \* the status the last tick has read
  received,  \* bytes of transcript taken over
  result,    \* "none", "done", "silent", "failed", "stopped"
  appSaw,    \* the header the application loaded before it writes
  asked,     \* the stop command has been written
  name,      \* the names of the mappings that still exist: "text", "input"
  word,      \* the first four bytes of the mapping
  laid,      \* bytes of transcript or translation written into it
  size,      \* the length of the translation in it
  pc,        \* where the program is
  code,      \* its exit code, once it has ended
  bytes,     \* those it is writing to the header, from the first
  next,      \* where it goes on after that
  saw,       \* the header it loaded before it writes
  watched,   \* it watches its parent
  count, offset,  \* samples, and how many of them are transcribed
  length,    \* bytes of transcript
  rest, spoken, queue,  \* bytes to say, the pieces said, and what their sound still takes
  output,    \* bytes of translation, and
  tokens,    \* tokens generated
  cache,     \* what a program does with the model folder
  at,        \* with which file
  files,     \* "absent", "damaged" or "whole"
  part,      \* the .part files: "absent", "short", "bad" or "whole"
  lock,      \* who holds the lock of the folder
  rivals     \* whether the other program has still to come

appVars == <<app, job, seen, received, result, appSaw, asked>>
memory == <<name, word, laid, size>>
process == <<pc, code, bytes, next, saw, watched>>
speech == <<rest, spoken, queue>>
work == <<count, offset, length, speech, output, tokens>>
folder == <<cache, at, files, part, lock, rivals>>
vars == <<appVars, memory, process, work, folder>>

Header == [status : {"G", "D", "R", "C", "P", "T"}, low : Nat, high : Nat, command : {"", "S"}]
Running == pc \notin {"none", "ended"}
Length(w) == w.low + Byte * w.high

Init ==
  /\ app = "idle" /\ job \in Jobs /\ seen = "G" /\ received = 0 /\ result = "none"
  /\ word = [status |-> "G", low |-> 0, high |-> 0, command |-> ""]
  /\ appSaw = word /\ saw = word /\ asked = FALSE
  /\ name = {} /\ laid = 0 /\ size = 0
  /\ pc = "none" /\ code = None /\ bytes = <<>> /\ next = "none" /\ watched = FALSE
  /\ count = 0 /\ offset = 0 /\ length = 0 /\ output = 0 /\ tokens = 0
  /\ rest \in Texts /\ spoken = <<>> /\ queue = <<>>
  /\ (job # "read") => rest = CHOOSE t \in Texts : TRUE
  /\ cache = [u \in Users |-> "away"] /\ at = [u \in Users |-> 1]
  /\ files \in [1..Files -> {"absent", "damaged", "whole"}]
  /\ part \in [1..Files -> {"absent", "bad"}]
  /\ lock = None /\ rivals = TRUE

-----------------------------------------------------------------------------
(* Header bytes share one word: load it, then compare and exchange.        *)

Put(data, then) ==
  /\ pc' = "write" /\ bytes' = data /\ next' = then
  /\ saw' = word
unwritten == <<bytes, next, saw>>

Progress(f, percent) == <<"D", f - 1, percent>>
Segment(n) == <<"P", n % Byte, n \div Byte>>
Merge(w, data) == IF Len(data) = 1 THEN [w EXCEPT !.status = data[1]]
                  ELSE [w EXCEPT !.status = data[1], !.low = data[2], !.high = data[3]]

StoreWord ==  \* mutant: the merged word is stored without comparing
  /\ pc = "write"
  /\ word' = Merge(saw, bytes) /\ pc' = next
  /\ UNCHANGED <<appVars, name, laid, size, code, unwritten, watched, work, folder>>
Exchange ==
  /\ pc = "write"
  /\ IF word = saw THEN word' = Merge(word, bytes) /\ pc' = next /\ UNCHANGED saw
     ELSE saw' = word /\ UNCHANGED <<word, pc>>
  /\ UNCHANGED <<appVars, name, laid, size, code, bytes, next, watched, work, folder>>

\* wn_ipc_write of the stop command by the application.
Finish ==
  /\ app = "busy" /\ job = "dictate" /\ seen = "R"
  /\ app' = "finishing" /\ appSaw' = word
  /\ UNCHANGED <<job, seen, received, result, asked, memory, process, work, folder>>

FinishExchange ==
  /\ app = "finishing"
  /\ IF word = appSaw THEN /\ word' = [word EXCEPT !.command = "S"] /\ asked' = TRUE
                           /\ app' = "busy" /\ UNCHANGED appSaw
     ELSE appSaw' = word /\ UNCHANGED <<word, asked, app>>
  /\ UNCHANGED <<job, seen, received, result, name, laid, size, process, work, folder>>

-----------------------------------------------------------------------------
(* The model folder.                                                       *)

\* A user who is not the program of this job has no header to write.
InFolder(u) == (u = Helper) => pc = "models"
Report(u, data) == IF u = Helper THEN Put(data, "models") ELSE UNCHANGED <<pc, unwritten>>
folderOnly == <<appVars, memory, code, watched, work>>

RivalComes ==
  /\ rivals
  /\ rivals' = FALSE
  /\ cache' = [cache EXCEPT ![Rival] = "waiting"]
  /\ UNCHANGED <<folderOnly, pc, unwritten, at, files, part, lock>>

\* wn_model_lock
Lock(u) ==
  /\ cache[u] = "waiting" /\ InFolder(u)
  /\ lock = None
  /\ lock' = u
  /\ cache' = [cache EXCEPT ![u] = "checking"] /\ at' = [at EXCEPT ![u] = 1]
  /\ UNCHANGED <<folderOnly, pc, unwritten, files, part, rivals>>

\* valid_file: size and digest; without it the .part file is opened anew.
CheckFile(u) ==
  /\ cache[u] = "checking" /\ InFolder(u)
  /\ at[u] <= Files
  /\ IF files[at[u]] = "whole"
     THEN at' = [at EXCEPT ![u] = @ + 1] /\ UNCHANGED <<cache, part, pc, unwritten>>
     ELSE /\ Report(u, Progress(at[u], 0)) /\ UNCHANGED at
          /\ \/ part' = [part EXCEPT ![at[u]] = "short"] /\ cache' = [cache EXCEPT ![u] = "fetching"]
             \/ cache' = [cache EXCEPT ![u] = "fetched"] /\ UNCHANGED part
  /\ UNCHANGED <<folderOnly, files, lock, rivals>>

\* A percentage, the end of the download, or its failure.
Fetch(u) ==
  /\ cache[u] = "fetching" /\ InFolder(u)
  /\ \/ part' = part /\ UNCHANGED cache /\ Report(u, Progress(at[u], 1))
     \/ \E p \in {"bad", "whole"} : /\ part' = [part EXCEPT ![at[u]] = p]
                                    /\ cache' = [cache EXCEPT ![u] = "arrived"]
                                    /\ Report(u, Progress(at[u], 2))
     \/ cache' = [cache EXCEPT ![u] = "fetched"] /\ UNCHANGED <<part, pc, unwritten>>
  /\ UNCHANGED <<folderOnly, at, files, lock, rivals>>

RenameUnverified(u) ==  \* mutant: what has arrived is not verified
  /\ cache[u] = "arrived" /\ InFolder(u)
  /\ files' = [files EXCEPT ![at[u]] = IF part[at[u]] = "whole" THEN "whole" ELSE "damaged"]
  /\ part' = [part EXCEPT ![at[u]] = "absent"]
  /\ cache' = [cache EXCEPT ![u] = "checking"] /\ at' = [at EXCEPT ![u] = @ + 1]
  /\ UNCHANGED <<folderOnly, pc, unwritten, lock, rivals>>
\* Only a file with the size and digest of the manifest gets the name.
Rename(u) ==
  /\ cache[u] = "arrived" /\ InFolder(u)
  /\ \/ /\ part[at[u]] = "whole"
        /\ files' = [files EXCEPT ![at[u]] = "whole"]
        /\ part' = [part EXCEPT ![at[u]] = "absent"]
        /\ cache' = [cache EXCEPT ![u] = "checking"] /\ at' = [at EXCEPT ![u] = @ + 1]
     \/ cache' = [cache EXCEPT ![u] = "fetched"] /\ UNCHANGED <<files, part, at>>
  /\ UNCHANGED <<folderOnly, pc, unwritten, lock, rivals>>

\* A failure removes the .part file, unlocks and ends the program.
FetchFails(u) ==
  /\ cache[u] = "fetched" /\ InFolder(u)
  /\ part' = [part EXCEPT ![at[u]] = "absent"]
  /\ lock' = None
  /\ cache' = [cache EXCEPT ![u] = "away"]
  /\ pc' = IF u = Helper THEN "ended" ELSE pc
  /\ UNCHANGED <<folderOnly, unwritten, at, files, rivals>>

RivalDone ==
  /\ cache[Rival] = "checking" /\ at[Rival] > Files
  /\ lock' = None /\ cache' = [cache EXCEPT ![Rival] = "away"]
  /\ UNCHANGED <<folderOnly, pc, unwritten, at, files, part, rivals>>

\* A killed program leaves its .part file; the lock goes with it.
Leaves(u) ==
  /\ cache' = [cache EXCEPT ![u] = "away"]
  /\ lock' = IF lock = u THEN None ELSE lock
  /\ UNCHANGED <<at, files, part, rivals>>

RivalDies ==
  /\ cache[Rival] # "away"
  /\ Leaves(Rival)
  /\ UNCHANGED <<folderOnly, pc, unwritten>>

-----------------------------------------------------------------------------
(* The program, up to its model.                                           *)

Ends(c) == pc' = "ended" /\ code' = c /\ UNCHANGED unwritten
Goes(p) == pc' = p /\ UNCHANGED unwritten

GuardNothing ==  \* mutant: the guard is forgotten
  /\ pc = "boot"
  /\ Goes("attach") /\ UNCHANGED <<code, watched>>
  /\ UNCHANGED <<appVars, memory, work, folder>>
\* wn_helper_guard: the parent lives and is watched from now on.
Guard ==
  /\ pc = "boot"
  /\ \/ app # "gone" /\ watched' = TRUE /\ Goes("attach") /\ UNCHANGED code
     \/ Ends(2) /\ UNCHANGED watched
  /\ UNCHANGED <<appVars, memory, work, folder>>

WatchParent ==
  /\ Running /\ watched
  /\ app = "gone"
  /\ pc' = "ended" /\ code' = 1
  /\ Leaves(Helper)
  /\ UNCHANGED <<appVars, memory, unwritten, watched, work>>

\* wn_ipc_open: an attached mapping has no name any more; the size must be the expected.
Attach ==
  /\ pc = "attach"
  /\ \/ /\ "text" \in name
        /\ name' = name \ {"text"}
        /\ Goes(IF job = "audio" THEN "input" ELSE IF job \in {"read", "translate"} THEN "text" ELSE "cache")
        /\ UNCHANGED code
     \/ Ends(2) /\ UNCHANGED name
  /\ UNCHANGED <<appVars, word, laid, size, watched, work, folder>>

AttachInput ==
  /\ pc = "input"
  /\ \/ name' = name \ {"input"} /\ Goes("cache") /\ UNCHANGED code
     \/ Ends(2) /\ UNCHANGED name
  /\ UNCHANGED <<appVars, word, laid, size, watched, work, folder>>

\* The text is whole and of a known language; the translation needs some that is not blank.
TakeText ==
  /\ pc = "text"
  /\ \/ IF job = "translate" THEN Put(<<"G">>, "cache") /\ UNCHANGED code
        ELSE Goes("cache") /\ UNCHANGED code
     \/ \E c \in {2, 3, 4} : (job = "read" => c = 2) /\ Ends(c)
  /\ UNCHANGED <<appVars, memory, watched, work, folder>>

\* The folder is made.
Cache ==
  /\ pc = "cache"
  /\ code' = 1
  /\ \/ pc' = "models" /\ cache' = [cache EXCEPT ![Helper] = "waiting"]
     \/ pc' = "ended" /\ UNCHANGED cache
  /\ UNCHANGED <<appVars, memory, unwritten, watched, work, at, files, part, lock, rivals>>

\* Every file is there: unlock.  A download is finished with that.
Unlock ==
  /\ pc = "models" /\ cache[Helper] = "checking" /\ at[Helper] > Files
  /\ lock' = None
  /\ cache' = [cache EXCEPT ![Helper] = "away"]
  /\ IF job = "download" THEN Put(<<"T">>, "ended") /\ code' = 0
     ELSE Put(<<"G">>, "load") /\ code' = 2
  /\ UNCHANGED <<appVars, memory, watched, work, at, files, part, rivals>>

\* The model, and the audio device of what listens or speaks.
Load ==
  /\ pc = "load"
  /\ \/ Ends(2)
     \/ job \in {"dictate", "read"} /\ Ends(3)
     \/ job = "translate" /\ Ends(3)  \* no supported language found
     \/ job = "translate" /\ Ends(4)  \* too many tokens
     \/ job = "dictate" /\ Put(<<"R">>, "listen") /\ code' = 3
     \/ job = "audio" /\ Put(<<"C">>, "decode") /\ code' = 3
     \/ job = "read" /\ Goes("speak") /\ code' = 0
     \/ job = "translate" /\ Put(<<"T">>, "generate") /\ code' = 2
  /\ UNCHANGED <<appVars, memory, watched, work, folder>>

-----------------------------------------------------------------------------
(* stt.c                                                                   *)

\* A look at the microphone and the command, every 20 milliseconds.
Listen ==
  /\ pc = "listen"
  /\ \E got \in {0, 1} :
       /\ count' = IF count + got > Recording THEN Recording ELSE count + got
       /\ IF count' < Recording /\ word.command # "S" THEN Goes("listen") /\ UNCHANGED code
          ELSE Put(<<"C">>, "hear") /\ code' = 2
  /\ UNCHANGED <<appVars, memory, watched, offset, length, speech, output, tokens, folder>>

ListenTooLong ==
  /\ pc = "listen"
  /\ Put(<<"C">>, "hear") /\ code' = 2
  /\ UNCHANGED <<appVars, memory, watched, work, folder>>

MicrophoneFails ==
  /\ pc = "listen"
  /\ Ends(3)
  /\ UNCHANGED <<appVars, memory, watched, work, folder>>

\* A packet of the file, its end, an error or a minute gone.
Decode ==
  /\ pc = "decode"
  /\ \/ \E produced \in {1, 2} :
          /\ count' = IF count + produced > Audio + 1 THEN Audio + 1 ELSE count + produced
          /\ IF count' > Audio THEN Ends(4) ELSE Goes("decode") /\ UNCHANGED code
     \/ /\ IF count = 0 THEN Ends(3) ELSE Goes("hear") /\ code' = 2
        /\ UNCHANGED count
     \/ Ends(3) /\ UNCHANGED count
  /\ UNCHANGED <<appVars, memory, watched, offset, length, speech, output, tokens, folder>>

\* Even windows, none longer than the model takes.
Ceiling(a, b) == (a + b - 1) \div b
WindowOf(n) == Ceiling(n, Ceiling(n, Window))

\* The next window: its text is appended behind what has been published.
Hear ==
  /\ pc = "hear" /\ offset < count
  /\ \/ \E n \in 0..2 :
          /\ length + n + 1 <= TextLimit
          /\ length' = length + n + (IF length > 0 THEN 1 ELSE 0)
          /\ Goes("append") /\ UNCHANGED code
     \/ Ends(2) /\ UNCHANGED length
  /\ UNCHANGED <<appVars, memory, watched, count, offset, speech, output, tokens, folder>>

\* First the text, then its length: readers ignore what is not committed.
AppendText ==
  /\ pc = "append"
  /\ laid' = length
  /\ offset' = offset + WindowOf(count)
  /\ Put(Segment(length), "hear")
  /\ UNCHANGED <<appVars, name, word, size, code, watched, count, length, speech, output, tokens, folder>>

Heard ==
  /\ pc = "hear" /\ offset >= count
  /\ IF count = 0 THEN Ends(2) ELSE Put(<<"T">>, "ended") /\ code' = 0
  /\ UNCHANGED <<appVars, memory, watched, work, folder>>

-----------------------------------------------------------------------------
(* tts.c: a text is a sequence of byte kinds: "a" a letter, "s" a space,   *)
(* "." a full stop, "l" and "c" the lead and continuation bytes of a       *)
(* character, "w" the lead byte of a wide full stop.                       *)

WideStop(t, i) == i + 2 <= Len(t) /\ i + 2 <= Chunk /\ t[i] = "w"
Sentence(t, i) == i < Len(t) /\ (WideStop(t, i) \/ (t[i] = "." /\ t[i + 1] = "s"))

\* The end of a sentence, else all, else up to a space, else up to a whole character.
ChunkLength(t) ==
  LET ends == {i \in 1..Chunk : Sentence(t, i)}
      whole == {n \in 1..Chunk : t[n + 1] # "c"}
      last(S) == CHOOSE n \in S : \A m \in S : m <= n
      first == CHOOSE i \in ends : \A k \in ends : i <= k
      spaces == {n \in 1..last(whole) : t[n] = "s"}
  IN IF ends # {} THEN IF WideStop(t, first) THEN first + 2 ELSE first
     ELSE IF Len(t) <= Chunk THEN Len(t)
     ELSE IF spaces # {} THEN last(spaces) ELSE last(whole)

Trimmed(t) ==
  LET words == {i \in 1..Len(t) : t[i] # "s"}
  IN IF words = {} THEN <<>> ELSE SubSeq(t, CHOOSE i \in words : \A k \in words : i <= k, Len(t))

\* The next piece; after the last one the device plays what is left.
Speak ==
  /\ pc = "speak"
  /\ rest' = Trimmed(rest)
  /\ IF rest' = <<>> THEN Goes("drain")
     ELSE IF queue = <<>> THEN Put(<<"G">>, "voice") ELSE Goes("voice")
  /\ UNCHANGED <<appVars, memory, code, watched, count, offset, length, spoken, queue, output, tokens, folder>>

\* Its sound, of one or two buffers, goes to the device; the voice or the device may fail.
Voice ==
  /\ pc = "voice"
  /\ LET n == ChunkLength(rest) IN
     /\ rest' = SubSeq(rest, n + 1, Len(rest))
     /\ \/ \E sound \in {1, 2} :
             /\ queue' = Append(queue, sound)
             /\ spoken' = Append(spoken, SubSeq(rest, 1, n))
             /\ Put(<<"P">>, "ahead") /\ UNCHANGED code
        \/ \E c \in {2, 3} : Ends(c) /\ UNCHANGED <<queue, spoken>>
  /\ UNCHANGED <<appVars, memory, watched, count, offset, length, output, tokens, folder>>

\* No more is queued than this piece: the next one may be made.
Ahead ==
  /\ pc = "ahead"
  /\ \/ Len(queue) <= 1 /\ Goes("speak") /\ UNCHANGED code
     \/ Ends(3)
  /\ UNCHANGED <<appVars, memory, watched, work, folder>>

Drain ==
  /\ pc = "drain"
  /\ \/ queue = <<>> /\ Ends(0)
     \/ Ends(3)
  /\ UNCHANGED <<appVars, memory, watched, work, folder>>

\* The device.
Play ==
  /\ queue # <<>>
  /\ Running
  /\ queue' = IF Head(queue) > 1 THEN <<Head(queue) - 1>> \o Tail(queue) ELSE Tail(queue)
  /\ UNCHANGED <<appVars, memory, process, count, offset, length, rest, spoken, output, tokens, folder>>

-----------------------------------------------------------------------------
(* translate.cpp                                                           *)

GenerateToTheCeiling ==  \* mutant: what is there at the ceiling is the translation
  /\ pc = "generate"
  /\ \/ \E n \in 0..2 :
          /\ tokens < Tokens
          /\ tokens' = tokens + 1
          /\ output' = IF output + n >= Region THEN output ELSE output + n
          /\ IF output + n >= Region THEN Ends(4) ELSE Goes("generate") /\ UNCHANGED code
     \/ /\ output > 0 /\ Goes("publish") /\ UNCHANGED code
        /\ UNCHANGED <<output, tokens>>
  /\ UNCHANGED <<appVars, memory, watched, count, offset, length, speech, folder>>
\* A token of up to two bytes, the end of the turn, or a failure: a ceiling is not an end.
Generate ==
  /\ pc = "generate"
  /\ \/ \E n \in 0..2 :
          /\ tokens < Tokens
          /\ tokens' = tokens + 1
          /\ output' = IF output + n >= Region THEN output ELSE output + n
          /\ IF output + n >= Region THEN Ends(4) ELSE Goes("generate") /\ UNCHANGED code
     \/ /\ tokens < Tokens
        /\ output > 0 /\ Goes("publish") /\ UNCHANGED code
        /\ UNCHANGED <<output, tokens>>
     \/ /\ IF tokens < Tokens THEN Ends(2) ELSE Ends(4)
        /\ UNCHANGED <<output, tokens>>
  /\ UNCHANGED <<appVars, memory, watched, count, offset, length, speech, folder>>

\* The text, then its length, then the status.
Publish ==
  /\ pc = "publish"
  /\ laid' = output
  /\ Goes("size")
  /\ UNCHANGED <<appVars, name, word, size, code, watched, work, folder>>

PublishSize ==
  /\ pc = "size"
  /\ size' = output
  /\ Put(<<"R">>, "ended") /\ code' = 0
  /\ UNCHANGED <<appVars, name, word, laid, watched, work, folder>>

-----------------------------------------------------------------------------
(* The main thread of the application.                                     *)

\* The mappings, then the program; whatever fails undoes what was done.
Launch ==
  /\ app = "idle" /\ result = "none"
  /\ \/ /\ app' = "busy" /\ pc' = "boot"
        /\ name' = {"text"} \cup (IF job = "audio" THEN {"input"} ELSE {})
        /\ UNCHANGED result
     \/ result' = "failed" /\ UNCHANGED <<app, pc, name>>
  /\ UNCHANGED <<job, seen, received, appSaw, asked, word, laid, size, code, unwritten, watched, work, folder>>

Closed == name' = {} /\ app' = "idle"

\* stt_stop, tts_stop, translation_stop: kill, wait, close.
Stop ==
  /\ app = "busy"
  /\ Closed /\ result' = "stopped"
  /\ pc' = "none"
  /\ Leaves(Helper)
  /\ UNCHANGED <<job, seen, received, appSaw, asked, word, laid, size, code, unwritten, watched, work>>

\* A tick reads the status, ...
Tick ==
  /\ app = "busy"
  /\ app' = "seen"
  /\ seen' = word.status
  /\ UNCHANGED <<job, received, result, appSaw, asked, memory, process, work, folder>>

\* ... looks whether the program has ended, ...
Wait ==
  /\ app = "seen"
  /\ IF pc = "ended" THEN app' = "exited" /\ pc' = "none"
     ELSE /\ app' = IF job \in {"dictate", "audio"} /\ seen = "P" THEN "peek" ELSE "busy"
          /\ UNCHANGED pc
  /\ UNCHANGED <<job, seen, received, result, appSaw, asked, memory, code, unwritten, watched, work, folder>>

\* ... and takes over what is committed of a transcript.  (The code stops at a header that
\* is no transcript's or shorter than before: HeaderKept says that there is none.)
Peek ==
  /\ app = "peek"
  /\ word.status \in {"P", "T"} /\ Length(word) >= received
  /\ received' = Length(word)
  /\ app' = "busy"
  /\ UNCHANGED <<job, seen, result, appSaw, asked, memory, process, work, folder>>

CollectSeen ==  \* mutant: the status read before the wait decides
  /\ app = "exited"
  /\ Closed
  /\ result' = IF code # 0 \/ (job = "translate" /\ seen # "R") THEN "failed" ELSE "done"
  /\ received' = IF job \in {"dictate", "audio"} /\ code = 0 THEN Length(word) ELSE received
  /\ UNCHANGED <<job, seen, appSaw, asked, word, laid, size, process, work, folder>>
\* After the end the header is read again: the program may have published in between.
Collect ==
  /\ app = "exited"
  /\ Closed
  /\ result' = IF \/ code # 0
                  \/ job \in {"dictate", "audio"} /\ (word.status \notin {"P", "T"} \/ Length(word) < received)
                  \/ job = "translate" /\ ~(word.status = "R" /\ size \in 1..(Region - 1))
               THEN "failed"
               ELSE IF job \in {"dictate", "audio"} /\ Length(word) = 0 THEN "silent" ELSE "done"
  /\ received' = IF code # 0 THEN received
                 ELSE CASE job \in {"dictate", "audio"} -> Length(word)
                        [] job = "translate" -> size
                        [] OTHER -> received
  /\ UNCHANGED <<job, seen, appSaw, asked, word, laid, size, process, work, folder>>

AppDies ==
  /\ app # "idle" /\ app # "gone"
  /\ app' = "gone"
  /\ UNCHANGED <<job, seen, received, result, appSaw, asked, memory, process, work, folder>>

HelperDies ==
  /\ Running
  /\ pc' = "ended" /\ code' = 2
  /\ Leaves(Helper)
  /\ UNCHANGED <<appVars, memory, unwritten, watched, work>>

-----------------------------------------------------------------------------

Folder(u) == Lock(u) \/ CheckFile(u) \/ Fetch(u) \/ Rename(u) \/ FetchFails(u)
Begins == Exchange \/ Guard \/ Attach \/ AttachInput \/ TakeText \/ Cache \/ Unlock \/ Load
Works ==
  \/ Decode \/ Hear \/ AppendText \/ Heard
  \/ Speak \/ Voice \/ Ahead \/ Drain \/ Generate \/ Publish \/ PublishSize
App == Launch \/ Stop \/ Tick \/ Wait \/ Peek \/ Collect \/ Finish \/ FinishExchange

Next ==
  \/ App \/ Begins \/ Works \/ Play \/ Listen \/ ListenTooLong \/ MicrophoneFails \/ WatchParent
  \/ \E u \in Users : Folder(u)
  \/ RivalComes \/ RivalDone \/ RivalDies \/ AppDies \/ HelperDies

Spec == Init /\ [][Next]_vars

\* Every thread and the device go on; the network may stand still.
FairSpec ==
  /\ Spec
  /\ WF_vars(Begins) /\ WF_vars(Works) /\ WF_vars(Play) /\ WF_vars(Listen) /\ WF_vars(WatchParent)
  /\ WF_vars(FinishExchange) /\ SF_vars(Wait) /\ SF_vars(Tick) /\ WF_vars(Peek \/ Collect)

-----------------------------------------------------------------------------

TypeOK ==
  /\ app \in {"idle", "busy", "seen", "peek", "exited", "finishing", "gone"}
  /\ job \in Jobs /\ {word, appSaw, saw} \subseteq Header
  /\ seen \in {"G", "D", "R", "C", "P", "T"} /\ received <= TextLimit + Region
  /\ result \in {"none", "done", "silent", "failed", "stopped"} /\ asked \in BOOLEAN
  /\ name \subseteq {"text", "input"} /\ word.low < Byte /\ word.high < Byte
  /\ laid <= TextLimit + Region /\ size < Region /\ output < Region /\ tokens <= Tokens
  /\ code \in 0..4 \cup {None} /\ watched \in BOOLEAN
  /\ count <= Recording + Audio + 1 /\ length <= TextLimit
  /\ cache \in [Users -> {"away", "waiting", "checking", "fetching", "arrived", "fetched"}]
  /\ at \in [Users -> 1..(Files + 1)]
  /\ files \in [1..Files -> {"absent", "damaged", "whole"}]
  /\ part \in [1..Files -> {"absent", "short", "bad", "whole"}]
  /\ lock \in Users \cup {None}

\* "Commit atomically without losing a concurrent command" (helper_ipc.c:172): once the
\* application has asked for the end of a dictation the command stays in the header.
CommandKept == asked => word.command = "S"

\* "Append first, then publish" (stt.c:114): the length a reader finds in the header is
\* never torn, never longer than the text that has been written, and never goes back, so
\* that no transcript is refused half-way.
PublishedIsWritten ==
  job \in {"dictate", "audio"} =>
    /\ word.status \in {"P", "T"} => Length(word) <= laid /\ received <= Length(word)
    /\ app = "peek" => word.status \in {"P", "T"}

\* The two words of the header that both sides write keep what each side put there.
HeaderKept == CommandKept /\ PublishedIsWritten

\* A program works only with verified files, and no other instance spoils them.
LoadsWhole ==
  pc \in {"load", "listen", "decode", "hear", "append", "speak", "voice", "ahead", "drain",
          "generate", "publish", "size"} =>
    \A f \in 1..Files : files[f] = "whole"

\* One program at a time changes the folder, so a .part file has one writer.
OneFetches == \A u \in Users : cache[u] \in {"checking", "fetching", "arrived", "fetched"} => lock = u

\* Once the job is over nothing of it is left: no program, no mapping to be opened by name.
NothingLeft == app = "idle" => name = {} /\ pc = "none" /\ cache[Helper] = "away"

\* What is shown as finished is: all audio heard, all text said and played, a translation
\* that ended with its turn.
FinishedIsWhole ==
  result = "done" =>
    CASE job \in {"dictate", "audio"} -> offset >= count /\ received = length
      [] job = "read" -> Trimmed(rest) = <<>> /\ queue = <<>>
      [] job = "translate" -> received = output /\ output > 0 /\ tokens < Tokens
      [] OTHER -> \A f \in 1..Files : files[f] = "whole"

\* The pieces of a text are never longer than the model takes and never cut a character.
PiecesAreWhole == \A i \in 1..Len(spoken) : Len(spoken[i]) \in 1..Chunk /\ spoken[i][1] # "c"

\* "keeping at most two chunks queued" (tts.c:201)
TwoQueued == Len(queue) <= 2

\* The folder of models has one writer and no reader of half a file, a job leaves nothing
\* behind, pieces are whole and few, in states of the right shape.
Inv == TypeOK /\ OneFetches /\ LoadsWhole /\ NothingLeft /\ PiecesAreWhole /\ TwoQueued

\* A program that ended well is reported as such, whenever it ended.
SuccessIsShown == [][app = "exited" /\ app' = "idle" /\ code = 0 => result' \in {"done", "silent"}]_vars

\* "No orphaned speech if the desktop app crashes" (tts.c:89), wherever the program was.
EndsWithApp == app = "gone" ~> ~Running

\* A dictation that was told to finish is over some time.
DictationEnds == asked ~> app \in {"idle", "gone"}

\* Programs end: with the application, and when a dictation is told to finish.
ProgramsEnd == EndsWithApp /\ DictationEnds
=============================================================================
