---------------------------- MODULE Speech_proofs ----------------------------
(***************************************************************************)
(* Proofs about the speech and translation programs.                       *)
(***************************************************************************)
EXTENDS Speech, SequenceTheorems, WellFoundedInduction, TLAPS

\* Where the program goes on once its header bytes are written.
Place == IF pc = "write" THEN next ELSE pc

Beginning == {"boot", "attach", "input", "text", "cache", "models"}
Working == {"listen", "decode", "hear", "append", "speak", "voice", "ahead", "drain",
            "generate", "publish", "size"}
Places == Beginning \cup {"load"} \cup Working \cup {"none", "ended"}
Statuses == {"G", "D", "R", "C", "P", "T"}

\* Which job brings a program to a place.
RightJob ==
  /\ Place \in {"input", "decode"} => job = "audio"
  /\ Place = "text" => job \in {"read", "translate"}
  /\ Place = "load" => job # "download"
  /\ Place = "listen" => job = "dictate"
  /\ Place \in {"hear", "append"} => job \in {"dictate", "audio"}
  /\ Place \in {"speak", "voice", "ahead", "drain"} => job = "read"
  /\ Place \in {"generate", "publish", "size"} => job = "translate"

\* What a program writes to the header before it goes on.
RightBytes ==
  pc = "write" =>
    /\ next \in {"models", "cache", "load", "listen", "decode", "hear", "voice", "ahead", "generate", "ended"}
    /\ next = "models" => \E f \in 1..Files, n \in 0..2 : bytes = Progress(f, n)
    /\ next \in {"cache", "load", "voice"} => bytes = <<"G">>
    /\ next = "listen" => bytes = <<"R">>
    /\ next = "decode" => bytes = <<"C">>
    /\ next = "hear" => bytes = <<"C">> \/ \E n \in 0..TextLimit : bytes = Segment(n)
    /\ next = "ahead" => bytes = <<"P">>
    /\ next = "generate" => bytes = <<"T">>
    /\ next = "ended" => bytes = IF job = "translate" THEN <<"R">> ELSE <<"T">>

\* The types, by what they are about.
Kept ==
  /\ app \in {"idle", "busy", "seen", "peek", "exited", "finishing", "gone"}
  /\ job \in Jobs /\ seen \in Statuses
  /\ result \in {"none", "done", "silent", "failed", "stopped"}
Named == name \subseteq {"text", "input"}
Codes == code \in 0..4 \cup {None}
Flags == asked \in BOOLEAN /\ watched \in BOOLEAN
Headers ==
  /\ word \in Header /\ appSaw \in Header /\ saw \in Header
  /\ word.low < Byte /\ word.high < Byte
Numbers ==
  /\ received \in Nat /\ received <= TextLimit + Region /\ laid \in Nat /\ laid <= TextLimit + Region
  /\ size \in Nat /\ size < Region /\ output \in Nat /\ output < Region
  /\ tokens \in Nat /\ tokens <= Tokens /\ count \in Nat /\ count <= Recording + Audio + 1
  /\ length \in Nat /\ length <= TextLimit /\ offset \in Nat
Caches == cache \in [Users -> {"away", "waiting", "checking", "fetching", "arrived", "fetched"}]
FolderType ==
  /\ Caches
  /\ at \in [Users -> 1..(Files + 1)]
  /\ files \in [1..Files -> {"absent", "damaged", "whole"}]
  /\ part \in [1..Files -> {"absent", "short", "bad", "whole"}]
  /\ lock \in Users \cup {None}
Types == Kept /\ Flags /\ Named /\ Codes /\ Headers /\ Numbers /\ FolderType

\* The parts together are the type invariant.
LEMMA TypesAreOK == Types => TypeOK
  BY DEF Types, Kept, Flags, Named, Codes, Headers, Numbers, Caches, FolderType, TypeOK, Statuses

PlaceType == pc \in Places \cup {"write"} /\ RightJob /\ RightBytes

HelperInv ==
  /\ cache[Helper] # "away" => Place = "models"
  /\ Place = "models" => code = 1
  /\ app \in {"idle", "exited"} => pc = "none"
  /\ app = "idle" => name = {}
ProcessInv == PlaceType /\ HelperInv

\* What is below the place of a user in the folder is whole; one that fetches has a file to fetch.
Checked ==
  \A u \in Users :
    /\ cache[u] \in {"checking", "fetching", "arrived", "fetched"} =>
         \A f \in 1..Files : f < at[u] => files[f] = "whole"
    /\ cache[u] \in {"fetching", "arrived", "fetched"} => at[u] <= Files
AllWhole == \A f \in 1..Files : files[f] = "whole"
WorksWhole == Place = "load" \/ Place \in Working => AllWhole
FolderInv == OneFetches /\ Checked /\ WorksWhole

\* Before the program has its model nothing was heard, said or translated.
Fresh == (app = "idle" /\ result = "none") \/ Place \in Beginning \/ Place = "load"

Listening == job \in {"dictate", "audio"}
Published == word.status \in {"P", "T"}
Unheard == length = 0 /\ laid = 0 /\ offset = 0 /\ ~Published
StartsUnheard == Listening /\ (Fresh \/ Place \in {"listen", "decode"}) => Unheard
\* What is committed was appended before, and what was taken over was committed.
InOrder ==
  Listening => /\ Published => received <= Length(word) /\ Length(word) <= laid
               /\ ~Published => received = 0
               /\ laid <= length
PeeksAtText ==
  /\ app = "peek" => Listening
  /\ Listening /\ (app = "peek" \/ (app = "seen" /\ seen = "P")) => Published
\* The length on its way to the header is that of the text; once there it is the header's.
Commits ==
  Listening =>
    /\ pc = "write" /\ next = "hear" => (Unheard /\ bytes = <<"C">>) \/ (laid = length /\ bytes = Segment(laid))
    /\ pc = "append" => offset < count /\ (offset > 0 => Published)
    /\ pc = "hear" /\ offset > 0 => Published /\ Length(word) = length
    /\ Published => Place \in {"hear", "append", "ended", "none"}
    /\ Published /\ pc = "write" => bytes[1] \in {"P", "T"}
HearInv == StartsUnheard /\ InOrder /\ PeeksAtText /\ Commits

SpeakPlace ==
  /\ Place = "voice" => rest # <<>>
  /\ Place = "drain" => rest = <<>>
  /\ job # "read" => queue = <<>>
QueueInv ==
  /\ queue \in Seq({1, 2})
  /\ Fresh => queue = <<>>
  /\ Place \in {"speak", "voice"} => Len(queue) <= 1
  /\ TwoQueued
\* What is left to say never starts inside a character.
Sayable(t) == t \in Seq(Kinds) /\ Continued(t) /\ WideWhole(t) /\ AtMostFour(t)
TextInv ==
  /\ Sayable(rest) /\ (Place = "voice" => rest # <<>>)
  /\ spoken \in Seq(Seq(Kinds)) /\ PiecesAreWhole
SpeakInv == SpeakPlace /\ QueueInv /\ TextInv

TranslateInv ==
  job = "translate" /\ Place \in {"publish", "size"} => output > 0 /\ tokens < Tokens

\* A program that says it ended well is about to end, or has ended, with all it had to do.
Ending == pc = "write" /\ next = "ended"
Over == (pc = "ended" \/ app = "exited") /\ code = 0
EndsWell == Ending => code = 0
DownloadEnd == job = "download" => (Ending \/ Over => AllWhole)
HeardEnd == Listening => (Ending \/ Over => Published /\ Length(word) = length /\ offset >= count)
ReadEnd == job = "read" => ~Ending /\ (Over => rest = <<>> /\ queue = <<>>)
TranslateEnd ==
  job = "translate" =>
    /\ Ending \/ Over => size = output /\ output > 0 /\ tokens < Tokens
    /\ Over => word.status = "R"
EndInv == EndsWell /\ DownloadEnd /\ HeardEnd /\ ReadEnd /\ TranslateEnd

\* What is shown as finished stays as it was when the program ended.
Shown ==
  result = "done" =>
    /\ app = "idle"
    /\ Listening => offset >= count /\ received = length
    /\ job = "read" => rest = <<>> /\ queue = <<>>
    /\ job = "translate" => received = output /\ output > 0 /\ tokens < Tokens
    /\ job = "download" => AllWhole

SpeechInv ==
  /\ Types /\ ProcessInv /\ FolderInv /\ CommandKept
  /\ HearInv /\ SpeakInv /\ TranslateInv /\ EndInv /\ Shown

\* A length split into two bytes is put together again.
LEMMA DivMod ==
  ASSUME NEW n \in 0..TextLimit
  PROVE  /\ n % Byte \in 0..(Byte - 1) /\ n \div Byte \in 0..(Byte - 1)
         /\ (n % Byte) + Byte * (n \div Byte) = n
<1>1. Byte \in Nat \ {0} /\ TextLimit \in Nat /\ TextLimit < Byte * Byte
  BY Limits, HeaderFits
<1>2. n \in Nat /\ n < Byte * Byte
  BY <1>1
<1>3. n % Byte \in 0..(Byte - 1) /\ (n % Byte) + Byte * (n \div Byte) = n /\ n \div Byte \in Nat
  BY <1>1, <1>2
<1>4. n \div Byte < Byte
  BY <1>1, <1>2, <1>3
<1> QED
  BY <1>1, <1>3, <1>4

\* A window is never empty: the transcript comes to its end.
LEMMA WindowAdvances == \A n \in Nat \ {0} : WindowOf(n) \in Nat \ {0}
<1> SUFFICES ASSUME NEW n \in Nat \ {0} PROVE WindowOf(n) \in Nat \ {0}
  OBVIOUS
<1>1. \A b \in Nat \ {0} : Ceiling(n, b) \in Nat \ {0}
  BY DEF Ceiling
<1> QED
  BY <1>1, Limits DEF WindowOf

\* One byte written to the header changes its status only.
LEMMA MergeOne ==
  ASSUME NEW w \in Header, NEW s \in Statuses
  PROVE  /\ Merge(w, <<s>>) \in Header /\ Merge(w, <<s>>).status = s
         /\ Merge(w, <<s>>).low = w.low /\ Merge(w, <<s>>).high = w.high
         /\ Merge(w, <<s>>).command = w.command
  BY DEF Merge, Header, Statuses

\* Three bytes change status and length, and keep the command.
LEMMA MergeThree ==
  ASSUME NEW w \in Header, NEW s \in Statuses, NEW l \in Nat, NEW h \in Nat
  PROVE  /\ Merge(w, <<s, l, h>>) \in Header /\ Merge(w, <<s, l, h>>).status = s
         /\ Merge(w, <<s, l, h>>).low = l /\ Merge(w, <<s, l, h>>).high = h
         /\ Merge(w, <<s, l, h>>).command = w.command
<1>1. Merge(w, <<s, l, h>>) = [w EXCEPT !.status = s, !.low = l, !.high = h]
  BY DEF Merge
<1> QED
  BY <1>1 DEF Header, Statuses

\* What an exchange makes of the header.
LEMMA ExchangeEffect ==
  ASSUME Headers, RightBytes, Exchange
  PROVE  \/ word' = word /\ pc' = "write" /\ saw' = word
         \/ /\ pc' = next /\ saw' = saw
            /\ word' \in Header /\ word'.low < Byte /\ word'.high < Byte
            /\ word'.command = word.command /\ word'.status = bytes[1]
            /\ Len(bytes) = 1 => Length(word') = Length(word)
            /\ \A n \in 0..TextLimit : bytes = Segment(n) => Length(word') = n
<1> SUFFICES ASSUME word = saw PROVE
              /\ word' \in Header /\ word'.low < Byte /\ word'.high < Byte
              /\ word'.command = word.command /\ word'.status = bytes[1]
              /\ Len(bytes) = 1 => Length(word') = Length(word)
              /\ \A n \in 0..TextLimit : bytes = Segment(n) => Length(word') = n
  BY DEF Exchange, vars, appVars, memory, work, folder, unwritten
<1>1. word' = Merge(word, bytes) /\ pc = "write"
  BY DEF Exchange
<1>2. CASE \E s \in Statuses : bytes = <<s>>
  <2>1. PICK s \in Statuses : bytes = <<s>>
    BY <1>2
  <2>2. Len(bytes) = 1 /\ bytes[1] = s /\ \A n \in 0..TextLimit : bytes # Segment(n)
    BY <2>1 DEF Segment
  <2> QED
    BY <1>1, <2>1, <2>2, MergeOne DEF Headers, Length
<1>3. CASE \E s \in Statuses : \E l, h \in 0..(Byte - 1) : bytes = <<s, l, h>>
  <2>1. PICK s \in Statuses, l \in 0..(Byte - 1), h \in 0..(Byte - 1) : bytes = <<s, l, h>>
    BY <1>3
  <2>2. Len(bytes) = 3 /\ bytes[1] = s /\ bytes[2] = l /\ bytes[3] = h
    BY <2>1
  <2>3. l \in Nat /\ h \in Nat /\ l < Byte /\ h < Byte
    BY Limits
  <2>4. /\ word' \in Header /\ word'.status = s /\ word'.low = l /\ word'.high = h
        /\ word'.command = word.command
    BY <1>1, <2>1, <2>3, MergeThree DEF Headers
  <2>5. ASSUME NEW n \in 0..TextLimit, bytes = Segment(n) PROVE Length(word') = n
    <3>1. l = n % Byte /\ h = n \div Byte
      BY <2>2, <2>5 DEF Segment
    <3> QED
      BY <2>4, <3>1, DivMod DEF Length
  <2> QED
    BY <2>2, <2>3, <2>4, <2>5
<1>4. (\E s \in Statuses : bytes = <<s>>) \/ \E s \in Statuses : \E l, h \in 0..(Byte - 1) : bytes = <<s, l, h>>
  <2>1. ASSUME NEW f \in 1..Files, NEW n \in 0..2, bytes = Progress(f, n)
        PROVE  \E s \in Statuses : \E l, h \in 0..(Byte - 1) : bytes = <<s, l, h>>
    <3>1. f - 1 \in 0..(Byte - 1) /\ n \in 0..(Byte - 1)
      BY Limits, HeaderFits
    <3> QED
      BY <2>1, <3>1 DEF Progress, Statuses
  <2>2. ASSUME NEW n \in 0..TextLimit, bytes = Segment(n)
        PROVE  \E s \in Statuses : \E l, h \in 0..(Byte - 1) : bytes = <<s, l, h>>
    BY <2>2, DivMod DEF Segment, Statuses
  <2>3. CASE next = "models"
    BY <1>1, <2>1, <2>3 DEF RightBytes
  <2>4. CASE next = "hear"
    BY <1>1, <2>2, <2>4 DEF RightBytes, Statuses
  <2>5. CASE next \notin {"models", "hear"}
    BY <1>1, <2>5 DEF RightBytes, Statuses
  <2> QED
    BY <2>3, <2>4, <2>5
<1> QED
  BY <1>2, <1>3, <1>4

\* The stop command changes neither status nor length.
LEMMA FinishEffect ==
  ASSUME Headers, FinishExchange
  PROVE  word' \in Header /\ word'.status = word.status /\ word'.low = word.low /\ word'.high = word.high
  BY DEF FinishExchange, Headers, Header

\* The length in a header is a number.
LEMMA LengthNat == Headers => Length(word) \in Nat
<1>1. Headers => word.low \in Nat /\ word.high \in Nat
  BY DEF Headers, Header
<1>2. Byte \in Nat /\ \A a, b \in Nat : a * b \in Nat
  BY Limits
<1> QED
  BY <1>1, <1>2 DEF Length

\* A set of numbers has a least one, a bounded one a greatest.
LEMMA LeastExists ==
  ASSUME NEW S, S \subseteq Nat, S # {}
  PROVE  \E x \in S : \A y \in S : x <= y
<1> DEFINE R == {p \in Nat \X Nat : p[1] < p[2]}
<1>1. R = OpToRel(<, Nat)
  BY DEF OpToRel
<1>2. IsWellFoundedOn(R, Nat)
  BY <1>1, NatLessThanWellFounded
<1> HIDE DEF R
<1>3. PICK x \in S : \A y \in S : <<y, x>> \notin R
  BY <1>2, WFMin
<1>4. \A y \in S : ~(y < x)
  BY <1>3 DEF R
<1> QED
  BY <1>3, <1>4

\* The same, from above.
LEMMA GreatestExists ==
  ASSUME NEW n \in Nat, NEW S, S \subseteq 0..n, S # {}
  PROVE  \E x \in S : \A y \in S : y <= x
<1> DEFINE D == {n - y : y \in S}
<1>1. D \subseteq Nat
  <2>1. \A y \in S : n - y \in Nat
    OBVIOUS
  <2> QED
    BY <2>1
<1>5. D # {}
  <2>1. PICK y \in S : TRUE
    OBVIOUS
  <2>2. n - y \in D
    BY <2>1
  <2> QED
    BY <2>2
<1>2. PICK d \in D : \A e \in D : d <= e
  BY <1>1, <1>5, LeastExists
<1>3. PICK x \in S : d = n - x
  OBVIOUS
<1>4. \A y \in S : n - x <= n - y
  BY <1>2, <1>3
<1> QED
  <2>1. \A y \in S : y \in Nat /\ y <= n
    OBVIOUS
  <2> QED
    BY <1>3, <1>4, <2>1

\* What can be said starts with a character.
LEMMA FirstIsWhole == ASSUME NEW t, Sayable(t), t # <<>> PROVE Len(t) \in Nat \ {0} /\ t[1] # "c"
  BY DEF Sayable, Continued

\* A piece of any valid text (tts.c, piece lengths) is never empty, never longer than the
\* model takes, and what follows it starts with a whole character.
THEOREM ChunkIsWhole ==
  ASSUME NEW t, Sayable(t), t # <<>>
  PROVE  /\ ChunkLength(t) \in 1..Chunk /\ ChunkLength(t) \in 1..Len(t)
         /\ ChunkLength(t) < Len(t) => t[ChunkLength(t) + 1] # "c"
<1> DEFINE n == ChunkLength(t)
           ends == {i \in 1..Chunk : Sentence(t, i)}
           whole == {i \in 1..Chunk : t[i + 1] # "c"}
           last(S) == CHOOSE i \in S : \A m \in S : m <= i
           first == CHOOSE i \in ends : \A k \in ends : i <= k
           spaces == {i \in 1..last(whole) : t[i] = "s"}
<1>1. Chunk \in Nat /\ 4 <= Chunk /\ Len(t) \in Nat \ {0} /\ t[1] # "c"
  BY Limits, ChunkHoldsOne, FirstIsWhole
<1>2. n = IF ends # {} THEN IF WideStop(t, first) THEN first + 2 ELSE first
          ELSE IF Len(t) <= Chunk THEN Len(t)
          ELSE IF spaces # {} THEN last(spaces) ELSE last(whole)
  BY DEF ChunkLength
<1> HIDE DEF n
<1>3. CASE ends # {}
  <2>1. \E i \in ends : \A k \in ends : i <= k
    <3>1. ends \subseteq Nat
      BY <1>1
    <3> QED
      BY <1>3, <3>1, LeastExists
  <2>2. first \in ends
    BY <2>1
  <2> HIDE DEF first
  <2>3. first \in 1..Chunk /\ Sentence(t, first)
    BY <2>2
  <2>4. CASE WideStop(t, first)
    <3>1. n = first + 2 /\ n <= Len(t) /\ n <= Chunk /\ t[first] = "w"
      BY <1>2, <1>3, <2>3, <2>4 DEF WideStop
    <3>2. n < Len(t) => t[first + 3] # "c"
      BY <1>1, <2>3, <3>1 DEF Sayable, WideWhole
    <3> QED
      BY <1>1, <2>3, <3>1, <3>2 DEF n
  <2>5. CASE ~WideStop(t, first)
    <3>1. n = first /\ first < Len(t) /\ t[first + 1] = "s"
      BY <1>2, <1>3, <2>3, <2>5 DEF Sentence
    <3>2. n \in 1..Chunk /\ n \in 1..Len(t) /\ t[n + 1] # "c"
      BY <1>1, <2>3, <3>1
    <3> QED
      BY <3>2 DEF n
  <2> QED
    BY <2>4, <2>5
<1>4. CASE ends = {} /\ Len(t) <= Chunk
  BY <1>1, <1>2, <1>4 DEF n
<1>5. CASE ends = {} /\ Chunk < Len(t)
  <2>1. PICK k \in 2..5 : t[k] # "c"
    <3>1. 2 \in 1..Len(t) /\ 2 + 3 <= Len(t) /\ 2..(2 + 3) = 2..5
      BY <1>1, <1>5
    <3> QED
      BY <3>1 DEF Sayable, AtMostFour
  <2>2. k - 1 \in whole
    BY <1>1, <2>1
  <2>3. whole \subseteq 0..Chunk /\ whole # {}
    BY <2>2
  <2>4. last(whole) \in whole
    <3>1. \E i \in whole : \A m \in whole : m <= i
      BY <1>1, <2>3, GreatestExists
    <3> QED
      BY <3>1
  <2>5. last(whole) \in 1..Chunk /\ t[last(whole) + 1] # "c"
    BY <2>4
  <2> DEFINE w == last(whole)
             m == last(spaces)
  <2>6. n = IF spaces # {} THEN m ELSE w
    <3>1. ~(Len(t) <= Chunk)
      BY <1>1, <1>5
    <3> QED
      BY <1>2, <1>5, <3>1
  <2>7. w \in 1..Chunk /\ t[w + 1] # "c"
    BY <2>5
  <2>8. spaces # {} => m \in 1..w /\ t[m] = "s"
    <3> SUFFICES ASSUME spaces # {} PROVE m \in spaces
      OBVIOUS
    <3>1. spaces \subseteq 0..w /\ w \in Nat
      BY <1>1, <2>7
    <3>2. \E i \in spaces : \A j \in spaces : j <= i
      BY <3>1, GreatestExists
    <3> QED
      BY <3>2
  <2> HIDE DEF w, m, spaces
  <2>9. CASE spaces # {}
    <3>1. n = m /\ n \in 1..Chunk /\ n < Len(t) /\ t[n] = "s"
      BY <1>1, <1>5, <2>6, <2>7, <2>8, <2>9
    <3>2. n + 1 \in 1..Len(t) /\ (n + 1) - 1 = n
      BY <1>1, <3>1
    <3>3. t[n + 1] # "c"
      BY <3>1, <3>2 DEF Sayable, Continued
    <3>4. n \in 1..Len(t)
      BY <1>1, <3>1
    <3> QED
      BY <3>1, <3>3, <3>4 DEF n
  <2>10. CASE spaces = {}
    <3>1. n \in 1..Chunk /\ n \in 1..Len(t) /\ t[n + 1] # "c"
      BY <1>1, <1>5, <2>6, <2>7, <2>10
    <3> QED
      BY <3>1 DEF n
  <2> QED
    BY <2>9, <2>10
<1> QED
  BY <1>1, <1>3, <1>4, <1>5

\* What follows a whole character can be said as well.
LEMMA SuffixSayable ==
  ASSUME NEW t, Sayable(t), NEW k \in 0..Len(t), k < Len(t) => t[k + 1] # "c"
  PROVE  Sayable(SubSeq(t, k + 1, Len(t)))
<1> DEFINE s == SubSeq(t, k + 1, Len(t))
<1>1. t \in Seq(Kinds) /\ Len(t) \in Nat
  BY DEF Sayable
<1>2. s \in Seq(Kinds) /\ Len(s) = Len(t) - k /\ \A i \in 1..Len(s) : s[i] = t[k + i]
  BY <1>1
<1> HIDE DEF s
<1>3. \A i \in 1..Len(s) : k + i \in 1..Len(t)
  BY <1>1, <1>2
<1>4. Continued(s)
  <2> SUFFICES ASSUME NEW i \in 1..Len(s), s[i] = "c" PROVE i > 1 /\ s[i - 1] \in {"l", "w", "c"}
    BY DEF Continued
  <2>1. t[k + i] = "c" /\ k + i \in 1..Len(t)
    BY <1>2, <1>3
  <2>2. t[(k + i) - 1] \in {"l", "w", "c"}
    BY <2>1 DEF Sayable, Continued
  <2>3. i # 1
    BY <1>1, <1>2, <2>1
  <2>4. i - 1 \in 1..Len(s) /\ k + (i - 1) = (k + i) - 1 /\ i > 1
    BY <1>1, <1>2, <2>3
  <2> QED
    BY <1>2, <2>2, <2>4
<1>5. WideWhole(s)
  <2> SUFFICES ASSUME NEW i \in 1..Len(s), s[i] = "w"
               PROVE  /\ i + 2 <= Len(s) /\ s[i + 1] = "c" /\ s[i + 2] = "c"
                      /\ i + 3 <= Len(s) => s[i + 3] # "c"
    BY DEF WideWhole
  <2>1. t[k + i] = "w" /\ k + i \in 1..Len(t)
    BY <1>2, <1>3
  <2>2. /\ (k + i) + 2 <= Len(t) /\ t[(k + i) + 1] = "c" /\ t[(k + i) + 2] = "c"
        /\ (k + i) + 3 <= Len(t) => t[(k + i) + 3] # "c"
    BY <2>1 DEF Sayable, WideWhole
  <2>3. /\ k + (i + 1) = (k + i) + 1 /\ k + (i + 2) = (k + i) + 2 /\ k + (i + 3) = (k + i) + 3
        /\ i + 2 <= Len(s) /\ i + 1 \in 1..Len(s) /\ i + 2 \in 1..Len(s)
        /\ i + 3 <= Len(s) => i + 3 \in 1..Len(s) /\ (k + i) + 3 <= Len(t)
    BY <1>1, <1>2, <2>2
  <2> QED
    BY <1>2, <2>2, <2>3
<1>6. AtMostFour(s)
  <2> SUFFICES ASSUME NEW i \in 1..Len(s), i + 3 <= Len(s) PROVE \E j \in i..(i + 3) : s[j] # "c"
    BY DEF AtMostFour
  <2>1. k + i \in 1..Len(t) /\ (k + i) + 3 <= Len(t)
    BY <1>1, <1>2
  <2>2. PICK m \in (k + i)..((k + i) + 3) : t[m] # "c"
    BY <2>1 DEF Sayable, AtMostFour
  <2>3. m - k \in i..(i + 3) /\ m - k \in 1..Len(s) /\ k + (m - k) = m
    BY <1>1, <1>2
  <2> QED
    BY <1>2, <2>2, <2>3
<1> QED
  BY <1>2, <1>4, <1>5, <1>6 DEF Sayable, s

\* Leaving out blanks at the start leaves a text that can be said.
LEMMA TrimmedSayable ==
  ASSUME NEW t, Sayable(t)
  PROVE  Sayable(Trimmed(t))
<1> DEFINE words == {i \in 1..Len(t) : t[i] # "s"}
           first == CHOOSE i \in words : \A k \in words : i <= k
<1>1. Trimmed(t) = IF words = {} THEN <<>> ELSE SubSeq(t, first, Len(t))
  BY DEF Trimmed
<1>0. t \in Seq(Kinds) /\ Len(t) \in Nat
  BY DEF Sayable
<1>2. CASE words = {}
  <2>1. <<>> \in Seq(Kinds) /\ Len(<<>>) = 0 /\ 1..0 = {}
    OBVIOUS
  <2> QED
    BY <1>1, <1>2, <2>1 DEF Sayable, Continued, WideWhole, AtMostFour
<1>3. CASE words # {}
  <2>1. \E i \in words : \A k \in words : i <= k
    <3>1. words \subseteq Nat
      BY <1>0
    <3> QED
      BY <1>3, <3>1, LeastExists
  <2>2. first \in words /\ \A k \in words : first <= k
    BY <2>1
  <2> HIDE DEF first
  <2>3. t # <<>> /\ Len(t) \in Nat /\ first \in 1..Len(t) /\ t[first] # "s"
    BY <1>0, <2>2
  <2>4. t[first] # "c"
    <3>1. first # 1 => first - 1 \in 1..Len(t) /\ ~(first <= first - 1)
      BY <2>3
    <3>2. first # 1 => t[first - 1] = "s"
      BY <2>2, <3>1
    <3> QED
      BY <2>3, <3>2, FirstIsWhole DEF Sayable, Continued
  <2>5. first - 1 \in 0..Len(t) /\ (first - 1) + 1 = first
    BY <2>3
  <2>6. Sayable(SubSeq(t, (first - 1) + 1, Len(t)))
    BY <2>4, <2>5, SuffixSayable
  <2> QED
    BY <1>1, <1>3, <2>5, <2>6
<1> QED
  BY <1>2, <1>3

\* The two programs differ.
LEMMA UserFacts == Helper \in Users /\ Rival \in Users /\ Helper # Rival /\ None \notin Users
  BY UsersDiffer DEF Users

-----------------------------------------------------------------------------
(* Every step preserves every part.  A lemma has one case per group of      *)
(* actions that can disturb its part alike.                                 *)

\* The main thread knows where it is and what the last status meant.
LEMMA KeptStep ==
  ASSUME Kept, Headers, [Next]_vars
  PROVE  Kept'
<1> USE DEF vars, appVars, memory, process, speech, work, folder, unwritten, folderOnly, Kept, Statuses, Headers, Header
<1>1. CASE Launch \/ Stop \/ Tick \/ Wait \/ Peek \/ Collect \/ Finish \/ FinishExchange
  BY <1>1 DEF Launch, Stop, Closed, Leaves, Tick, Wait, Peek, Collect, Finish, FinishExchange
<1>2. CASE Exchange
  BY <1>2 DEF Exchange, Merge
<1>3. CASE Guard \/ Attach \/ AttachInput \/ TakeText \/ Cache \/ Unlock \/ Load
  BY <1>3 DEF Guard, Ends, Goes, Attach, AttachInput, TakeText, Put, Cache, Unlock, Load
<1>4. CASE Listen \/ ListenTooLong \/ MicrophoneFails \/ Decode \/ Hear \/ AppendText \/ Heard
  BY <1>4 DEF Listen, Goes, Put, ListenTooLong, MicrophoneFails, Ends, Decode, Hear, AppendText, Heard
<1>5. CASE Speak \/ Voice \/ Ahead \/ Drain \/ Play
  BY <1>5 DEF Speak, Goes, Put, Voice, Ends, Ahead, Drain, Play, Running
<1>6. CASE Generate \/ Publish \/ PublishSize
  BY <1>6 DEF Generate, Ends, Goes, Publish, PublishSize, Put
<1>7. ASSUME NEW u \in Users, Lock(u) \/ CheckFile(u) \/ Fetch(u) \/ Rename(u) \/ FetchFails(u) PROVE Kept'
  BY <1>7 DEF Lock, InFolder, CheckFile, Report, Put, Fetch, Rename, FetchFails
<1>8. CASE RivalComes \/ RivalDone \/ RivalDies
  BY <1>8 DEF RivalComes, RivalDone, RivalDies, Leaves
<1>9. CASE WatchParent \/ AppDies \/ HelperDies
  BY <1>9 DEF WatchParent, Running, Leaves, AppDies, HelperDies
<1>10. CASE UNCHANGED vars
  BY <1>10
<1> QED
  BY <1>1, <1>2, <1>3, <1>4, <1>5, <1>6, <1>7, <1>8, <1>9, <1>10 DEF Next, App, Begins, Works, Folder

\* Only the two mappings of a job have names.
LEMMA NamedStep ==
  ASSUME Named, [Next]_vars
  PROVE  Named'
<1> USE DEF vars, appVars, memory, process, speech, work, folder, unwritten, folderOnly, Named
<1>1. CASE Launch \/ Stop \/ Tick \/ Wait \/ Peek \/ Collect \/ Finish \/ FinishExchange
  BY <1>1 DEF Launch, Stop, Closed, Leaves, Tick, Wait, Peek, Collect, Finish, FinishExchange
<1>2. CASE Exchange
  BY <1>2 DEF Exchange, Merge
<1>3. CASE Guard \/ Attach \/ AttachInput \/ TakeText \/ Cache \/ Unlock \/ Load
  BY <1>3 DEF Guard, Ends, Goes, Attach, AttachInput, TakeText, Put, Cache, Unlock, Load
<1>4. CASE Listen \/ ListenTooLong \/ MicrophoneFails \/ Decode \/ Hear \/ AppendText \/ Heard
  BY <1>4 DEF Listen, Goes, Put, ListenTooLong, MicrophoneFails, Ends, Decode, Hear, AppendText, Heard
<1>5. CASE Speak \/ Voice \/ Ahead \/ Drain \/ Play
  BY <1>5 DEF Speak, Goes, Put, Voice, Ends, Ahead, Drain, Play, Running
<1>6. CASE Generate \/ Publish \/ PublishSize
  BY <1>6 DEF Generate, Ends, Goes, Publish, PublishSize, Put
<1>7. ASSUME NEW u \in Users, Lock(u) \/ CheckFile(u) \/ Fetch(u) \/ Rename(u) \/ FetchFails(u) PROVE Named'
  BY <1>7 DEF Lock, InFolder, CheckFile, Report, Put, Fetch, Rename, FetchFails
<1>8. CASE RivalComes \/ RivalDone \/ RivalDies
  BY <1>8 DEF RivalComes, RivalDone, RivalDies, Leaves
<1>9. CASE WatchParent \/ AppDies \/ HelperDies
  BY <1>9 DEF WatchParent, Running, Leaves, AppDies, HelperDies
<1>10. CASE UNCHANGED vars
  BY <1>10
<1> QED
  BY <1>1, <1>2, <1>3, <1>4, <1>5, <1>6, <1>7, <1>8, <1>9, <1>10 DEF Next, App, Begins, Works, Folder

\* Exit codes are those of the programs.
LEMMA CodesStep ==
  ASSUME Codes, [Next]_vars
  PROVE  Codes'
<1> USE DEF vars, appVars, memory, process, speech, work, folder, unwritten, folderOnly, Codes
<1>1. CASE Launch \/ Stop \/ Tick \/ Wait \/ Peek \/ Collect \/ Finish \/ FinishExchange
  BY <1>1 DEF Launch, Stop, Closed, Leaves, Tick, Wait, Peek, Collect, Finish, FinishExchange
<1>2. CASE Exchange
  BY <1>2 DEF Exchange, Merge
<1>3. CASE Guard \/ Attach \/ AttachInput \/ TakeText \/ Cache \/ Unlock \/ Load
  BY <1>3 DEF Guard, Ends, Goes, Attach, AttachInput, TakeText, Put, Cache, Unlock, Load
<1>4. CASE Listen \/ ListenTooLong \/ MicrophoneFails \/ Decode \/ Hear \/ AppendText \/ Heard
  BY <1>4 DEF Listen, Goes, Put, ListenTooLong, MicrophoneFails, Ends, Decode, Hear, AppendText, Heard
<1>5. CASE Speak \/ Voice \/ Ahead \/ Drain \/ Play
  BY <1>5 DEF Speak, Goes, Put, Voice, Ends, Ahead, Drain, Play, Running
<1>6. CASE Generate \/ Publish \/ PublishSize
  BY <1>6 DEF Generate, Ends, Goes, Publish, PublishSize, Put
<1>7. ASSUME NEW u \in Users, Lock(u) \/ CheckFile(u) \/ Fetch(u) \/ Rename(u) \/ FetchFails(u) PROVE Codes'
  BY <1>7 DEF Lock, InFolder, CheckFile, Report, Put, Fetch, Rename, FetchFails
<1>8. CASE RivalComes \/ RivalDone \/ RivalDies
  BY <1>8 DEF RivalComes, RivalDone, RivalDies, Leaves
<1>9. CASE WatchParent \/ AppDies \/ HelperDies
  BY <1>9 DEF WatchParent, Running, Leaves, AppDies, HelperDies
<1>10. CASE UNCHANGED vars
  BY <1>10
<1> QED
  BY <1>1, <1>2, <1>3, <1>4, <1>5, <1>6, <1>7, <1>8, <1>9, <1>10 DEF Next, App, Begins, Works, Folder

\* The flags stay flags.
LEMMA FlagsStep ==
  ASSUME Flags, [Next]_vars
  PROVE  Flags'
<1> USE DEF vars, appVars, memory, process, speech, work, folder, unwritten, folderOnly, Flags
<1>1. CASE Launch \/ Stop \/ Tick \/ Wait \/ Peek \/ Collect \/ Finish \/ FinishExchange
  BY <1>1 DEF Launch, Stop, Closed, Leaves, Tick, Wait, Peek, Collect, Finish, FinishExchange
<1>2. CASE Exchange
  BY <1>2 DEF Exchange, Merge
<1>3. CASE Guard \/ Attach \/ AttachInput \/ TakeText \/ Cache \/ Unlock \/ Load
  BY <1>3 DEF Guard, Ends, Goes, Attach, AttachInput, TakeText, Put, Cache, Unlock, Load
<1>4. CASE Listen \/ ListenTooLong \/ MicrophoneFails \/ Decode \/ Hear \/ AppendText \/ Heard
  BY <1>4 DEF Listen, Goes, Put, ListenTooLong, MicrophoneFails, Ends, Decode, Hear, AppendText, Heard
<1>5. CASE Speak \/ Voice \/ Ahead \/ Drain \/ Play
  BY <1>5 DEF Speak, Goes, Put, Voice, Ends, Ahead, Drain, Play, Running
<1>6. CASE Generate \/ Publish \/ PublishSize
  BY <1>6 DEF Generate, Ends, Goes, Publish, PublishSize, Put
<1>7. ASSUME NEW u \in Users, Lock(u) \/ CheckFile(u) \/ Fetch(u) \/ Rename(u) \/ FetchFails(u) PROVE Flags'
  BY <1>7 DEF Lock, InFolder, CheckFile, Report, Put, Fetch, Rename, FetchFails
<1>8. CASE RivalComes \/ RivalDone \/ RivalDies
  BY <1>8 DEF RivalComes, RivalDone, RivalDies, Leaves
<1>9. CASE WatchParent \/ AppDies \/ HelperDies
  BY <1>9 DEF WatchParent, Running, Leaves, AppDies, HelperDies
<1>10. CASE UNCHANGED vars
  BY <1>10
<1> QED
  BY <1>1, <1>2, <1>3, <1>4, <1>5, <1>6, <1>7, <1>8, <1>9, <1>10 DEF Next, App, Begins, Works, Folder

\* A compare-and-exchange leaves a header, its bytes within bounds, whoever wrote first.
LEMMA HeadersStep ==
  ASSUME Headers, RightBytes, [Next]_vars
  PROVE  Headers'
<1> USE DEF vars, appVars, memory, process, speech, work, folder, unwritten, folderOnly, Headers, Header, Statuses
<1>1. CASE Launch \/ Stop \/ Tick \/ Wait \/ Peek \/ Collect \/ Finish
  BY <1>1 DEF Launch, Stop, Closed, Leaves, Tick, Wait, Peek, Collect, Finish
<1>2. CASE FinishExchange
  BY <1>2 DEF FinishExchange
<1>3. CASE Exchange
  BY <1>3, ExchangeEffect DEF Exchange
<1>4. CASE Guard \/ Attach \/ AttachInput \/ TakeText \/ Cache \/ Unlock \/ Load
  BY <1>4 DEF Guard, Ends, Goes, Attach, AttachInput, TakeText, Put, Cache, Unlock, Load
<1>5. CASE Listen \/ ListenTooLong \/ MicrophoneFails \/ Decode \/ Hear \/ AppendText \/ Heard
  BY <1>5 DEF Listen, Goes, Put, ListenTooLong, MicrophoneFails, Ends, Decode, Hear, AppendText, Heard
<1>6. CASE Speak \/ Voice \/ Ahead \/ Drain \/ Play
  BY <1>6 DEF Speak, Goes, Put, Voice, Ends, Ahead, Drain, Play, Running
<1>7. CASE Generate \/ Publish \/ PublishSize
  BY <1>7 DEF Generate, Ends, Goes, Publish, PublishSize, Put
<1>8. ASSUME NEW u \in Users, Lock(u) \/ CheckFile(u) \/ Fetch(u) \/ Rename(u) \/ FetchFails(u) PROVE Headers'
  BY <1>8 DEF Lock, InFolder, CheckFile, Report, Put, Fetch, Rename, FetchFails
<1>9. CASE RivalComes \/ RivalDone \/ RivalDies
  BY <1>9 DEF RivalComes, RivalDone, RivalDies, Leaves
<1>10. CASE WatchParent \/ AppDies \/ HelperDies
  BY <1>10 DEF WatchParent, Running, Leaves, AppDies, HelperDies
<1>11. CASE UNCHANGED vars
  BY <1>11
<1> QED
  BY <1>1, <1>2, <1>3, <1>4, <1>5, <1>6, <1>7, <1>8, <1>9, <1>10, <1>11 DEF Next, App, Begins, Works, Folder

\* No length leaves its buffer: an append fits the transcript, what is taken over was committed.
LEMMA NumbersStep ==
  ASSUME Numbers, Headers, PlaceType, InOrder, PeeksAtText, Commits, HeardEnd, [Next]_vars
  PROVE  Numbers'
<1> USE DEF vars, appVars, memory, process, speech, work, folder, unwritten, folderOnly, Numbers
<1>1. CASE Launch \/ Stop \/ Tick \/ Wait \/ Finish \/ FinishExchange
  BY <1>1, Limits DEF Launch, Stop, Closed, Leaves, Tick, Wait, Finish, FinishExchange
<1>2. CASE Peek
  <2>1. received' = Length(word) /\ Length(word) \in Nat /\ Length(word) <= laid
    BY <1>2, LengthNat DEF Peek, PeeksAtText, InOrder
  <2> QED
    BY <1>2, <2>1, Limits DEF Peek
<1>3. CASE Collect
  <2>1. received' = received \/ received' = length \/ received' = size
    BY <1>3 DEF Collect, HeardEnd, Over, Listening
  <2>2. received' \in Nat
    BY <1>3, <2>1, LengthNat DEF Collect
  <2> QED
    BY <1>3, <2>1, <2>2, Limits DEF Collect, Closed
<1>4. CASE Exchange
  BY <1>4, Limits DEF Exchange, Merge
<1>5. CASE Guard \/ Attach \/ AttachInput \/ TakeText \/ Cache \/ Unlock \/ Load
  BY <1>5, Limits DEF Guard, Ends, Goes, Attach, AttachInput, TakeText, Put, Cache, Unlock, Load
<1>6. CASE ListenTooLong \/ MicrophoneFails \/ Heard
  BY <1>6, Limits DEF ListenTooLong, Put, MicrophoneFails, Ends, Heard
<1>7. CASE Listen
  BY <1>7, Limits DEF Listen, Goes, Put
<1>8. CASE Decode
  BY <1>8, Limits DEF Decode, Ends, Goes
<1>9. CASE Hear
  BY <1>9, Limits DEF Hear, Ends, Goes
<1>10. CASE AppendText
  <2>1. offset < count
    BY <1>10 DEF AppendText, Commits, PlaceType, RightJob, Place, Listening
  <2>2. count \in Nat \ {0}
    BY <2>1 DEF Numbers
  <2>3. WindowOf(count) \in Nat
    BY <2>2, WindowAdvances
  <2> QED
    BY <1>10, <2>3, Limits DEF AppendText, Put
<1>11. CASE Speak \/ Voice \/ Ahead \/ Drain \/ Play
  BY <1>11, Limits DEF Speak, Goes, Put, Voice, Ends, Ahead, Drain, Play, Running
<1>12. CASE Generate
  BY <1>12, Limits DEF Generate, Ends, Goes
<1>13. CASE Publish
  BY <1>13, Limits DEF Publish, Goes
<1>14. CASE PublishSize
  BY <1>14, Limits DEF PublishSize, Put
<1>15. ASSUME NEW u \in Users, Lock(u) \/ CheckFile(u) \/ Fetch(u) \/ Rename(u) \/ FetchFails(u) PROVE Numbers'
  BY <1>15, Limits DEF Lock, InFolder, CheckFile, Report, Put, Fetch, Rename, FetchFails
<1>16. CASE RivalComes \/ RivalDone \/ RivalDies
  BY <1>16, Limits DEF RivalComes, RivalDone, RivalDies, Leaves
<1>17. CASE WatchParent \/ AppDies \/ HelperDies
  BY <1>17, Limits DEF WatchParent, Running, Leaves, AppDies, HelperDies
<1>18. CASE UNCHANGED vars
  BY <1>18, Limits
<1> QED
  BY <1>1, <1>2, <1>3, <1>4, <1>5, <1>6, <1>7, <1>8, <1>9, <1>10, <1>11, <1>12, <1>13, <1>14, <1>15, <1>16, <1>17, <1>18 DEF Next, App, Begins, Works, Folder

\* A program that fetches is at a file of the list.
LEMMA FolderTypeStep ==
  ASSUME FolderType, Checked, [Next]_vars
  PROVE  FolderType'
<1> USE DEF vars, appVars, memory, process, speech, work, folder, unwritten, folderOnly, FolderType, Caches
<1>1. CASE Launch \/ Stop \/ Tick \/ Wait \/ Peek \/ Collect \/ Finish \/ FinishExchange
  BY <1>1, UserFacts, Limits DEF Launch, Stop, Closed, Leaves, Tick, Wait, Peek, Collect, Finish, FinishExchange
<1>2. CASE Exchange
  BY <1>2, UserFacts, Limits DEF Exchange, Merge
<1>3. CASE Guard \/ Attach \/ AttachInput \/ TakeText \/ Cache \/ Unlock \/ Load
  BY <1>3, UserFacts, Limits DEF Guard, Ends, Goes, Attach, AttachInput, TakeText, Put, Cache, Unlock, Load
<1>4. CASE Listen \/ ListenTooLong \/ MicrophoneFails \/ Decode \/ Hear \/ AppendText \/ Heard
  BY <1>4, UserFacts, Limits DEF Listen, Goes, Put, ListenTooLong, MicrophoneFails, Ends, Decode, Hear, AppendText, Heard
<1>5. CASE Speak \/ Voice \/ Ahead \/ Drain \/ Play
  BY <1>5, UserFacts, Limits DEF Speak, Goes, Put, Voice, Ends, Ahead, Drain, Play, Running
<1>6. CASE Generate \/ Publish \/ PublishSize
  BY <1>6, UserFacts, Limits DEF Generate, Ends, Goes, Publish, PublishSize, Put
<1>7. ASSUME NEW u \in Users, Lock(u) PROVE FolderType'
  BY <1>7, UserFacts, Limits DEF Lock, InFolder
<1>8. ASSUME NEW u \in Users, CheckFile(u) PROVE FolderType'
  <2>1. at[u] <= Files => at[u] + 1 \in 1..(Files + 1) /\ at[u] \in 1..Files
    BY Limits
  <2> QED
    BY <1>8, <2>1 DEF CheckFile
<1>9. ASSUME NEW u \in Users, Fetch(u) PROVE FolderType'
  BY <1>9, UserFacts, Limits DEF Fetch, InFolder, Report, Put
<1>10. ASSUME NEW u \in Users, Rename(u) PROVE FolderType'
  <2>1. at[u] <= Files /\ at[u] \in 1..(Files + 1) /\ Files \in Nat
    BY <1>10, Limits DEF Rename, Checked
  <2>2. at[u] + 1 \in 1..(Files + 1) /\ at[u] \in 1..Files
    BY <2>1
  <2>3. FolderType /\ at' \in {at, [at EXCEPT ![u] = @ + 1]} => at' \in [Users -> 1..(Files + 1)]
    BY <2>2
  <2>4. files' \in [1..Files -> {"absent", "damaged", "whole"}]
    BY <1>10 DEF Rename
  <2>5. part' \in [1..Files -> {"absent", "short", "bad", "whole"}]
    BY <1>10 DEF Rename
  <2>6. cache' \in [Users -> {"away", "waiting", "checking", "fetching", "arrived", "fetched"}] /\ lock' = lock
    BY <1>10 DEF Rename
  <2>7. at' \in {at, [at EXCEPT ![u] = @ + 1]}
    BY <1>10 DEF Rename
  <2> QED
    BY <2>3, <2>4, <2>5, <2>6, <2>7
<1>11. ASSUME NEW u \in Users, FetchFails(u) PROVE FolderType'
  BY <1>11, UserFacts, Limits DEF FetchFails, InFolder
<1>12. CASE RivalComes \/ RivalDone \/ RivalDies
  BY <1>12, UserFacts, Limits DEF RivalComes, RivalDone, RivalDies, Leaves
<1>13. CASE WatchParent \/ AppDies \/ HelperDies
  BY <1>13, UserFacts, Limits DEF WatchParent, Running, Leaves, AppDies, HelperDies
<1>14. CASE UNCHANGED vars
  BY <1>14, UserFacts, Limits
<1> QED
  BY <1>1, <1>2, <1>3, <1>4, <1>5, <1>6, <1>7, <1>8, <1>9, <1>10, <1>11, <1>12, <1>13, <1>14 DEF Next, App, Begins, Works, Folder

\* A program is where its job can bring it, and what it writes there is of that place.
LEMMA PlaceStep ==
  ASSUME Numbers, FolderType, Checked, PlaceType, HelperInv, [Next]_vars
  PROVE  PlaceType'
<1> USE DEF vars, appVars, memory, process, speech, work, folder, unwritten, folderOnly, PlaceType, Place, Places, Working, Beginning, RightJob, RightBytes
<1>1. CASE Launch \/ Stop \/ Tick \/ Wait \/ Peek \/ Collect \/ Finish \/ FinishExchange
  BY <1>1 DEF Launch, Stop, Closed, Leaves, Tick, Wait, Peek, Collect, Finish, FinishExchange
<1>2. CASE Exchange
  BY <1>2 DEF Exchange, Merge
<1>3. CASE Guard \/ Attach \/ AttachInput \/ TakeText \/ Cache \/ Unlock \/ Load
  BY <1>3 DEF Guard, Ends, Goes, Attach, AttachInput, TakeText, Put, Cache, Unlock, Load
<1>4. CASE Listen \/ ListenTooLong \/ MicrophoneFails \/ Decode \/ Hear \/ Heard
  BY <1>4 DEF Listen, Goes, Put, ListenTooLong, MicrophoneFails, Ends, Decode, Hear, Heard
<1>5. CASE AppendText
  <2>1. length \in 0..TextLimit
    BY Limits DEF Numbers
  <2> QED
    BY <1>5, <2>1 DEF AppendText, Put
<1>6. CASE Speak \/ Voice \/ Ahead \/ Drain \/ Play
  BY <1>6 DEF Speak, Goes, Put, Voice, Ends, Ahead, Drain, Play, Running
<1>7. CASE Generate \/ Publish \/ PublishSize
  BY <1>7 DEF Generate, Ends, Goes, Publish, PublishSize, Put
<1>8. ASSUME NEW u \in Users, Lock(u) \/ Rename(u) \/ FetchFails(u) PROVE PlaceType'
  BY <1>8 DEF Lock, InFolder, Rename, FetchFails
<1>9. ASSUME NEW u \in Users, CheckFile(u) PROVE PlaceType'
  <2>1. cache[u] = "checking" /\ at[u] <= Files => at[u] \in 1..Files
    BY Limits DEF FolderType
  <2> QED
    BY <1>9, <2>1 DEF CheckFile, InFolder, Report, Put
<1>10. ASSUME NEW u \in Users, Fetch(u) PROVE PlaceType'
  <2>1. at[u] \in 1..Files
    BY <1>10, Limits DEF FolderType, Checked, Fetch
  <2> QED
    BY <1>10, <2>1 DEF Fetch, InFolder, Report, Put
<1>11. CASE RivalComes \/ RivalDone \/ RivalDies
  BY <1>11 DEF RivalComes, RivalDone, RivalDies, Leaves
<1>12. CASE WatchParent \/ AppDies \/ HelperDies
  BY <1>12 DEF WatchParent, Running, Leaves, AppDies, HelperDies
<1>13. CASE UNCHANGED vars
  BY <1>13
<1> QED
  BY <1>1, <1>2, <1>3, <1>4, <1>5, <1>6, <1>7, <1>8, <1>9, <1>10, <1>11, <1>12, <1>13 DEF Next, App, Begins, Works, Folder

\* The program uses the folder only while its code says so; over means collected.
LEMMA HelperStep ==
  ASSUME Caches, PlaceType, HelperInv, [Next]_vars
  PROVE  HelperInv'
<1> USE DEF vars, appVars, memory, process, speech, work, folder, unwritten, folderOnly, PlaceType, Place, Places, Beginning, Working, RightJob, RightBytes, HelperInv, Caches
<1>1. CASE Launch \/ Stop \/ Tick \/ Wait \/ Peek \/ Collect \/ Finish \/ FinishExchange
  BY <1>1, UserFacts DEF Launch, Stop, Closed, Leaves, Tick, Wait, Peek, Collect, Finish, FinishExchange
<1>2. CASE Exchange
  BY <1>2, UserFacts DEF Exchange, Merge
<1>3. CASE Guard \/ Attach \/ AttachInput \/ TakeText \/ Cache \/ Unlock \/ Load
  BY <1>3, UserFacts DEF Guard, Ends, Goes, Attach, AttachInput, TakeText, Put, Cache, Unlock, Load
<1>4. CASE Listen \/ ListenTooLong \/ MicrophoneFails \/ Decode \/ Hear \/ AppendText \/ Heard
  BY <1>4, UserFacts DEF Listen, Goes, Put, ListenTooLong, MicrophoneFails, Ends, Decode, Hear, AppendText, Heard
<1>5. CASE Speak \/ Voice \/ Ahead \/ Drain \/ Play
  BY <1>5, UserFacts DEF Speak, Goes, Put, Voice, Ends, Ahead, Drain, Play, Running
<1>6. CASE Generate \/ Publish \/ PublishSize
  BY <1>6, UserFacts DEF Generate, Ends, Goes, Publish, PublishSize, Put
<1>7. ASSUME NEW u \in Users, Lock(u) \/ CheckFile(u) \/ Fetch(u) \/ Rename(u) \/ FetchFails(u) PROVE HelperInv'
  BY <1>7, UserFacts DEF Lock, InFolder, CheckFile, Report, Put, Fetch, Rename, FetchFails
<1>8. CASE RivalComes \/ RivalDone \/ RivalDies
  BY <1>8, UserFacts DEF RivalComes, RivalDone, RivalDies, Leaves
<1>9. CASE WatchParent \/ AppDies \/ HelperDies
  BY <1>9, UserFacts DEF WatchParent, Running, Leaves, AppDies, HelperDies
<1>10. CASE UNCHANGED vars
  BY <1>10, UserFacts
<1> QED
  BY <1>1, <1>2, <1>3, <1>4, <1>5, <1>6, <1>7, <1>8, <1>9, <1>10 DEF Next, App, Begins, Works, Folder

\* The lock of the folder has one holder, and who works in it holds it.
LEMMA OneStep ==
  ASSUME Caches, OneFetches, [Next]_vars
  PROVE  OneFetches'
<1> USE DEF vars, appVars, memory, process, speech, work, folder, unwritten, folderOnly, Caches, OneFetches
<1>1. CASE Launch \/ Stop \/ Tick \/ Wait \/ Peek \/ Collect \/ Finish \/ FinishExchange
  BY <1>1, UserFacts DEF Launch, Stop, Closed, Leaves, Tick, Wait, Peek, Collect, Finish, FinishExchange
<1>2. CASE Exchange
  BY <1>2, UserFacts DEF Exchange, Merge
<1>3. CASE Guard \/ Attach \/ AttachInput \/ TakeText \/ Cache \/ Unlock \/ Load
  BY <1>3, UserFacts DEF Guard, Ends, Goes, Attach, AttachInput, TakeText, Put, Cache, Unlock, Load
<1>4. CASE Listen \/ ListenTooLong \/ MicrophoneFails \/ Decode \/ Hear \/ AppendText \/ Heard
  BY <1>4, UserFacts DEF Listen, Goes, Put, ListenTooLong, MicrophoneFails, Ends, Decode, Hear, AppendText, Heard
<1>5. CASE Speak \/ Voice \/ Ahead \/ Drain \/ Play
  BY <1>5, UserFacts DEF Speak, Goes, Put, Voice, Ends, Ahead, Drain, Play, Running
<1>6. CASE Generate \/ Publish \/ PublishSize
  BY <1>6, UserFacts DEF Generate, Ends, Goes, Publish, PublishSize, Put
<1>7. ASSUME NEW u \in Users, Lock(u) \/ CheckFile(u) \/ Fetch(u) \/ Rename(u) \/ FetchFails(u) PROVE OneFetches'
  BY <1>7, UserFacts DEF Lock, InFolder, CheckFile, Report, Put, Fetch, Rename, FetchFails
<1>8. CASE RivalComes \/ RivalDone \/ RivalDies
  BY <1>8, UserFacts DEF RivalComes, RivalDone, RivalDies, Leaves
<1>9. CASE WatchParent \/ AppDies \/ HelperDies
  BY <1>9, UserFacts DEF WatchParent, Running, Leaves, AppDies, HelperDies
<1>10. CASE UNCHANGED vars
  BY <1>10, UserFacts
<1> QED
  BY <1>1, <1>2, <1>3, <1>4, <1>5, <1>6, <1>7, <1>8, <1>9, <1>10 DEF Next, App, Begins, Works, Folder

\* The files below the place of a user stay whole, whatever the other one does.
LEMMA CheckedStep ==
  ASSUME FolderType, Checked, [Next]_vars
  PROVE  Checked'
<1> USE DEF vars, appVars, memory, process, speech, work, folder, unwritten, folderOnly, Caches, FolderType, Checked
<1>1. CASE Launch \/ Stop \/ Tick \/ Wait \/ Peek \/ Collect \/ Finish \/ FinishExchange
  BY <1>1, UserFacts DEF Launch, Stop, Closed, Leaves, Tick, Wait, Peek, Collect, Finish, FinishExchange
<1>2. CASE Exchange
  BY <1>2, UserFacts DEF Exchange, Merge
<1>3. CASE Guard \/ Attach \/ AttachInput \/ TakeText \/ Cache \/ Unlock \/ Load
  BY <1>3, UserFacts DEF Guard, Ends, Goes, Attach, AttachInput, TakeText, Put, Cache, Unlock, Load
<1>4. CASE Listen \/ ListenTooLong \/ MicrophoneFails \/ Decode \/ Hear \/ AppendText \/ Heard
  BY <1>4, UserFacts DEF Listen, Goes, Put, ListenTooLong, MicrophoneFails, Ends, Decode, Hear, AppendText, Heard
<1>5. CASE Speak \/ Voice \/ Ahead \/ Drain \/ Play
  BY <1>5, UserFacts DEF Speak, Goes, Put, Voice, Ends, Ahead, Drain, Play, Running
<1>6. CASE Generate \/ Publish \/ PublishSize
  BY <1>6, UserFacts DEF Generate, Ends, Goes, Publish, PublishSize, Put
<1>7. ASSUME NEW u \in Users, Lock(u) PROVE Checked'
  BY <1>7, UserFacts DEF Lock, InFolder
<1>8. ASSUME NEW u \in Users, CheckFile(u) PROVE Checked'
  <2>1. \A f \in 1..Files : f < at[u] + 1 => f < at[u] \/ f = at[u]
    BY Limits
  <2>2. \A v \in Users : v # u => cache'[v] = cache[v] /\ at'[v] = at[v]
    BY <1>8 DEF CheckFile
  <2>3. CASE files[at[u]] = "whole"
    BY <1>8, <2>1, <2>2, <2>3 DEF CheckFile
  <2>4. CASE files[at[u]] # "whole"
    BY <1>8, <2>2, <2>4 DEF CheckFile
  <2> QED
    BY <2>3, <2>4
<1>9. ASSUME NEW u \in Users, Fetch(u) PROVE Checked'
  BY <1>9, UserFacts DEF Fetch, InFolder, Report, Put
<1>10. ASSUME NEW u \in Users, Rename(u) PROVE Checked'
  <2>1. \A f \in 1..Files : f < at[u] + 1 => f < at[u] \/ f = at[u]
    BY Limits
  <2>2. \A v \in Users : v # u => cache'[v] = cache[v] /\ at'[v] = at[v]
    BY <1>10 DEF Rename
  <2>3. \A f \in 1..Files : files[f] = "whole" => files'[f] = "whole"
    BY <1>10 DEF Rename
  <2>0. at[u] \in 1..Files
    BY <1>10, Limits DEF Rename
  <2>6. files \in [1..Files -> {"absent", "damaged", "whole"}]
    BY DEF FolderType
  <2>4. CASE part[at[u]] = "whole" /\ cache' = [cache EXCEPT ![u] = "checking"]
    <3>0. at'[u] = at[u] + 1 /\ files' = [files EXCEPT ![at[u]] = "whole"]
      BY <1>10, <2>4 DEF Rename
    <3>1. files'[at[u]] = "whole"
      BY <2>0, <2>6, <3>0
    <3> QED
      BY <1>10, <2>1, <2>2, <2>3, <2>4, <3>0, <3>1 DEF Rename
  <2>5. CASE cache' = [cache EXCEPT ![u] = "fetched"]
    <3>1. at' = at /\ files' = files
      BY <1>10, <2>5 DEF Rename
    <3> QED
      BY <1>10, <2>0, <2>2, <2>5, <3>1 DEF Rename
  <2> QED
    BY <1>10, <2>4, <2>5 DEF Rename
<1>11. ASSUME NEW u \in Users, FetchFails(u) PROVE Checked'
  BY <1>11, UserFacts DEF FetchFails, InFolder
<1>12. CASE RivalComes \/ RivalDone \/ RivalDies
  BY <1>12, UserFacts DEF RivalComes, RivalDone, RivalDies, Leaves
<1>13. CASE WatchParent \/ AppDies \/ HelperDies
  BY <1>13, UserFacts DEF WatchParent, Running, Leaves, AppDies, HelperDies
<1>14. CASE UNCHANGED vars
  BY <1>14, UserFacts
<1> QED
  BY <1>1, <1>2, <1>3, <1>4, <1>5, <1>6, <1>7, <1>8, <1>9, <1>10, <1>11, <1>12, <1>13, <1>14 DEF Next, App, Begins, Works, Folder

\* A model is loaded only when every file was found whole, and stays so.
LEMMA WorksStep ==
  ASSUME PlaceType, FolderType, Checked, WorksWhole, [Next]_vars
  PROVE  WorksWhole'
<1> USE DEF vars, appVars, memory, process, speech, work, folder, unwritten, folderOnly, Place, PlaceType, Beginning, Working, WorksWhole, RightBytes
<1>a. files' = files => AllWhole' = AllWhole
  BY DEF AllWhole
<1>1. CASE Launch \/ Stop \/ Tick \/ Wait \/ Peek \/ Collect \/ Finish \/ FinishExchange
  BY <1>1, <1>a DEF Launch, Stop, Closed, Leaves, Tick, Wait, Peek, Collect, Finish, FinishExchange
<1>2. CASE Exchange
  BY <1>2, <1>a DEF Exchange, Merge
<1>3. CASE Guard \/ Attach \/ AttachInput \/ TakeText \/ Cache \/ Load
  BY <1>3, <1>a DEF Guard, Ends, Goes, Attach, AttachInput, TakeText, Put, Cache, Load
<1>4. CASE Unlock
  <2>1. \A f \in 1..Files : f < at[Helper]
    BY <1>4, Limits, UserFacts DEF Unlock, FolderType
  <2>2. AllWhole
    BY <1>4, <2>1, UserFacts DEF Unlock, AllWhole, Checked
  <2> QED
    BY <1>4, <1>a, <2>2 DEF Unlock, Put
<1>5. CASE Listen \/ ListenTooLong \/ MicrophoneFails \/ Decode \/ Hear \/ AppendText \/ Heard
  BY <1>5, <1>a DEF Listen, Goes, Put, ListenTooLong, MicrophoneFails, Ends, Decode, Hear, AppendText, Heard
<1>6. CASE Speak \/ Voice \/ Ahead \/ Drain \/ Play
  BY <1>6, <1>a DEF Speak, Goes, Put, Voice, Ends, Ahead, Drain, Play, Running
<1>7. CASE Generate \/ Publish \/ PublishSize
  BY <1>7, <1>a DEF Generate, Ends, Goes, Publish, PublishSize, Put
<1>8. ASSUME NEW u \in Users, Lock(u) PROVE WorksWhole'
  BY <1>8, <1>a DEF Lock, InFolder
<1>9. ASSUME NEW u \in Users, CheckFile(u) PROVE WorksWhole'
  BY <1>9, <1>a DEF CheckFile, InFolder, Report, Put
<1>10. ASSUME NEW u \in Users, Fetch(u) PROVE WorksWhole'
  BY <1>10, <1>a DEF Fetch, InFolder, Report, Put
<1>11. ASSUME NEW u \in Users, Rename(u) PROVE WorksWhole'
  <2>1. AllWhole => AllWhole'
    BY <1>11 DEF Rename, FolderType, AllWhole
  <2> QED
    BY <1>11, <2>1 DEF Rename, InFolder
<1>12. ASSUME NEW u \in Users, FetchFails(u) PROVE WorksWhole'
  BY <1>12, <1>a DEF FetchFails, InFolder
<1>13. CASE RivalComes \/ RivalDone \/ RivalDies
  BY <1>13, <1>a DEF RivalComes, RivalDone, RivalDies, Leaves
<1>14. CASE WatchParent \/ AppDies \/ HelperDies
  BY <1>14, <1>a DEF WatchParent, Running, Leaves, AppDies, HelperDies
<1>15. CASE UNCHANGED vars
  BY <1>15, <1>a
<1> QED
  BY <1>1, <1>2, <1>3, <1>4, <1>5, <1>6, <1>7, <1>8, <1>9, <1>10, <1>11, <1>12, <1>13, <1>14, <1>15 DEF Next, App, Begins, Works, Folder

\* The stop command survives every write of the program to the header.
LEMMA CommandStep ==
  ASSUME Headers, RightBytes, CommandKept, [Next]_vars
  PROVE  CommandKept'
<1> USE DEF vars, appVars, memory, process, speech, work, folder, unwritten, folderOnly, CommandKept, Headers, Header
<1>1. CASE Launch \/ Stop \/ Tick \/ Wait \/ Peek \/ Collect \/ Finish \/ FinishExchange
  BY <1>1 DEF Launch, Stop, Closed, Leaves, Tick, Wait, Peek, Collect, Finish, FinishExchange
<1>2. CASE Exchange
  BY <1>2, ExchangeEffect DEF Exchange
<1>3. CASE Guard \/ Attach \/ AttachInput \/ TakeText \/ Cache \/ Unlock \/ Load
  BY <1>3 DEF Guard, Ends, Goes, Attach, AttachInput, TakeText, Put, Cache, Unlock, Load
<1>4. CASE Listen \/ ListenTooLong \/ MicrophoneFails \/ Decode \/ Hear \/ AppendText \/ Heard
  BY <1>4 DEF Listen, Goes, Put, ListenTooLong, MicrophoneFails, Ends, Decode, Hear, AppendText, Heard
<1>5. CASE Speak \/ Voice \/ Ahead \/ Drain \/ Play
  BY <1>5 DEF Speak, Goes, Put, Voice, Ends, Ahead, Drain, Play, Running
<1>6. CASE Generate \/ Publish \/ PublishSize
  BY <1>6 DEF Generate, Ends, Goes, Publish, PublishSize, Put
<1>7. ASSUME NEW u \in Users, Lock(u) \/ CheckFile(u) \/ Fetch(u) \/ Rename(u) \/ FetchFails(u) PROVE CommandKept'
  BY <1>7 DEF Lock, InFolder, CheckFile, Report, Put, Fetch, Rename, FetchFails
<1>8. CASE RivalComes \/ RivalDone \/ RivalDies
  BY <1>8 DEF RivalComes, RivalDone, RivalDies, Leaves
<1>9. CASE WatchParent \/ AppDies \/ HelperDies
  BY <1>9 DEF WatchParent, Running, Leaves, AppDies, HelperDies
<1>10. CASE UNCHANGED vars
  BY <1>10
<1> QED
  BY <1>1, <1>2, <1>3, <1>4, <1>5, <1>6, <1>7, <1>8, <1>9, <1>10 DEF Next, App, Begins, Works, Folder

\* Before its first window a program has committed nothing.
LEMMA StartsStep ==
  ASSUME Headers, PlaceType, HelperInv, StartsUnheard, [Next]_vars
  PROVE  StartsUnheard'
<1> USE DEF vars, appVars, memory, process, speech, work, folder, unwritten, folderOnly, PlaceType, Place, Places, Beginning, Working, RightJob, RightBytes, HelperInv, Listening, Fresh, StartsUnheard, Unheard, Published
<1>1. CASE Launch \/ Stop \/ Tick \/ Wait \/ Peek \/ Collect \/ Finish
  BY <1>1 DEF Launch, Stop, Closed, Leaves, Tick, Wait, Peek, Collect, Finish
<1>2. CASE FinishExchange
  <2>1. word'.status = word.status /\ Length(word') = Length(word)
    BY <1>2, FinishEffect DEF Length
  <2> QED
    BY <1>2, <2>1 DEF FinishExchange
<1>3. CASE Exchange
  <2>1. \/ word' = word /\ pc' = "write" /\ saw' = word
        \/ /\ pc' = next /\ word'.status = bytes[1]
           /\ Len(bytes) = 1 => Length(word') = Length(word)
           /\ \A n \in 0..TextLimit : bytes = Segment(n) => Length(word') = n
    BY <1>3, ExchangeEffect
  <2>2. next \in Beginning \cup {"load", "listen", "decode"} => bytes[1] \notin {"P", "T"}
    BY <1>3 DEF Exchange, Progress
  <2> QED
    BY <1>3, <2>1, <2>2 DEF Exchange
<1>4. CASE Guard \/ Attach \/ AttachInput \/ TakeText \/ Cache \/ Unlock \/ Load
  BY <1>4 DEF Guard, Ends, Goes, Attach, AttachInput, TakeText, Put, Cache, Unlock, Load
<1>5. CASE Listen \/ ListenTooLong \/ MicrophoneFails \/ Decode \/ Hear \/ AppendText \/ Heard
  BY <1>5 DEF Listen, Goes, Put, ListenTooLong, MicrophoneFails, Ends, Decode, Hear, AppendText, Heard
<1>6. CASE Speak \/ Voice \/ Ahead \/ Drain \/ Play
  BY <1>6 DEF Speak, Goes, Put, Voice, Ends, Ahead, Drain, Play, Running
<1>7. CASE Generate \/ Publish \/ PublishSize
  BY <1>7 DEF Generate, Ends, Goes, Publish, PublishSize, Put
<1>8. ASSUME NEW u \in Users, Lock(u) \/ CheckFile(u) \/ Fetch(u) \/ Rename(u) \/ FetchFails(u) PROVE StartsUnheard'
  BY <1>8 DEF Lock, InFolder, CheckFile, Report, Put, Fetch, Rename, FetchFails
<1>9. CASE RivalComes \/ RivalDone \/ RivalDies
  BY <1>9 DEF RivalComes, RivalDone, RivalDies, Leaves
<1>10. CASE WatchParent \/ AppDies \/ HelperDies
  BY <1>10 DEF WatchParent, Running, Leaves, AppDies, HelperDies
<1>11. CASE UNCHANGED vars
  BY <1>11
<1> QED
  BY <1>1, <1>2, <1>3, <1>4, <1>5, <1>6, <1>7, <1>8, <1>9, <1>10, <1>11 DEF Next, App, Begins, Works, Folder

\* A status that says there is text keeps saying so.
LEMMA PeeksStep ==
  ASSUME Headers, PlaceType, HelperInv, Commits, PeeksAtText, [Next]_vars
  PROVE  PeeksAtText'
<1> USE DEF vars, appVars, memory, process, speech, work, folder, unwritten, folderOnly, PlaceType, Place, Places, Beginning, Working, RightJob, RightBytes, HelperInv, Listening, PeeksAtText, Published, Commits
<1>1. CASE Launch \/ Stop \/ Tick \/ Wait \/ Peek \/ Collect \/ Finish
  BY <1>1 DEF Launch, Stop, Closed, Leaves, Tick, Wait, Peek, Collect, Finish
<1>2. CASE FinishExchange
  <2>1. word'.status = word.status /\ Length(word') = Length(word)
    BY <1>2, FinishEffect DEF Length
  <2> QED
    BY <1>2, <2>1 DEF FinishExchange
<1>3. CASE Exchange
  <2>1. \/ word' = word /\ pc' = "write" /\ saw' = word
        \/ /\ pc' = next /\ word'.status = bytes[1]
           /\ Len(bytes) = 1 => Length(word') = Length(word)
           /\ \A n \in 0..TextLimit : bytes = Segment(n) => Length(word') = n
    BY <1>3, ExchangeEffect
  <2> QED
    BY <1>3, <2>1 DEF Exchange
<1>4. CASE Guard \/ Attach \/ AttachInput \/ TakeText \/ Cache \/ Unlock \/ Load
  BY <1>4 DEF Guard, Ends, Goes, Attach, AttachInput, TakeText, Put, Cache, Unlock, Load
<1>5. CASE Listen \/ ListenTooLong \/ MicrophoneFails \/ Decode \/ Hear \/ AppendText \/ Heard
  BY <1>5 DEF Listen, Goes, Put, ListenTooLong, MicrophoneFails, Ends, Decode, Hear, AppendText, Heard
<1>6. CASE Speak \/ Voice \/ Ahead \/ Drain \/ Play
  BY <1>6 DEF Speak, Goes, Put, Voice, Ends, Ahead, Drain, Play, Running
<1>7. CASE Generate \/ Publish \/ PublishSize
  BY <1>7 DEF Generate, Ends, Goes, Publish, PublishSize, Put
<1>8. ASSUME NEW u \in Users, Lock(u) \/ CheckFile(u) \/ Fetch(u) \/ Rename(u) \/ FetchFails(u) PROVE PeeksAtText'
  BY <1>8 DEF Lock, InFolder, CheckFile, Report, Put, Fetch, Rename, FetchFails
<1>9. CASE RivalComes \/ RivalDone \/ RivalDies
  BY <1>9 DEF RivalComes, RivalDone, RivalDies, Leaves
<1>10. CASE WatchParent \/ AppDies \/ HelperDies
  BY <1>10 DEF WatchParent, Running, Leaves, AppDies, HelperDies
<1>11. CASE UNCHANGED vars
  BY <1>11
<1> QED
  BY <1>1, <1>2, <1>3, <1>4, <1>5, <1>6, <1>7, <1>8, <1>9, <1>10, <1>11 DEF Next, App, Begins, Works, Folder

\* What is committed next is the length of the text that was appended.
LEMMA CommitsStep ==
  ASSUME Headers, Numbers, PlaceType, HelperInv, StartsUnheard, InOrder, Commits, [Next]_vars
  PROVE  Commits'
<1> USE DEF vars, appVars, memory, process, speech, work, folder, unwritten, folderOnly, PlaceType, Place, Places, Beginning, Working, RightJob, RightBytes, HelperInv, Listening, Fresh, InOrder, StartsUnheard, Unheard, Published, Commits
<1>1. CASE Launch \/ Stop \/ Tick \/ Wait \/ Peek \/ Collect \/ Finish
  BY <1>1 DEF Launch, Stop, Closed, Leaves, Tick, Wait, Peek, Collect, Finish
<1>2. CASE FinishExchange
  <2>1. word'.status = word.status /\ Length(word') = Length(word)
    BY <1>2, FinishEffect DEF Length
  <2> QED
    BY <1>2, <2>1 DEF FinishExchange
<1>3. CASE Exchange
  <2>1. \/ word' = word /\ pc' = "write" /\ saw' = word
        \/ /\ pc' = next /\ word'.status = bytes[1]
           /\ Len(bytes) = 1 => Length(word') = Length(word)
           /\ \A n \in 0..TextLimit : bytes = Segment(n) => Length(word') = n
    BY <1>3, ExchangeEffect
  <2>2. CASE next = "hear"
    <3>1. Listening /\ bytes # <<"C">> => bytes = Segment(laid) /\ laid = length /\ laid \in 0..TextLimit
      BY <1>3, <2>2, Limits DEF Exchange, Numbers
    <3>2. Segment(laid)[1] = "P"
      BY DEF Segment
    <3> QED
      BY <1>3, <2>1, <2>2, <3>1, <3>2, Limits DEF Exchange
  <2>3. CASE next # "hear"
    BY <1>3, <2>1, <2>3 DEF Exchange, Progress
  <2> QED
    BY <2>2, <2>3
<1>4. CASE Guard \/ Attach \/ AttachInput \/ TakeText \/ Cache \/ Unlock \/ Load
  BY <1>4 DEF Guard, Ends, Goes, Attach, AttachInput, TakeText, Put, Cache, Unlock, Load
<1>5. CASE Listen \/ ListenTooLong \/ MicrophoneFails \/ Decode \/ Hear \/ Heard
  BY <1>5 DEF Listen, Goes, Put, ListenTooLong, MicrophoneFails, Ends, Decode, Hear, Heard
<1>6. CASE AppendText
  BY <1>6 DEF AppendText, Put, Segment
<1>7. CASE Speak \/ Voice \/ Ahead \/ Drain \/ Play
  BY <1>7 DEF Speak, Goes, Put, Voice, Ends, Ahead, Drain, Play, Running
<1>8. CASE Generate \/ Publish \/ PublishSize
  BY <1>8 DEF Generate, Ends, Goes, Publish, PublishSize, Put
<1>9. ASSUME NEW u \in Users, Lock(u) \/ CheckFile(u) \/ Fetch(u) \/ Rename(u) \/ FetchFails(u) PROVE Commits'
  BY <1>9 DEF Lock, InFolder, CheckFile, Report, Put, Fetch, Rename, FetchFails
<1>10. CASE RivalComes \/ RivalDone \/ RivalDies
  BY <1>10 DEF RivalComes, RivalDone, RivalDies, Leaves
<1>11. CASE WatchParent \/ AppDies \/ HelperDies
  BY <1>11 DEF WatchParent, Running, Leaves, AppDies, HelperDies
<1>12. CASE UNCHANGED vars
  BY <1>12
<1> QED
  BY <1>1, <1>2, <1>3, <1>4, <1>5, <1>6, <1>7, <1>8, <1>9, <1>10, <1>11, <1>12 DEF Next, App, Begins, Works, Folder

\* The committed length never goes back and never runs ahead of the text.
LEMMA InOrderStep ==
  ASSUME Headers, Numbers, PlaceType, HelperInv, StartsUnheard, InOrder, PeeksAtText, Commits, HeardEnd, [Next]_vars
  PROVE  InOrder'
<1> USE DEF vars, appVars, memory, process, speech, work, folder, unwritten, folderOnly, PlaceType, Place, Places, Beginning, Working, RightJob, RightBytes, HelperInv, Listening, Fresh, InOrder, StartsUnheard, Unheard, Published, Commits
<1>1. CASE Launch \/ Stop \/ Tick \/ Wait \/ Finish
  BY <1>1, LengthNat DEF Launch, Stop, Closed, Leaves, Tick, Wait, Finish
<1>2. CASE Peek
  BY <1>2, LengthNat DEF Peek
<1>3. CASE Collect
  <2>1. Listening => received' = received \/ (received' = Length(word) /\ Published)
    BY <1>3 DEF Collect, HeardEnd, Over
  <2> QED
    BY <1>3, <2>1, LengthNat DEF Collect, Closed
<1>4. CASE FinishExchange
  <2>1. word'.status = word.status /\ Length(word') = Length(word)
    BY <1>4, FinishEffect DEF Length
  <2> QED
    BY <1>4, <2>1 DEF FinishExchange
<1>5. CASE Exchange
  <2>1. \/ word' = word /\ pc' = "write" /\ saw' = word
        \/ /\ pc' = next /\ word'.status = bytes[1]
           /\ Len(bytes) = 1 => Length(word') = Length(word)
           /\ \A n \in 0..TextLimit : bytes = Segment(n) => Length(word') = n
    BY <1>5, ExchangeEffect
  <2>2. CASE ~Published'
    BY <1>5, <2>1, <2>2 DEF Exchange
  <2>3. CASE Published' /\ word' # word /\ next = "hear"
    <3>1. Listening => bytes = Segment(laid) /\ laid = length /\ laid \in 0..TextLimit
      BY <1>5, <2>1, <2>3, Limits DEF Exchange, Numbers
    <3> QED
      BY <1>5, <2>1, <2>3, <3>1, Limits, LengthNat DEF Exchange, Numbers
  <2>4. CASE Published' /\ word' # word /\ next = "ended"
    BY <1>5, <2>1, <2>4 DEF Exchange, HeardEnd, Ending
  <2>5. CASE Published' /\ word' # word /\ next \notin {"hear", "ended"}
    BY <1>5, <2>1, <2>5 DEF Exchange, Progress
  <2>6. CASE word' = word
    BY <1>5, <2>6 DEF Exchange
  <2> QED
    BY <2>2, <2>3, <2>4, <2>5, <2>6
<1>6. CASE Guard \/ Attach \/ AttachInput \/ TakeText \/ Cache \/ Unlock \/ Load
  BY <1>6, LengthNat DEF Guard, Ends, Goes, Attach, AttachInput, TakeText, Put, Cache, Unlock, Load
<1>7. CASE Listen \/ ListenTooLong \/ MicrophoneFails \/ Decode \/ Heard
  BY <1>7, LengthNat DEF Listen, Goes, Put, ListenTooLong, MicrophoneFails, Ends, Decode, Heard
<1>8. CASE Hear
  <2>1. length' \in Nat /\ length <= length'
    BY <1>8, Limits DEF Hear, Numbers
  <2> QED
    BY <1>8, <2>1 DEF Hear, Ends, Goes, Numbers
<1>9. CASE AppendText
  BY <1>9, LengthNat DEF AppendText, Put, Numbers
<1>10. CASE Speak \/ Voice \/ Ahead \/ Drain \/ Play
  BY <1>10, LengthNat DEF Speak, Goes, Put, Voice, Ends, Ahead, Drain, Play, Running
<1>11. CASE Generate \/ Publish \/ PublishSize
  BY <1>11, LengthNat DEF Generate, Ends, Goes, Publish, PublishSize, Put
<1>12. ASSUME NEW u \in Users, Lock(u) \/ CheckFile(u) \/ Fetch(u) \/ Rename(u) \/ FetchFails(u) PROVE InOrder'
  BY <1>12, LengthNat DEF Lock, InFolder, CheckFile, Report, Put, Fetch, Rename, FetchFails
<1>13. CASE RivalComes \/ RivalDone \/ RivalDies
  BY <1>13, LengthNat DEF RivalComes, RivalDone, RivalDies, Leaves
<1>14. CASE WatchParent \/ AppDies \/ HelperDies
  BY <1>14, LengthNat DEF WatchParent, Running, Leaves, AppDies, HelperDies
<1>15. CASE UNCHANGED vars
  BY <1>15, LengthNat
<1> QED
  BY <1>1, <1>2, <1>3, <1>4, <1>5, <1>6, <1>7, <1>8, <1>9, <1>10, <1>11, <1>12, <1>13, <1>14, <1>15 DEF Next, App, Begins, Works, Folder

\* There is something to say where a piece is made, nothing where the device drains.
LEMMA SpeakPlaceStep ==
  ASSUME PlaceType, HelperInv, SpeakPlace, [Next]_vars
  PROVE  SpeakPlace'
<1> USE DEF vars, appVars, memory, process, speech, work, folder, unwritten, folderOnly, PlaceType, Place, Places, Beginning, Working, RightJob, RightBytes, HelperInv, SpeakPlace
<1>1. CASE Launch \/ Stop \/ Tick \/ Wait \/ Peek \/ Collect \/ Finish \/ FinishExchange
  BY <1>1 DEF Launch, Stop, Closed, Leaves, Tick, Wait, Peek, Collect, Finish, FinishExchange
<1>2. CASE Exchange
  BY <1>2 DEF Exchange, Merge
<1>3. CASE Guard \/ Attach \/ AttachInput \/ TakeText \/ Cache \/ Unlock \/ Load
  BY <1>3 DEF Guard, Ends, Goes, Attach, AttachInput, TakeText, Put, Cache, Unlock, Load
<1>4. CASE Listen \/ ListenTooLong \/ MicrophoneFails \/ Decode \/ Hear \/ AppendText \/ Heard
  BY <1>4 DEF Listen, Goes, Put, ListenTooLong, MicrophoneFails, Ends, Decode, Hear, AppendText, Heard
<1>5. CASE Speak \/ Voice \/ Ahead \/ Drain \/ Play
  BY <1>5 DEF Speak, Goes, Put, Voice, Ends, Ahead, Drain, Play, Running
<1>6. CASE Generate \/ Publish \/ PublishSize
  BY <1>6 DEF Generate, Ends, Goes, Publish, PublishSize, Put
<1>7. ASSUME NEW u \in Users, Lock(u) \/ CheckFile(u) \/ Fetch(u) \/ Rename(u) \/ FetchFails(u) PROVE SpeakPlace'
  BY <1>7 DEF Lock, InFolder, CheckFile, Report, Put, Fetch, Rename, FetchFails
<1>8. CASE RivalComes \/ RivalDone \/ RivalDies
  BY <1>8 DEF RivalComes, RivalDone, RivalDies, Leaves
<1>9. CASE WatchParent \/ AppDies \/ HelperDies
  BY <1>9 DEF WatchParent, Running, Leaves, AppDies, HelperDies
<1>10. CASE UNCHANGED vars
  BY <1>10
<1> QED
  BY <1>1, <1>2, <1>3, <1>4, <1>5, <1>6, <1>7, <1>8, <1>9, <1>10 DEF Next, App, Begins, Works, Folder

\* At most two pieces are queued.
LEMMA QueueStep ==
  ASSUME PlaceType, HelperInv, QueueInv, [Next]_vars
  PROVE  QueueInv'
<1> USE DEF vars, appVars, memory, process, speech, work, folder, unwritten, folderOnly, PlaceType, Place, Beginning, Working, Places, RightJob, HelperInv, Fresh, QueueInv, TwoQueued, RightBytes
<1>1. CASE Launch \/ Stop \/ Tick \/ Wait \/ Peek \/ Collect \/ Finish \/ FinishExchange
  BY <1>1 DEF Launch, Stop, Closed, Leaves, Tick, Wait, Peek, Collect, Finish, FinishExchange
<1>2. CASE Exchange
  BY <1>2 DEF Exchange, Merge
<1>3. CASE Guard \/ Attach \/ AttachInput \/ TakeText \/ Cache \/ Unlock \/ Load
  BY <1>3 DEF Guard, Ends, Goes, Attach, AttachInput, TakeText, Put, Cache, Unlock, Load
<1>4. CASE Listen \/ ListenTooLong \/ MicrophoneFails \/ Decode \/ Hear \/ AppendText \/ Heard
  BY <1>4 DEF Listen, Goes, Put, ListenTooLong, MicrophoneFails, Ends, Decode, Hear, AppendText, Heard
<1>5. CASE Speak \/ Ahead \/ Drain
  BY <1>5 DEF Speak, Goes, Put, Ahead, Ends, Drain
<1>6. CASE Voice
  BY <1>6 DEF Voice, Ends, Put
<1>7. CASE Play
  BY <1>7 DEF Play, Running
<1>8. CASE Generate \/ Publish \/ PublishSize
  BY <1>8 DEF Generate, Ends, Goes, Publish, PublishSize, Put
<1>9. ASSUME NEW u \in Users, Lock(u) \/ CheckFile(u) \/ Fetch(u) \/ Rename(u) \/ FetchFails(u) PROVE QueueInv'
  BY <1>9 DEF Lock, InFolder, CheckFile, Report, Put, Fetch, Rename, FetchFails
<1>10. CASE RivalComes \/ RivalDone \/ RivalDies
  BY <1>10 DEF RivalComes, RivalDone, RivalDies, Leaves
<1>11. CASE WatchParent \/ AppDies \/ HelperDies
  BY <1>11 DEF WatchParent, Running, Leaves, AppDies, HelperDies
<1>12. CASE UNCHANGED vars
  BY <1>12
<1> QED
  BY <1>1, <1>2, <1>3, <1>4, <1>5, <1>6, <1>7, <1>8, <1>9, <1>10, <1>11, <1>12 DEF Next, App, Begins, Works, Folder

\* What is left to say starts with a character, and so does every piece.
LEMMA TextStep ==
  ASSUME PlaceType, HelperInv, TextInv, [Next]_vars
  PROVE  TextInv'
<1> USE DEF vars, appVars, memory, process, speech, work, folder, unwritten, folderOnly, PlaceType, Place, Places, Beginning, Working, RightJob, RightBytes, HelperInv, TextInv, PiecesAreWhole
<1>1. CASE Launch \/ Stop \/ Tick \/ Wait \/ Peek \/ Collect \/ Finish \/ FinishExchange
  BY <1>1 DEF Launch, Stop, Closed, Leaves, Tick, Wait, Peek, Collect, Finish, FinishExchange
<1>2. CASE Exchange
  BY <1>2 DEF Exchange, Merge
<1>3. CASE Guard \/ Attach \/ AttachInput \/ TakeText \/ Cache \/ Unlock \/ Load
  BY <1>3 DEF Guard, Ends, Goes, Attach, AttachInput, TakeText, Put, Cache, Unlock, Load
<1>4. CASE Listen \/ ListenTooLong \/ MicrophoneFails \/ Decode \/ Hear \/ AppendText \/ Heard
  BY <1>4 DEF Listen, Goes, Put, ListenTooLong, MicrophoneFails, Ends, Decode, Hear, AppendText, Heard
<1>5. CASE Ahead \/ Drain \/ Play
  BY <1>5 DEF Ahead, Goes, Ends, Drain, Play, Running
<1>6. CASE Speak
  <2>1. Sayable(rest')
    BY <1>6, TrimmedSayable DEF Speak
  <2> QED
    BY <1>6, <2>1 DEF Speak, Goes, Put
<1>7. CASE Voice
  <2>1. rest # <<>> /\ Sayable(rest) /\ rest \in Seq(Kinds)
    BY <1>7 DEF Voice, Sayable
  <2> DEFINE n == ChunkLength(rest)
  <2>2. /\ n \in 1..Chunk /\ n \in 1..Len(rest) /\ rest[1] # "c"
        /\ n < Len(rest) => rest[n + 1] # "c"
    BY <2>1, ChunkIsWhole, FirstIsWhole
  <2>3. rest' = SubSeq(rest, n + 1, Len(rest)) /\ spoken' \in {spoken, Append(spoken, SubSeq(rest, 1, n))}
    BY <1>7 DEF Voice
  <2> HIDE DEF n
  <2>4. Sayable(rest')
    BY <2>1, <2>2, <2>3, SuffixSayable
  <2>5. LET p == SubSeq(rest, 1, n) IN p \in Seq(Kinds) /\ Len(p) \in 1..Chunk /\ p[1] # "c"
    BY <2>1, <2>2
  <2>6. spoken' \in Seq(Seq(Kinds)) /\ PiecesAreWhole'
    <3>1. CASE spoken' = spoken
      BY <3>1
    <3>2. CASE spoken' = Append(spoken, SubSeq(rest, 1, n))
      <4> DEFINE p == SubSeq(rest, 1, n)
      <4>1. p \in Seq(Kinds) /\ Len(p) \in 1..Chunk /\ p[1] # "c"
        BY <2>5
      <4> HIDE DEF p
      <4>2. spoken' = Append(spoken, p) /\ spoken \in Seq(Seq(Kinds)) /\ Len(spoken) \in Nat
        BY <3>2 DEF p
      <4>3. /\ spoken' \in Seq(Seq(Kinds)) /\ Len(spoken') = Len(spoken) + 1
            /\ \A i \in 1..Len(spoken) : spoken'[i] = spoken[i]
            /\ spoken'[Len(spoken) + 1] = p
        BY <4>1, <4>2
      <4>4. \A i \in 1..Len(spoken') : i \in 1..Len(spoken) \/ i = Len(spoken) + 1
        BY <4>2, <4>3
      <4> QED
        BY <4>1, <4>3, <4>4
    <3> QED
      BY <2>3, <3>1, <3>2
  <2>7. Place' # "voice"
    BY <1>7 DEF Voice, Ends, Put
  <2> QED
    BY <2>4, <2>6, <2>7
<1>8. CASE Generate \/ Publish \/ PublishSize
  BY <1>8 DEF Generate, Ends, Goes, Publish, PublishSize, Put
<1>9. ASSUME NEW u \in Users, Lock(u) \/ CheckFile(u) \/ Fetch(u) \/ Rename(u) \/ FetchFails(u) PROVE TextInv'
  BY <1>9 DEF Lock, InFolder, CheckFile, Report, Put, Fetch, Rename, FetchFails
<1>10. CASE RivalComes \/ RivalDone \/ RivalDies
  BY <1>10 DEF RivalComes, RivalDone, RivalDies, Leaves
<1>11. CASE WatchParent \/ AppDies \/ HelperDies
  BY <1>11 DEF WatchParent, Running, Leaves, AppDies, HelperDies
<1>12. CASE UNCHANGED vars
  BY <1>12
<1> QED
  BY <1>1, <1>2, <1>3, <1>4, <1>5, <1>6, <1>7, <1>8, <1>9, <1>10, <1>11, <1>12 DEF Next, App, Begins, Works, Folder

\* A translation is published only when its turn ended below the ceiling.
LEMMA TranslateStep ==
  ASSUME Numbers, PlaceType, HelperInv, TranslateInv, [Next]_vars
  PROVE  TranslateInv'
<1> USE DEF vars, appVars, memory, process, speech, work, folder, unwritten, folderOnly, PlaceType, Place, Places, Beginning, Working, RightJob, RightBytes, HelperInv, TranslateInv, Numbers
<1>1. CASE Launch \/ Stop \/ Tick \/ Wait \/ Peek \/ Collect \/ Finish \/ FinishExchange
  BY <1>1, Limits DEF Launch, Stop, Closed, Leaves, Tick, Wait, Peek, Collect, Finish, FinishExchange
<1>2. CASE Exchange
  BY <1>2, Limits DEF Exchange, Merge
<1>3. CASE Guard \/ Attach \/ AttachInput \/ TakeText \/ Cache \/ Unlock \/ Load
  BY <1>3, Limits DEF Guard, Ends, Goes, Attach, AttachInput, TakeText, Put, Cache, Unlock, Load
<1>4. CASE Listen \/ ListenTooLong \/ MicrophoneFails \/ Decode \/ Hear \/ AppendText \/ Heard
  BY <1>4, Limits DEF Listen, Goes, Put, ListenTooLong, MicrophoneFails, Ends, Decode, Hear, AppendText, Heard
<1>5. CASE Speak \/ Voice \/ Ahead \/ Drain \/ Play
  BY <1>5, Limits DEF Speak, Goes, Put, Voice, Ends, Ahead, Drain, Play, Running
<1>6. CASE Publish \/ PublishSize
  BY <1>6, Limits DEF Publish, Goes, PublishSize, Put
<1>7. CASE Generate
  BY <1>7, Limits DEF Generate, Ends, Goes
<1>8. ASSUME NEW u \in Users, Lock(u) \/ CheckFile(u) \/ Fetch(u) \/ Rename(u) \/ FetchFails(u) PROVE TranslateInv'
  BY <1>8, Limits DEF Lock, InFolder, CheckFile, Report, Put, Fetch, Rename, FetchFails
<1>9. CASE RivalComes \/ RivalDone \/ RivalDies
  BY <1>9, Limits DEF RivalComes, RivalDone, RivalDies, Leaves
<1>10. CASE WatchParent \/ AppDies \/ HelperDies
  BY <1>10, Limits DEF WatchParent, Running, Leaves, AppDies, HelperDies
<1>11. CASE UNCHANGED vars
  BY <1>11, Limits
<1> QED
  BY <1>1, <1>2, <1>3, <1>4, <1>5, <1>6, <1>7, <1>8, <1>9, <1>10, <1>11 DEF Next, App, Begins, Works, Folder

\* A program is about to end well only with exit code 0.
LEMMA EndsWellStep ==
  ASSUME PlaceType, HelperInv, EndsWell, [Next]_vars
  PROVE  EndsWell'
<1> USE DEF vars, appVars, memory, process, speech, work, folder, unwritten, folderOnly, PlaceType, Place, Places, Beginning, Working, RightJob, RightBytes, HelperInv, Ending, EndsWell
<1>1. CASE Launch \/ Stop \/ Tick \/ Wait \/ Peek \/ Collect \/ Finish \/ FinishExchange
  BY <1>1 DEF Launch, Stop, Closed, Leaves, Tick, Wait, Peek, Collect, Finish, FinishExchange
<1>2. CASE Exchange
  BY <1>2 DEF Exchange, Merge
<1>3. CASE Guard \/ Attach \/ AttachInput \/ TakeText \/ Cache \/ Unlock \/ Load
  BY <1>3 DEF Guard, Ends, Goes, Attach, AttachInput, TakeText, Put, Cache, Unlock, Load
<1>4. CASE Listen \/ ListenTooLong \/ MicrophoneFails \/ Decode \/ Hear \/ AppendText \/ Heard
  BY <1>4 DEF Listen, Goes, Put, ListenTooLong, MicrophoneFails, Ends, Decode, Hear, AppendText, Heard
<1>5. CASE Speak \/ Voice \/ Ahead \/ Drain \/ Play
  BY <1>5 DEF Speak, Goes, Put, Voice, Ends, Ahead, Drain, Play, Running
<1>6. CASE Generate \/ Publish \/ PublishSize
  BY <1>6 DEF Generate, Ends, Goes, Publish, PublishSize, Put
<1>7. ASSUME NEW u \in Users, Lock(u) \/ CheckFile(u) \/ Fetch(u) \/ Rename(u) \/ FetchFails(u) PROVE EndsWell'
  BY <1>7 DEF Lock, InFolder, CheckFile, Report, Put, Fetch, Rename, FetchFails
<1>8. CASE RivalComes \/ RivalDone \/ RivalDies
  BY <1>8 DEF RivalComes, RivalDone, RivalDies, Leaves
<1>9. CASE WatchParent \/ AppDies \/ HelperDies
  BY <1>9 DEF WatchParent, Running, Leaves, AppDies, HelperDies
<1>10. CASE UNCHANGED vars
  BY <1>10
<1> QED
  BY <1>1, <1>2, <1>3, <1>4, <1>5, <1>6, <1>7, <1>8, <1>9, <1>10 DEF Next, App, Begins, Works, Folder

\* A download that ends well leaves every file whole.
LEMMA DownloadEndStep ==
  ASSUME PlaceType, HelperInv, DownloadEnd, EndsWell, FolderType, Checked, [Next]_vars
  PROVE  DownloadEnd'
<1> USE DEF vars, appVars, memory, process, speech, work, folder, unwritten, folderOnly, PlaceType, Place, Places, Beginning, Working, RightJob, RightBytes, HelperInv, Ending, Over, EndsWell, DownloadEnd, AllWhole, Checked, FolderType
<1>1. CASE Launch \/ Stop \/ Tick \/ Wait \/ Peek \/ Collect \/ Finish \/ FinishExchange
  BY <1>1, UserFacts, Limits DEF Launch, Stop, Closed, Leaves, Tick, Wait, Peek, Collect, Finish, FinishExchange
<1>2. CASE Exchange
  BY <1>2, UserFacts, Limits DEF Exchange, Merge
<1>3. CASE Guard \/ Attach \/ AttachInput \/ TakeText \/ Cache \/ Load
  BY <1>3, UserFacts, Limits DEF Guard, Ends, Goes, Attach, AttachInput, TakeText, Put, Cache, Load
<1>4. CASE Unlock
  <2>1. \A f \in 1..Files : f < at[Helper]
    BY <1>4, Limits, UserFacts DEF Unlock
  <2> QED
    BY <1>4, <2>1, UserFacts DEF Unlock, Put
<1>5. CASE Listen \/ ListenTooLong \/ MicrophoneFails \/ Decode \/ Hear \/ AppendText \/ Heard
  BY <1>5, UserFacts, Limits DEF Listen, Goes, Put, ListenTooLong, MicrophoneFails, Ends, Decode, Hear, AppendText, Heard
<1>6. CASE Speak \/ Voice \/ Ahead \/ Drain \/ Play
  BY <1>6, UserFacts, Limits DEF Speak, Goes, Put, Voice, Ends, Ahead, Drain, Play, Running
<1>7. CASE Generate \/ Publish \/ PublishSize
  BY <1>7, UserFacts, Limits DEF Generate, Ends, Goes, Publish, PublishSize, Put
<1>8. ASSUME NEW u \in Users, Lock(u) PROVE DownloadEnd'
  BY <1>8, UserFacts, Limits DEF Lock, InFolder
<1>9. ASSUME NEW u \in Users, CheckFile(u) PROVE DownloadEnd'
  BY <1>9, UserFacts, Limits DEF CheckFile, InFolder, Report, Put
<1>10. ASSUME NEW u \in Users, Fetch(u) PROVE DownloadEnd'
  BY <1>10, UserFacts, Limits DEF Fetch, InFolder, Report, Put
<1>11. ASSUME NEW u \in Users, Rename(u) PROVE DownloadEnd'
  BY <1>11, UserFacts, Limits DEF Rename, InFolder
<1>12. ASSUME NEW u \in Users, FetchFails(u) PROVE DownloadEnd'
  BY <1>12, UserFacts, Limits DEF FetchFails, InFolder
<1>13. CASE RivalComes
  BY <1>13, UserFacts, Limits DEF RivalComes
<1>14. CASE RivalDone
  BY <1>14, UserFacts, Limits DEF RivalDone
<1>15. CASE RivalDies
  BY <1>15, UserFacts, Limits DEF RivalDies, Leaves
<1>16. CASE WatchParent
  BY <1>16, UserFacts, Limits DEF WatchParent, Running, Leaves
<1>17. CASE AppDies
  BY <1>17, UserFacts, Limits DEF AppDies
<1>18. CASE HelperDies
  BY <1>18, UserFacts, Limits DEF HelperDies, Running, Leaves
<1>19. CASE UNCHANGED vars
  BY <1>19, UserFacts, Limits
<1> QED
  BY <1>1, <1>2, <1>3, <1>4, <1>5, <1>6, <1>7, <1>8, <1>9, <1>10, <1>11, <1>12, <1>13, <1>14, <1>15, <1>16, <1>17, <1>18, <1>19 DEF Next, App, Begins, Works, Folder

\* A dictation or a file that ends well was heard to its last sample.
LEMMA HeardEndStep ==
  ASSUME Headers, Numbers, PlaceType, HelperInv, HeardEnd, EndsWell, Commits, [Next]_vars
  PROVE  HeardEnd'
<1> USE DEF vars, appVars, memory, process, speech, work, folder, unwritten, folderOnly, PlaceType, Place, Places, Beginning, Working, RightJob, RightBytes, HelperInv, Ending, Over, EndsWell, HeardEnd, Listening, Published, Commits, Numbers
<1>1. CASE Launch \/ Stop \/ Tick \/ Wait \/ Peek \/ Collect \/ Finish
  BY <1>1 DEF Launch, Stop, Closed, Leaves, Tick, Wait, Peek, Collect, Finish
<1>2. CASE FinishExchange
  <2>1. word'.status = word.status /\ Length(word') = Length(word)
    BY <1>2, FinishEffect DEF Length
  <2> QED
    BY <1>2, <2>1 DEF FinishExchange
<1>3. CASE Exchange
  <2>1. \/ word' = word /\ pc' = "write" /\ saw' = word
        \/ /\ pc' = next /\ word'.status = bytes[1]
           /\ Len(bytes) = 1 => Length(word') = Length(word)
           /\ \A n \in 0..TextLimit : bytes = Segment(n) => Length(word') = n
    BY <1>3, ExchangeEffect
  <2> QED
    BY <1>3, <2>1 DEF Exchange
<1>4. CASE Guard \/ Attach \/ AttachInput \/ TakeText \/ Cache \/ Unlock \/ Load
  BY <1>4 DEF Guard, Ends, Goes, Attach, AttachInput, TakeText, Put, Cache, Unlock, Load
<1>5. CASE Listen \/ ListenTooLong \/ MicrophoneFails \/ Decode \/ Hear \/ AppendText \/ Heard
  BY <1>5 DEF Listen, Goes, Put, ListenTooLong, MicrophoneFails, Ends, Decode, Hear, AppendText, Heard
<1>6. CASE Speak \/ Voice \/ Ahead \/ Drain \/ Play
  BY <1>6 DEF Speak, Goes, Put, Voice, Ends, Ahead, Drain, Play, Running
<1>7. CASE Generate \/ Publish \/ PublishSize
  BY <1>7 DEF Generate, Ends, Goes, Publish, PublishSize, Put
<1>8. ASSUME NEW u \in Users, Lock(u) \/ CheckFile(u) \/ Fetch(u) \/ Rename(u) \/ FetchFails(u) PROVE HeardEnd'
  BY <1>8 DEF Lock, InFolder, CheckFile, Report, Put, Fetch, Rename, FetchFails
<1>9. CASE RivalComes \/ RivalDone \/ RivalDies
  BY <1>9 DEF RivalComes, RivalDone, RivalDies, Leaves
<1>10. CASE WatchParent \/ AppDies \/ HelperDies
  BY <1>10 DEF WatchParent, Running, Leaves, AppDies, HelperDies
<1>11. CASE UNCHANGED vars
  BY <1>11
<1> QED
  BY <1>1, <1>2, <1>3, <1>4, <1>5, <1>6, <1>7, <1>8, <1>9, <1>10, <1>11 DEF Next, App, Begins, Works, Folder

\* A text that ends well was said and played.
LEMMA ReadEndStep ==
  ASSUME PlaceType, HelperInv, ReadEnd, EndsWell, SpeakPlace, [Next]_vars
  PROVE  ReadEnd'
<1> USE DEF vars, appVars, memory, process, speech, work, folder, unwritten, folderOnly, PlaceType, Place, Places, Beginning, Working, RightJob, RightBytes, HelperInv, Ending, Over, EndsWell, ReadEnd,SpeakPlace
<1>1. CASE Launch \/ Stop \/ Tick \/ Wait \/ Peek \/ Collect \/ Finish \/ FinishExchange
  BY <1>1 DEF Launch, Stop, Closed, Leaves, Tick, Wait, Peek, Collect, Finish, FinishExchange
<1>2. CASE Exchange
  BY <1>2 DEF Exchange, Merge
<1>3. CASE Guard \/ Attach \/ AttachInput \/ TakeText \/ Cache \/ Unlock \/ Load
  BY <1>3 DEF Guard, Ends, Goes, Attach, AttachInput, TakeText, Put, Cache, Unlock, Load
<1>4. CASE Listen \/ ListenTooLong \/ MicrophoneFails \/ Decode \/ Hear \/ AppendText \/ Heard
  BY <1>4 DEF Listen, Goes, Put, ListenTooLong, MicrophoneFails, Ends, Decode, Hear, AppendText, Heard
<1>5. CASE Speak \/ Voice \/ Ahead \/ Drain \/ Play
  BY <1>5 DEF Speak, Goes, Put, Voice, Ends, Ahead, Drain, Play, Running
<1>6. CASE Generate \/ Publish \/ PublishSize
  BY <1>6 DEF Generate, Ends, Goes, Publish, PublishSize, Put
<1>7. ASSUME NEW u \in Users, Lock(u) \/ CheckFile(u) \/ Fetch(u) \/ Rename(u) \/ FetchFails(u) PROVE ReadEnd'
  BY <1>7 DEF Lock, InFolder, CheckFile, Report, Put, Fetch, Rename, FetchFails
<1>8. CASE RivalComes \/ RivalDone \/ RivalDies
  BY <1>8 DEF RivalComes, RivalDone, RivalDies, Leaves
<1>9. CASE WatchParent \/ AppDies \/ HelperDies
  BY <1>9 DEF WatchParent, Running, Leaves, AppDies, HelperDies
<1>10. CASE UNCHANGED vars
  BY <1>10
<1> QED
  BY <1>1, <1>2, <1>3, <1>4, <1>5, <1>6, <1>7, <1>8, <1>9, <1>10 DEF Next, App, Begins, Works, Folder

\* A translation that ends well is in the mapping, with its length and status.
LEMMA TranslateEndStep ==
  ASSUME Headers, PlaceType, HelperInv, TranslateEnd, TranslateInv, EndsWell, [Next]_vars
  PROVE  TranslateEnd'
<1> USE DEF vars, appVars, memory, process, speech, work, folder, unwritten, folderOnly, PlaceType, Place, Places, Beginning, Working, RightJob, RightBytes, HelperInv, Ending, Over, EndsWell, TranslateEnd,TranslateInv
<1>1. CASE Launch \/ Stop \/ Tick \/ Wait \/ Peek \/ Collect \/ Finish
  BY <1>1 DEF Launch, Stop, Closed, Leaves, Tick, Wait, Peek, Collect, Finish
<1>2. CASE FinishExchange
  <2>1. word'.status = word.status /\ Length(word') = Length(word)
    BY <1>2, FinishEffect DEF Length
  <2> QED
    BY <1>2, <2>1 DEF FinishExchange
<1>3. CASE Exchange
  <2>1. \/ word' = word /\ pc' = "write" /\ saw' = word
        \/ /\ pc' = next /\ word'.status = bytes[1]
           /\ Len(bytes) = 1 => Length(word') = Length(word)
           /\ \A n \in 0..TextLimit : bytes = Segment(n) => Length(word') = n
    BY <1>3, ExchangeEffect
  <2> QED
    BY <1>3, <2>1 DEF Exchange
<1>4. CASE Guard \/ Attach \/ AttachInput \/ TakeText \/ Cache \/ Unlock \/ Load
  BY <1>4 DEF Guard, Ends, Goes, Attach, AttachInput, TakeText, Put, Cache, Unlock, Load
<1>5. CASE Listen \/ ListenTooLong \/ MicrophoneFails \/ Decode \/ Hear \/ AppendText \/ Heard
  BY <1>5 DEF Listen, Goes, Put, ListenTooLong, MicrophoneFails, Ends, Decode, Hear, AppendText, Heard
<1>6. CASE Speak \/ Voice \/ Ahead \/ Drain \/ Play
  BY <1>6 DEF Speak, Goes, Put, Voice, Ends, Ahead, Drain, Play, Running
<1>7. CASE Generate \/ Publish \/ PublishSize
  BY <1>7 DEF Generate, Ends, Goes, Publish, PublishSize, Put
<1>8. ASSUME NEW u \in Users, Lock(u) \/ CheckFile(u) \/ Fetch(u) \/ Rename(u) \/ FetchFails(u) PROVE TranslateEnd'
  BY <1>8 DEF Lock, InFolder, CheckFile, Report, Put, Fetch, Rename, FetchFails
<1>9. CASE RivalComes \/ RivalDone \/ RivalDies
  BY <1>9 DEF RivalComes, RivalDone, RivalDies, Leaves
<1>10. CASE WatchParent \/ AppDies \/ HelperDies
  BY <1>10 DEF WatchParent, Running, Leaves, AppDies, HelperDies
<1>11. CASE UNCHANGED vars
  BY <1>11
<1> QED
  BY <1>1, <1>2, <1>3, <1>4, <1>5, <1>6, <1>7, <1>8, <1>9, <1>10, <1>11 DEF Next, App, Begins, Works, Folder

\* What is shown as finished does not change after it is shown.
LEMMA ShownStep ==
  ASSUME PlaceType, HelperInv, Shown, HeardEnd, ReadEnd, TranslateEnd, DownloadEnd, FolderType, [Next]_vars
  PROVE  Shown'
<1> USE DEF vars, appVars, memory, process, speech, work, folder, unwritten, folderOnly, Shown, Listening, PlaceType, HelperInv, Over, HeardEnd, ReadEnd, TranslateEnd, DownloadEnd, RightJob, Place, RightBytes
<1>a. files' = files => AllWhole' = AllWhole
  BY DEF AllWhole
<1>1. CASE Launch \/ Stop \/ Tick \/ Wait \/ Peek \/ Finish \/ FinishExchange
  BY <1>1, <1>a DEF Launch, Stop, Closed, Leaves, Tick, Wait, Peek, Finish, FinishExchange
<1>2. CASE Collect
  <2>1. result' = "done" => code = 0
    BY <1>2 DEF Collect
  <2>2. Listening /\ code = 0 => received' = Length(word)
    BY <1>2 DEF Collect
  <2>3. job = "translate" /\ code = 0 => received' = size
    BY <1>2 DEF Collect
  <2> QED
    BY <1>2, <1>a, <2>1, <2>2, <2>3 DEF Collect, Closed
<1>3. CASE Exchange
  BY <1>3, <1>a DEF Exchange, Merge
<1>4. CASE Guard \/ Attach \/ AttachInput \/ TakeText \/ Cache \/ Unlock \/ Load
  BY <1>4, <1>a DEF Guard, Ends, Goes, Attach, AttachInput, TakeText, Put, Cache, Unlock, Load
<1>5. CASE Listen \/ ListenTooLong \/ MicrophoneFails \/ Decode \/ Hear \/ AppendText \/ Heard
  BY <1>5, <1>a DEF Listen, Goes, Put, ListenTooLong, MicrophoneFails, Ends, Decode, Hear, AppendText, Heard
<1>6. CASE Speak \/ Voice \/ Ahead \/ Drain \/ Play
  BY <1>6, <1>a DEF Speak, Goes, Put, Voice, Ends, Ahead, Drain, Play, Running
<1>7. CASE Generate \/ Publish \/ PublishSize
  BY <1>7, <1>a DEF Generate, Ends, Goes, Publish, PublishSize, Put
<1>8. ASSUME NEW u \in Users, Lock(u) PROVE Shown'
  BY <1>8, <1>a DEF Lock, InFolder
<1>9. ASSUME NEW u \in Users, CheckFile(u) PROVE Shown'
  BY <1>9, <1>a DEF CheckFile, InFolder, Report, Put
<1>10. ASSUME NEW u \in Users, Fetch(u) PROVE Shown'
  BY <1>10, <1>a DEF Fetch, InFolder, Report, Put
<1>11. ASSUME NEW u \in Users, Rename(u) PROVE Shown'
  <2>1. AllWhole => AllWhole'
    BY <1>11 DEF Rename, FolderType, AllWhole
  <2> QED
    BY <1>11, <2>1 DEF Rename
<1>12. ASSUME NEW u \in Users, FetchFails(u) PROVE Shown'
  BY <1>12, <1>a DEF FetchFails, InFolder
<1>13. CASE RivalComes \/ RivalDone \/ RivalDies
  BY <1>13, <1>a DEF RivalComes, RivalDone, RivalDies, Leaves
<1>14. CASE WatchParent \/ AppDies \/ HelperDies
  BY <1>14, <1>a DEF WatchParent, Running, Leaves, AppDies, HelperDies
<1>15. CASE UNCHANGED vars
  BY <1>15, <1>a
<1> QED
  BY <1>1, <1>2, <1>3, <1>4, <1>5, <1>6, <1>7, <1>8, <1>9, <1>10, <1>11, <1>12, <1>13, <1>14, <1>15 DEF Next, App, Begins, Works, Folder

\* A program that ended well is collected as one, whenever the status was read.
LEMMA SuccessStep ==
  ASSUME Headers, Numbers, PlaceType, HelperInv, HeardEnd, TranslateEnd, InOrder, [Next]_vars
  PROVE  app = "exited" /\ app' = "idle" /\ code = 0 => result' \in {"done", "silent"}
<1> USE DEF vars, appVars, memory, process, speech, work, folder, unwritten, folderOnly, Listening, PlaceType, HelperInv, Over, HeardEnd, TranslateEnd, InOrder
<1>1. CASE Launch \/ Stop \/ Tick \/ Wait \/ Peek \/ Finish \/ FinishExchange
  BY <1>1 DEF Launch, Stop, Closed, Leaves, Tick, Wait, Peek, Finish, FinishExchange
<1>2. CASE Collect
  <2>0. app = "exited"
    BY <1>2 DEF Collect
  <2>1. code = 0 /\ job = "translate" => size \in 1..(Region - 1)
    BY <2>0, Limits DEF Numbers
  <2>2. code = 0 /\ Listening => ~(Length(word) < received)
    BY <2>0, LengthNat DEF Numbers
  <2> QED
    BY <1>2, <2>0, <2>1, <2>2 DEF Collect, Published
<1>3. CASE Exchange
  BY <1>3 DEF Exchange, Merge
<1>4. CASE Guard \/ Attach \/ AttachInput \/ TakeText \/ Cache \/ Unlock \/ Load
  BY <1>4 DEF Guard, Ends, Goes, Attach, AttachInput, TakeText, Put, Cache, Unlock, Load
<1>5. CASE Listen \/ ListenTooLong \/ MicrophoneFails \/ Decode \/ Hear \/ AppendText \/ Heard
  BY <1>5 DEF Listen, Goes, Put, ListenTooLong, MicrophoneFails, Ends, Decode, Hear, AppendText, Heard
<1>6. CASE Speak \/ Voice \/ Ahead \/ Drain \/ Play
  BY <1>6 DEF Speak, Goes, Put, Voice, Ends, Ahead, Drain, Play, Running
<1>7. CASE Generate \/ Publish \/ PublishSize
  BY <1>7 DEF Generate, Ends, Goes, Publish, PublishSize, Put
<1>8. ASSUME NEW u \in Users, Lock(u) \/ CheckFile(u) \/ Fetch(u) \/ Rename(u) \/ FetchFails(u) PROVE app = "exited" /\ app' = "idle" /\ code = 0 => result' \in {"done", "silent"}
  BY <1>8 DEF Lock, InFolder, CheckFile, Report, Put, Fetch, Rename, FetchFails
<1>9. CASE RivalComes \/ RivalDone \/ RivalDies
  BY <1>9 DEF RivalComes, RivalDone, RivalDies, Leaves
<1>10. CASE WatchParent \/ AppDies \/ HelperDies
  BY <1>10 DEF WatchParent, Running, Leaves, AppDies, HelperDies
<1>11. CASE UNCHANGED vars
  BY <1>11
<1> QED
  BY <1>1, <1>2, <1>3, <1>4, <1>5, <1>6, <1>7, <1>8, <1>9, <1>10, <1>11 DEF Next, App, Begins, Works, Folder

-----------------------------------------------------------------------------

\* The first state satisfies the invariant: no program, an empty header, a valid text.
LEMMA InitInv == Init => SpeechInv
<1> SUFFICES ASSUME Init PROVE SpeechInv
  OBVIOUS
<1>1. pc = "none" /\ app = "idle" /\ result = "none" /\ code = None /\ Place = "none"
  BY DEF Init, Place
<1>2. Kept /\ Flags /\ Named /\ Codes
  BY DEF Init, Kept, Flags, Named, Codes, Statuses
<1>3. Headers
  <2>1. word = [status |-> "G", low |-> 0, high |-> 0, command |-> ""] /\ appSaw = word /\ saw = word
    BY DEF Init
  <2>2. word \in Header /\ word.low = 0 /\ word.high = 0
    BY <2>1 DEF Header
  <2>3. Byte \in Nat /\ 0 < Byte
    BY Limits
  <2> QED
    BY <2>1, <2>2, <2>3 DEF Headers
<1>4. Numbers
  <2>1. /\ received = 0 /\ laid = 0 /\ size = 0 /\ output = 0 /\ tokens = 0
        /\ count = 0 /\ offset = 0 /\ length = 0
    BY DEF Init
  <2> QED
    BY <2>1, Limits DEF Numbers
<1>5. FolderType /\ OneFetches /\ Checked
  <2>1. /\ cache = [u \in Users |-> "away"] /\ at = [u \in Users |-> 1] /\ lock = None
        /\ files \in [1..Files -> {"absent", "damaged", "whole"}]
        /\ part \in [1..Files -> {"absent", "bad"}]
    BY DEF Init
  <2>2. 1 \in 1..(Files + 1)
    BY Limits
  <2>3. part \in [1..Files -> {"absent", "short", "bad", "whole"}]
    BY <2>1
  <2>4. FolderType
    BY <2>1, <2>2, <2>3 DEF FolderType, Caches
  <2> QED
    BY <2>1, <2>4 DEF OneFetches, Checked
<1>6. ProcessInv
  BY <1>1, UserFacts DEF Init, ProcessInv, PlaceType, HelperInv, Places, RightJob, RightBytes
<1>7. WorksWhole
  BY <1>1 DEF WorksWhole, Working
<1>8. CommandKept
  BY DEF Init, CommandKept
<1>9. HearInv
  <2>1. /\ received = 0 /\ laid = 0 /\ offset = 0 /\ length = 0 /\ word.status = "G"
        /\ pc = "none" /\ app = "idle"
    BY DEF Init
  <2> QED
    BY <1>1, <2>1 DEF HearInv, StartsUnheard, InOrder, PeeksAtText, Commits, Unheard, Published
<1>10. SpeakPlace /\ QueueInv
  <2>1. queue = <<>>
    BY DEF Init
  <2>2. queue \in Seq({1, 2}) /\ Len(queue) = 0
    BY <2>1
  <2> QED
    BY <1>1, <2>1, <2>2 DEF SpeakPlace, QueueInv, TwoQueued
<1>11. TextInv
  <2>1. rest \in Texts /\ spoken = <<>>
    BY DEF Init
  <2>2. Sayable(rest)
    BY <2>1, TextsAreValid DEF Sayable
  <2>3. spoken \in Seq(Seq(Kinds)) /\ Len(spoken) = 0 /\ 1..0 = {}
    BY <2>1
  <2> QED
    BY <1>1, <2>2, <2>3 DEF TextInv, PiecesAreWhole
<1>12. TranslateInv /\ EndInv /\ Shown
  BY <1>1 DEF TranslateInv, EndInv, EndsWell, Ending, Over, DownloadEnd, HeardEnd, ReadEnd, TranslateEnd, Shown
<1> QED
  BY <1>2, <1>3, <1>4, <1>5, <1>6, <1>7, <1>8, <1>9, <1>10, <1>11, <1>12
  DEF SpeechInv, Types, FolderInv, SpeakInv

\* A step of the application, the programs, the folder or the device preserves the invariant.
LEMMA StepInv == SpeechInv /\ [Next]_vars => SpeechInv'
<1> SUFFICES ASSUME SpeechInv, [Next]_vars PROVE SpeechInv'
  OBVIOUS
<1>1. /\ Kept /\ Flags /\ Named /\ Codes /\ Headers /\ Numbers /\ FolderType /\ Caches
      /\ PlaceType /\ HelperInv /\ RightBytes
      /\ OneFetches /\ Checked /\ WorksWhole /\ CommandKept
      /\ StartsUnheard /\ InOrder /\ PeeksAtText /\ Commits
      /\ SpeakPlace /\ QueueInv /\ TextInv /\ TranslateInv
      /\ EndsWell /\ DownloadEnd /\ HeardEnd /\ ReadEnd /\ TranslateEnd /\ Shown
  BY DEF SpeechInv, Types, FolderType, ProcessInv, PlaceType, FolderInv, HearInv, SpeakInv, EndInv
<1>2. Types'
  <2>1. Kept' /\ Flags' /\ Named' /\ Codes' /\ Headers'
    BY <1>1, KeptStep, FlagsStep, NamedStep, CodesStep, HeadersStep
  <2>2. Numbers'
    BY <1>1, NumbersStep
  <2>3. FolderType'
    BY <1>1, FolderTypeStep
  <2> QED
    BY <2>1, <2>2, <2>3 DEF Types
<1>3. ProcessInv'
  BY <1>1, PlaceStep, HelperStep DEF ProcessInv
<1>4. FolderInv'
  BY <1>1, OneStep, CheckedStep, WorksStep DEF FolderInv
<1>5. CommandKept'
  BY <1>1, CommandStep
<1>6. HearInv'
  BY <1>1, StartsStep, InOrderStep, PeeksStep, CommitsStep DEF HearInv
<1>7. SpeakInv'
  BY <1>1, SpeakPlaceStep, QueueStep, TextStep DEF SpeakInv
<1>8. TranslateInv' /\ Shown'
  BY <1>1, TranslateStep, ShownStep
<1>9. EndInv'
  BY <1>1, EndsWellStep, DownloadEndStep, HeardEndStep, ReadEndStep, TranslateEndStep DEF EndInv
<1> QED
  BY <1>2, <1>3, <1>4, <1>5, <1>6, <1>7, <1>8, <1>9 DEF SpeechInv

\* The inductive invariant holds in every state of every run.
THEOREM SpeechInvariant == Spec => []SpeechInv
<1>1. Init => SpeechInv
  BY InitInv
<1>2. SpeechInv /\ [Next]_vars => SpeechInv'
  BY StepInv
<1> QED
  BY <1>1, <1>2, PTL DEF Spec

\* One program at a time changes the folder of models, a program works only with whole
\* files, a job leaves no program and no named mapping behind, pieces are whole and at most
\* two are queued: stt.c, tts.c, translate.cpp and speech_download.h together.
THEOREM SpeechSafe == Spec => []Inv
<1>1. SpeechInv => TypeOK
  BY TypesAreOK DEF SpeechInv
<1>2. SpeechInv => OneFetches /\ PiecesAreWhole /\ TwoQueued
  BY DEF SpeechInv, FolderInv, SpeakInv, TextInv, QueueInv
<1>3. SpeechInv => LoadsWhole
  BY DEF SpeechInv, FolderInv, WorksWhole, AllWhole, LoadsWhole, Place, Working
<1>4. SpeechInv => NothingLeft
  <2>1. ProcessInv /\ app = "idle" => pc = "none" /\ name = {} /\ (cache[Helper] # "away" => Place = "models")
    BY DEF ProcessInv, HelperInv
  <2>2. pc = "none" => Place # "models"
    BY DEF Place
  <2> QED
    BY <2>1, <2>2 DEF SpeechInv, NothingLeft
<1>5. SpeechInv => Inv
  BY <1>1, <1>2, <1>3, <1>4 DEF Inv
<1> QED
  BY <1>5, SpeechInvariant, PTL

\* "Commit atomically without losing a concurrent command" (helper_ipc.c:172) and "append
\* first, then publish" (stt.c:114): the stop command is never lost, the committed length is
\* never torn, never ahead of the text and never goes back.
THEOREM HeaderSafe == Spec => []HeaderKept
<1>1. SpeechInv => HeaderKept
  BY DEF SpeechInv, HearInv, InOrder, PeeksAtText, Listening, Published, HeaderKept, CommandKept, PublishedIsWritten
<1> QED
  BY <1>1, SpeechInvariant, PTL

\* What the application shows as finished is finished: every sample heard and every byte
\* taken over, all text said and played, a translation that ended with its turn, every model
\* file whole.
THEOREM FinishedWhole == Spec => []FinishedIsWhole
<1>1. Trimmed(<<>>) = <<>>
  <2>1. Len(<<>>) = 0 /\ 1..0 = {}
    OBVIOUS
  <2> QED
    BY <2>1 DEF Trimmed
<1>2. SpeechInv => FinishedIsWhole
  <2> SUFFICES ASSUME SpeechInv, result = "done" PROVE FinishedIsWhole
    BY DEF FinishedIsWhole
  <2>1. job \in AllJobs
    BY JobsKnown DEF SpeechInv, Types, Kept
  <2>2. Shown
    BY DEF SpeechInv
  <2>3. CASE Listening
    BY <2>2, <2>3 DEF Shown, FinishedIsWhole, Listening
  <2>4. CASE job = "read"
    BY <1>1, <2>2, <2>4 DEF Shown, FinishedIsWhole
  <2>5. CASE job = "translate"
    BY <2>2, <2>5 DEF Shown, FinishedIsWhole
  <2>6. CASE job = "download"
    BY <2>2, <2>6 DEF Shown, FinishedIsWhole, AllWhole
  <2> QED
    BY <2>1, <2>3, <2>4, <2>5, <2>6 DEF AllJobs, Listening
<1> QED
  BY <1>2, SpeechInvariant, PTL

\* The header is read again after the end: a program that published and exited between the
\* two readings of a tick is still reported as a success.
THEOREM SuccessShown == Spec => SuccessIsShown
<1>1. SpeechInv /\ [Next]_vars =>
        (app = "exited" /\ app' = "idle" /\ code = 0 => result' \in {"done", "silent"})
  BY SuccessStep DEF SpeechInv, Types, ProcessInv, EndInv, HearInv
<1>2. SpeechInv /\ [Next]_vars =>
        [app = "exited" /\ app' = "idle" /\ code = 0 => result' \in {"done", "silent"}]_vars
  BY <1>1
<1> QED
  BY <1>2, SpeechInvariant, PTL DEF Spec, SuccessIsShown


=============================================================================
