-------------------------- MODULE Decoder_proofs --------------------------
(***************************************************************************)
(* Proofs about the calls to the decoders.                                 *)
(***************************************************************************)
EXTENDS Decoder, SequenceTheorems, WellFoundedInduction, TLAPS

Tags == 0..(MaxSequence + 1)
Items == [head : HeadSet \cup {None}, pages : Nat \cup {None}, tag : Tags]
Messages == (0..MaxSequence) \X Requests

\* The types, by what they are about.
States ==
  /\ app \in {"idle", "transfer", "ended", "stopping", "killing", "reaping"}
  /\ session \in {"none", "active", "dead"} /\ outcome \in {"none", "ok", "failed"}
Stages == helper \in {"header", "payload", "eof", "decoding", "writing"}
Life == pid \in {"none", "running", "zombie", "freed"} /\ code \in {0, 1}
Flags == faults \in FaultSets /\ owned \in BOOLEAN /\ reaped \in BOOLEAN /\ socket \in BOOLEAN
Asked == request \in Requests \cup {None}
Counted ==
  /\ sequence \in 0..MaxSequence /\ sent \in Nat /\ (request # None => sent <= Total(request))
  /\ handled \in Tags /\ todo \in Nat
WireType == wire \in Seq(Items) /\ Len(wire) <= Buffer
OutType == out \in Seq(Items)
InboxType == inbox \in Seq(Messages \cup {<<>>}) /\ Len(inbox) <= Buffer
ReplyType == reply \in [head : HeadSet \cup {None}, pages : Nat \cup {None}, body : Seq(Tags)]
Types ==
  /\ States /\ Stages /\ Life /\ Flags /\ Asked /\ Counted
  /\ WireType /\ OutType /\ InboxType /\ ReplyType

\* A process is owned from its start to the end of decoder_stop, and collected at most once.
ProcessInv ==
  /\ owned <=> app # "idle" \/ session = "active"
  /\ owned => IF reaped THEN app = "stopping" /\ pid = "freed" ELSE pid \in {"running", "zombie"}
  /\ ~owned => pid \in {"none", "freed"} /\ ~socket
  /\ app \in {"killing", "reaping"} => ~socket

\* A session has exchanges only; a call that is not one has no session.
ModeInv ==
  /\ app \in {"transfer", "ended"} => request # None /\ outcome = "none"
  /\ app = "ended" => Finish
  /\ session = "active" => app \in {"idle", "transfer"}
  /\ session # "none" => ~Finish
  /\ app = "transfer" /\ ~Finish => session = "active"

\* What the helper has read and written where it is.
StageInv ==
  /\ helper # "writing" => out = <<>>
  /\ helper # "payload" => todo = 0

\* A helper is past the header only of a request.
DecodingAsked == helper # "header" => request # None

\* The next header the helper reads is that of the request.
HeaderNext ==
  pid = "running" /\ helper = "header" /\ inbox # <<>> =>
    request # None /\ Head(inbox) = <<sequence, request>>

\* The helper of a single call reads one request.
OneRequest ==
  app # "idle" /\ Finish =>
    /\ helper = "header" => handled = 0 /\ (app = "transfer" => sent = Len(inbox))
    /\ helper # "header" => handled = 1

\* The helper of a session has still to read the request, or has read as much of it as
\* was sent and is not on the way.
Behind ==
  /\ helper \in {"header", "writing"}
  /\ inbox # <<>> => Head(inbox) = <<sequence, request>> /\ sent = Len(inbox)
  /\ app = "transfer" => handled + 1 = sequence /\ sent = Len(inbox)
At == request # None /\ handled = sequence /\ sent + todo = Total(request) + Len(inbox)
Account == pid = "running" /\ ~Finish => Behind \/ At
Between ==
  app = "idle" /\ session = "active" =>
    inbox = <<>> /\ helper \in {"header", "writing"} /\ (pid = "running" => handled = sequence)

\* What is still to come of the stream of a helper.
Stream == wire \o out
\* Written in exchange n; without a header that fits another one than n; written in n with
\* no such header after the first item.
Tagged(s, n) == \A i \in 1..Len(s) : s[i].tag = n
Old(s, n) == \A i \in 1..Len(s) : s[i].head = None \/ s[i].head.b = n
Fresh(s, n) ==
  \A i \in 1..Len(s) : s[i].tag = n /\ (i = 1 \/ s[i].head = None \/ s[i].head.b = n)
Answered == handled = sequence /\ todo = 0 /\ helper \in {"header", "writing"}
Unwanted == Stream # <<>> /\ (Stream[1].head = None \/ Stream[1].head.b # sequence)
OnlyStream == app # "idle" /\ Finish => Tagged(Stream, 1)
IdleStream == app = "idle" /\ session = "active" => Old(Stream, sequence)
SessionStream ==
  app = "transfer" /\ ~Finish =>
    \/ /\ Fresh(Stream, sequence) /\ (reply.head # None => Old(Stream, sequence))
       /\ Stream # <<>> \/ reply.head # None => Answered
    \/ reply.head = None /\ Unwanted
StreamInv == OnlyStream /\ IdleStream /\ SessionStream

\* What has been received so far fits the request and was written in answer to it.
Taken == app \in {"transfer", "ended"} \/ outcome = "ok"
HeadInv ==
  Taken =>
    /\ request # None
    /\ reply.head = None => reply.pages = None /\ reply.body = <<>>
    /\ reply.head # None =>
         HeaderFits(request, Expected, reply.head) /\ Len(reply.body) <= Pieces(BodySize(reply.head))
    /\ reply.pages # None => PagesFit(request, reply.pages)
BodyInv == Taken => \A i \in 1..Len(reply.body) : reply.body[i] = Expected
WholeInv == outcome = "ok" \/ app = "ended" => Complete
\* A reply of a single call counts only after a clean exit.
CleanInv ==
  outcome = "ok" /\ Finish =>
    code = 0 /\ pid = "freed" /\ (app = "idle" \/ (app = "stopping" /\ reaped))

DecoderInv ==
  /\ Types /\ ProcessInv /\ ModeInv /\ StageInv /\ DecodingAsked /\ HeaderNext /\ OneRequest
  /\ Account /\ Between /\ StreamInv /\ HeadInv /\ BodyInv /\ WholeInv /\ CleanInv

\* A set of numbers has a least one, a bounded one a greatest.
LEMMA LeastExists ==
  ASSUME NEW S, S \subseteq Nat, S # {}
  PROVE  \E x \in S : \A y \in S : x <= y
<1> DEFINE R == {p \in Nat \X Nat : p[1] < p[2]}
<1>1. R = OpToRel(<, Nat)
  BY DEF OpToRel
<1>2. IsWellFoundedOn(R, Nat)
  BY <1>1, NatLessThanWellFounded
<1> HIDE DEF R
<1>3. PICK x \in S : \A y \in S : <<y, x>> \notin R
  BY <1>2, WFMin
<1>4. \A y \in S : ~(y < x)
  BY <1>3 DEF R
<1> QED
  BY <1>3, <1>4

\* Sizes are counted in pieces.
LEMMA PiecesNat == /\ \A n \in Nat : Pieces(n) \in Nat
                   /\ \A n \in Int : Pieces(n) \in Int
  BY Limits DEF Pieces

\* A listing goes on from entry to entry.
After(prev, e) == IF e.regular THEN RecordEntry(prev, e) ELSE prev

\* The recursive function of the listing exists and has this value at every entry.
LEMMA ListingStep ==
  ASSUME NEW es, Len(es) \in Nat
  PROVE  Listing(es) = [n \in 0..Len(es) |-> IF n = 0 THEN NoOutput ELSE After(Listing(es)[n - 1], es[n])]
<1> DEFINE Whole(f, m) == f = [n \in 0..m |-> IF n = 0 THEN NoOutput ELSE After(f[n - 1], es[n])]
           S == {m \in Nat : ~\E f : Whole(f, m)}
<1>1. S = {}
  <2> SUFFICES ASSUME S # {} PROVE FALSE
    OBVIOUS
  <2>1. PICK m \in S : \A k \in S : m <= k
    BY LeastExists
  <2>2. m # 0
    <3>1. Whole([n \in 0..0 |-> NoOutput], 0)
      OBVIOUS
    <3> QED
      BY <2>1, <3>1
  <2>3. m \in Nat /\ m - 1 \in Nat /\ ~(m <= m - 1)
    BY <2>1, <2>2
  <2>4. PICK f : Whole(f, m - 1)
    BY <2>1, <2>3
  <2> DEFINE g == [n \in 0..m |-> IF n = m THEN After(f[m - 1], es[m]) ELSE f[n]]
  <2>5. \A n \in 0..m : g[n] = IF n = 0 THEN NoOutput ELSE After(g[n - 1], es[n])
    <3> SUFFICES ASSUME NEW n \in 0..m PROVE g[n] = IF n = 0 THEN NoOutput ELSE After(g[n - 1], es[n])
      OBVIOUS
    <3> DEFINE R(h, k) == After(h[k - 1], es[k])
    <3>1. CASE n = m
      <4>1. n # 0 /\ n - 1 \in 0..m /\ n - 1 # m /\ g[n - 1] = f[n - 1]
        BY <2>2, <2>3, <3>1
      <4>2. g[n] = After(f[m - 1], es[m])
        BY <3>1
      <4> QED
        BY <3>1, <4>1, <4>2
    <3>2. CASE n # m
      <4>1. n \in 0..(m - 1) /\ g[n] = f[n]
        BY <2>3, <3>2
      <4>2. f[n] = IF n = 0 THEN NoOutput ELSE R(f, n)
        <5> HIDE DEF R
        <5>1. f = [k \in 0..(m - 1) |-> IF k = 0 THEN NoOutput ELSE R(f, k)]
          BY <2>4 DEF R
        <5> QED
          BY <4>1, <5>1
      <4>3. n # 0 => n - 1 \in 0..m /\ n - 1 # m
        BY <2>3, <4>1
      <4>4. n # 0 => g[n - 1] = f[n - 1]
        BY <4>3
      <4> QED
        BY <4>1, <4>2, <4>4
    <3> QED
      BY <3>1, <3>2
  <2>6. g = [n \in 0..m |-> g[n]]
    OBVIOUS
  <2> HIDE DEF g
  <2>7. Whole(g, m)
    BY <2>5, <2>6
  <2> HIDE DEF Whole
  <2>8. ~\E h : Whole(h, m)
    BY <2>1
  <2> QED
    BY <2>7, <2>8
<1>2. \E f : Whole(f, Len(es))
  <2> HIDE DEF Whole
  <2> QED
    BY <1>1
<1>3. Listing(es) = CHOOSE f : Whole(f, Len(es))
  BY DEF Listing, After
<1>4. Whole(CHOOSE f : Whole(f, Len(es)), Len(es))
  <2> HIDE DEF Whole
  <2> QED
    BY <1>2
<1> QED
  BY <1>3, <1>4

\* Archive listings: entries counted, room for each, at least 17 bytes an entry.
Room == [ok : BOOLEAN, count : 0..CountMax, size : 0..OutputMax]
ListingSmall(o) == o \in Room /\ o.count * 17 <= o.size

\* An entry that is recorded keeps the listing within its room.
LEMMA RecordFits ==
  ASSUME NEW o, ListingSmall(o), NEW e \in EntrySet
  PROVE  /\ ListingSmall(RecordEntry(o, e))
         /\ o.count = 0 /\ o.size = 0 /\ RecordEntry(o, e).count = 0 => RecordEntry(o, e).size = 0
         /\ RecordEntry(o, e).count \in {o.count, o.count + 1}
         /\ (RecordEntry(o, e).count = o.count => RecordEntry(o, e).size = o.size)
<1>1. /\ OutputMax \in Nat /\ CountMax \in Nat /\ o.count \in 0..CountMax /\ o.size \in 0..OutputMax /\ o.ok \in BOOLEAN
      /\ o.count * 17 <= o.size /\ e.name \in Nat /\ o = [ok |-> o.ok, count |-> o.count, size |-> o.size]
  BY Limits DEF ListingSmall, Room, EntrySet
<1> DEFINE good == /\ o.ok /\ e.name \in 1..NameMax /\ o.count < CountMax
                   /\ e.declared >= -1
                   /\ Reserve(o.size, 16 + e.name, OutputMax)
           x == RecordEntry(o, e)
<1>2. CASE good
  <2>1. x = [o EXCEPT !.size = @ + 16 + e.name, !.count = @ + 1]
    BY <1>2 DEF RecordEntry
  <2>2. x = [ok |-> o.ok, count |-> o.count + 1, size |-> o.size + 16 + e.name]
    BY <1>1, <2>1
  <2>3. o.count + 1 \in 0..CountMax /\ o.size + 16 + e.name \in 0..OutputMax /\ 1 <= e.name
    BY <1>1, <1>2 DEF Reserve
  <2>4. (o.count + 1) * 17 <= o.size + 16 + e.name
    BY <1>1, <2>3
  <2> HIDE DEF x
  <2>5. x \in Room /\ x.count = o.count + 1 /\ x.size = o.size + 16 + e.name
    BY <1>1, <2>2, <2>3 DEF Room
  <2>6. x.count # 0 /\ x.count # o.count
    BY <1>1, <2>5
  <2> QED
    BY <1>1, <2>4, <2>5, <2>6 DEF ListingSmall, x
<1>3. CASE ~good
  <2>1. x = [ok |-> FALSE, count |-> o.count, size |-> o.size]
    BY <1>1, <1>3 DEF RecordEntry
  <2> HIDE DEF x
  <2>2. x \in Room /\ x.count = o.count /\ x.size = o.size
    BY <1>1, <2>1 DEF Room
  <2> QED
    BY <1>1, <2>2 DEF ListingSmall, x
<1> QED
  BY <1>2, <1>3

\* After every entry the listing fits the limits, and is empty as long as it has no entry.
LEMMA ListingFits ==
  ASSUME NEW es \in Seq(EntrySet)
  PROVE  \A n \in 0..Len(es) : ListingSmall(Listing(es)[n]) /\ (Listing(es)[n].count = 0 => Listing(es)[n].size = 0)
<1> DEFINE Good(o) == ListingSmall(o) /\ (o.count = 0 => o.size = 0)
           S == {n \in 0..Len(es) : ~Good(Listing(es)[n])}
<1>0. Len(es) \in Nat
  OBVIOUS
<1>1. \A n \in 0..Len(es) : Listing(es)[n] = IF n = 0 THEN NoOutput ELSE After(Listing(es)[n - 1], es[n])
  <2> DEFINE F == Listing(es)
             R(n) == After(F[n - 1], es[n])
  <2>1. F = [n \in 0..Len(es) |-> IF n = 0 THEN NoOutput ELSE R(n)]
    BY <1>0, ListingStep
  <2> HIDE DEF F, R
  <2>2. \A n \in 0..Len(es) : F[n] = IF n = 0 THEN NoOutput ELSE R(n)
    BY <2>1
  <2> QED
    BY <2>2 DEF F, R
<1>2. S = {}
  <2> SUFFICES ASSUME S # {} PROVE FALSE
    OBVIOUS
  <2>1. PICK n \in S : \A k \in S : n <= k
    <3> S \subseteq Nat
      BY <1>0
    <3> HIDE DEF S
    <3> QED
      BY LeastExists
  <2>2. n \in 0..Len(es) /\ ~Good(Listing(es)[n])
    BY <2>1
  <2>3. Good(NoOutput)
    <3>1. 0 \in 0..CountMax /\ 0 \in 0..OutputMax /\ 0 * 17 <= 0
      BY Limits
    <3> QED
      BY <3>1 DEF ListingSmall, Room, NoOutput
  <2>4. n # 0
    BY <1>1, <2>2, <2>3
  <2>5. n - 1 \in 0..Len(es) /\ ~(n <= n - 1) /\ es[n] \in EntrySet
    BY <1>0, <2>2, <2>4
  <2> DEFINE o == Listing(es)[n - 1]
  <2>6. Good(o)
    BY <2>1, <2>5
  <2>7. Listing(es)[n] = After(o, es[n])
    BY <1>1, <2>2, <2>4
  <2> HIDE DEF o
  <2>8. Good(RecordEntry(o, es[n]))
    <3>1. o.count \in Nat
      BY <2>6, Limits DEF ListingSmall, Room
    <3> QED
      BY <2>5, <2>6, <3>1, RecordFits
  <2>9. Good(After(o, es[n]))
    BY <2>6, <2>8 DEF After
  <2> HIDE DEF Good
  <2> QED
    BY <2>2, <2>7, <2>9
<1> QED
  BY <1>2

\* Whatever the archive helper answers is within the limits and as long as its entries.
LEMMA ArchiveFitsOutput ==
  ASSUME NEW r \in RequestSet
  PROVE  /\ ArchiveOutput(r).count \in Nat /\ ArchiveOutput(r).size \in Nat
         /\ ArchiveOutput(r).ok => ArchiveOutput(r).size <= OutputMax
         /\ r.op # List => ArchiveOutput(r).count = 0
         /\ r.op = List => ArchiveOutput(r).count <= CountMax /\ ArchiveOutput(r).count * 17 <= ArchiveOutput(r).size
                           /\ (ArchiveOutput(r).count = 0 => ArchiveOutput(r).size = 0)
<1> DEFINE es == r.doc.entries
           x == ArchiveOutput(r)
<1>1. es \in Seq(EntrySet) /\ Len(es) \in Nat /\ r.index \in Nat
  BY DEF RequestSet, DocumentSet
<1>2. OutputMax \in Nat /\ CountMax \in Nat
  BY Limits
<1> HIDE DEF es
<1>3. CASE r.op = List /\ Len(es) <= ScanMax
  <2>1. x = Listing(es)[Len(es)]
    BY <1>1, <1>3, Limits DEF ArchiveOutput, es
  <2>2. ListingSmall(x) /\ (x.count = 0 => x.size = 0)
    <3> HIDE DEF x
    <3> QED
      BY <1>1, <2>1, ListingFits
  <2>3. x.count \in 0..CountMax /\ x.size \in 0..OutputMax /\ x.count * 17 <= x.size
    BY <2>2 DEF ListingSmall, Room
  <2> QED
    BY <1>2, <1>3, <2>2, <2>3
<1>4. CASE r.op = List /\ ~(Len(es) <= ScanMax)
  <2>1. x = [NoOutput EXCEPT !.ok = FALSE]
    BY <1>1, <1>4, Limits DEF ArchiveOutput, es
  <2>2. ~x.ok /\ x.count = 0 /\ x.size = 0
    BY <2>1 DEF NoOutput
  <2> QED
    BY <1>2, <1>4, <2>2
<1>5. CASE r.op # List /\ r.index < Len(es) /\ Extracts(es[r.index + 1])
  <2>1. x = [NoOutput EXCEPT !.size = es[r.index + 1].size]
    BY <1>1, <1>5 DEF ArchiveOutput, es
  <2>2. es[r.index + 1] \in EntrySet
    BY <1>1, <1>5
  <2>3. x.count = 0 /\ x.size = es[r.index + 1].size
    BY <2>1 DEF NoOutput
  <2>4. x.size \in Nat /\ x.size <= OutputMax
    BY <1>5, <2>2, <2>3 DEF Extracts, EntrySet
  <2> QED
    BY <1>5, <2>3, <2>4
<1>6. CASE r.op # List /\ ~(r.index < Len(es) /\ Extracts(es[r.index + 1]))
  <2>1. x = [NoOutput EXCEPT !.ok = FALSE]
    BY <1>6 DEF ArchiveOutput, es
  <2>2. ~x.ok /\ x.count = 0 /\ x.size = 0
    BY <2>1 DEF NoOutput
  <2> QED
    BY <1>6, <2>2
<1> QED
  BY <1>3, <1>4, <1>5, <1>6

\* The scaled sides of a page are numbers.
LEMMA PageSides ==
  ASSUME NEW r \in RequestSet, PageFits(r)
  PROVE  AtLeastOne(PageWidth(r)) \in Nat \ {0} /\ AtLeastOne(PageHeight(r)) \in Nat \ {0}
<1>1. r.dim \in Nat /\ r.target \in Nat /\ r.doc.w \in Nat \ {0} /\ r.doc.h \in Nat \ {0}
  BY DEF RequestSet, DocumentSet, PageFits
<1>2. \A n \in Nat, d \in Nat \ {0} : Rounded(n, d) \in Nat
  BY DEF Rounded
<1>3. \A a, b \in Nat : a * b \in Nat
  OBVIOUS
<1>4. Rounded(r.doc.w * r.target, r.doc.h) \in Nat /\ Rounded(r.doc.h * r.dim, r.doc.w) \in Nat
  BY <1>1, <1>2, <1>3
<1>5. PageWidth(r) \in Nat /\ PageHeight(r) \in Nat
  BY <1>1, <1>4 DEF PageWidth, PageHeight
<1> QED
  BY <1>5 DEF AtLeastOne

\* What a helper answers has a header, with the number of the exchange in a session.
LEMMA AnswerIsHead ==
  ASSUME NEW r \in RequestSet, Decodes(r), NEW seq \in Nat
  PROVE  AnswerHead(r, seq) \in HeadSet /\ (r.kind = "model" => AnswerHead(r, seq).b = seq)
<1>1. /\ r.kind \in Kinds /\ r.op \in Nat /\ r.index \in Nat /\ r.doc.w \in Nat /\ r.doc.h \in Nat /\ r.doc.bytes \in Nat
  BY DEF RequestSet, DocumentSet
<1>2. \A a, b, n \in Nat : Header(r, a, b, n) \in HeadSet /\ Header(r, a, b, n).b = b
  BY <1>1 DEF Header, HeadSet
<1>3. \A a, b \in Nat : a * b \in Nat
  OBVIOUS
<1>4. CASE r.kind = "image" \/ r.kind = "math"
  <2>1. r.doc.w * r.doc.h * 4 \in Nat
    BY <1>1, <1>3
  <2>2. AnswerHead(r, seq) = Header(r, r.doc.w, r.doc.h, r.doc.w * r.doc.h * 4)
    BY <1>4 DEF AnswerHead, PictureHeader, FormulaHeader
  <2>3. Header(r, r.doc.w, r.doc.h, r.doc.w * r.doc.h * 4) \in HeadSet
    BY <1>1, <1>2, <2>1
  <2> QED
    BY <1>4, <2>2, <2>3
<1>5. CASE r.kind = "archive"
  <2>1. AnswerHead(r, seq) = Header(r, ArchiveOutput(r).count, r.index, ArchiveOutput(r).size)
    BY <1>5 DEF AnswerHead, ArchiveHeader
  <2> QED
    BY <1>1, <1>2, <1>5, <2>1, ArchiveFitsOutput
<1>6. CASE r.kind = "pdf"
  <2> DEFINE w == AtLeastOne(PageWidth(r))
             h == AtLeastOne(PageHeight(r))
  <2>1. PageFits(r)
    BY <1>6 DEF Decodes, Picture, Formula, Archive, Page, Mesh, Model
  <2>2. w \in Nat /\ h \in Nat
    BY <2>1, PageSides
  <2>3. AnswerHead(r, seq) = Header(r, w, h, w * h * 4 + 4)
    BY <1>6 DEF AnswerHead, PageHeader
  <2> HIDE DEF w, h
  <2>4. w * h * 4 + 4 \in Nat
    BY <2>2, <1>3
  <2> QED
    BY <1>2, <1>6, <2>2, <2>3, <2>4
<1>7. CASE r.kind = "mesh"
  BY <1>1, <1>2, <1>7 DEF AnswerHead, MeshHeader
<1>8. CASE r.kind = "model"
  BY <1>1, <1>2, <1>8 DEF AnswerHead, ModelHeader
<1> QED
  BY <1>1, <1>4, <1>5, <1>6, <1>7, <1>8 DEF Kinds

\* The limits of the helpers and those of the application agree: what a helper that works
\* answers to a valid request is taken, if it fits the caller's own room.
THEOREM WorkingAnswerFits ==
  ASSUME NEW r \in RequestSet, Valid(r), Decodes(r), NEW seq \in Nat,
         r.kind = "model" => r.doc.bytes <= r.cap
  PROVE  /\ HeaderFits(r, seq, AnswerHead(r, seq))
         /\ r.kind = "pdf" => PagesFit(r, r.doc.pages)
<1>1. /\ r.kind \in Kinds /\ r.op \in Nat /\ r.index \in Nat /\ r.doc.w \in Nat /\ r.doc.h \in Nat /\ r.doc.bytes \in Nat
      /\ r.dim \in Nat /\ r.cap \in Nat /\ r.target \in Nat /\ r.doc.pages \in Nat
  BY DEF RequestSet, DocumentSet
<1>2. OutputMax \in Nat /\ DimMax \in Nat /\ CountMax \in Nat
  BY Limits
<1> DEFINE x == AnswerHead(r, seq)
<1>3. \A a, b, n : /\ Header(r, a, b, n).kind = r.kind /\ Header(r, a, b, n).a = a
                   /\ Header(r, a, b, n).b = b /\ Header(r, a, b, n).bytes = n
  BY DEF Header
<1>4. CASE r.kind = "image" \/ r.kind = "math"
  <2>1. Bounded(r.doc.w, r.doc.h, r.dim, r.cap) /\ CapOf(r) = r.cap
    BY <1>4 DEF Decodes, Picture, Formula, Archive, Page, Mesh, Model, CapOf
  <2>2. x = Header(r, r.doc.w, r.doc.h, r.doc.w * r.doc.h * 4)
    BY <1>4 DEF AnswerHead, PictureHeader, FormulaHeader
  <2> DEFINE n == r.doc.w * r.doc.h * 4
  <2>3. n \in Nat
    BY <1>1
  <2>4. x.kind = r.kind /\ x.a = r.doc.w /\ x.b = r.doc.h /\ x.bytes = n /\ x.a * x.b * 4 = n
    BY <1>3, <2>2
  <2> HIDE DEF x, n
  <2>5. PictureFits(r, x)
    BY <1>1, <1>4, <2>1, <2>3, <2>4 DEF PictureFits, Bounded, n
  <2> QED
    BY <1>4, <2>4, <2>5 DEF HeaderFits, x
<1>5. CASE r.kind = "archive"
  <2>1. ArchiveOutput(r).ok /\ CapOf(r) = OutputMax /\ ValidArchive(r)
    BY <1>5 DEF Decodes, Picture, Formula, Archive, Page, Mesh, Model, CapOf, Valid,
                ValidPicture, ValidFormula, ValidPage, ValidMesh, ValidExchange
  <2>2. x = Header(r, ArchiveOutput(r).count, r.index, ArchiveOutput(r).size)
    BY <1>5 DEF AnswerHead, ArchiveHeader
  <2>3. x.kind = r.kind /\ x.a = ArchiveOutput(r).count /\ x.b = r.index /\ x.bytes = ArchiveOutput(r).size
    BY <1>3, <2>2
  <2> HIDE DEF x
  <2>4. ArchiveFits(r, x)
    BY <1>1, <2>1, <2>3, ArchiveFitsOutput DEF ArchiveFits, ValidArchive
  <2> QED
    BY <1>5, <2>3, <2>4 DEF HeaderFits, x
<1>6. CASE r.kind = "pdf"
  <2> DEFINE w == AtLeastOne(PageWidth(r))
             h == AtLeastOne(PageHeight(r))
  <2>1. Page(r) /\ ValidPage(r) /\ CapOf(r) = OutputMax
    BY <1>6 DEF Decodes, Picture, Formula, Archive, Mesh, Model, CapOf, Valid,
                ValidPicture, ValidFormula, ValidArchive, ValidMesh, ValidExchange
  <2>2. w \in Nat \ {0} /\ h \in Nat \ {0}
    BY <2>1, PageSides DEF Page
  <2>3. w <= r.dim /\ (r.target > 0 => h <= r.target) /\ w * h * 4 <= OutputMax
    BY <2>1 DEF Page, PageFits
  <2>4. h <= DimMax
    BY <1>1, <1>2, <2>1 DEF Page, PageFits, ValidPage, AtLeastOne
  <2>5. x = Header(r, w, h, w * h * 4 + 4)
    BY <1>6 DEF AnswerHead, PageHeader
  <2> HIDE DEF w, h
  <2>6. x.kind = r.kind /\ x.a = w /\ x.b = h /\ x.bytes = w * h * 4 + 4
    BY <1>3, <2>5
  <2> HIDE DEF x
  <2>7. PictureFits(r, x)
    BY <1>1, <1>2, <1>6, <2>1, <2>2, <2>3, <2>4, <2>6 DEF PictureFits
  <2>8. PagesFit(r, r.doc.pages)
    BY <1>1, <2>1, NoneIsNew DEF Page, PagesFit
  <2> QED
    BY <1>6, <2>6, <2>7, <2>8 DEF HeaderFits, x
<1>7. CASE r.kind = "mesh"
  <2>1. x = Header(r, 1, 0, r.doc.bytes) /\ r.doc.bytes <= OutputMax /\ CapOf(r) = OutputMax
    BY <1>7 DEF AnswerHead, MeshHeader, Decodes, Picture, Formula, Archive, Page, Mesh, Model, CapOf
  <2> HIDE DEF x
  <2> QED
    BY <1>3, <1>7, <2>1 DEF HeaderFits, x
<1>8. CASE r.kind = "model"
  <2>1. x = Header(r, r.op, seq, r.doc.bytes) /\ CapOf(r) = r.cap
    BY <1>8 DEF AnswerHead, ModelHeader, CapOf
  <2> HIDE DEF x
  <2> QED
    BY <1>3, <1>8, <2>1 DEF HeaderFits, ModelFits, x
<1> QED
  BY <1>1, <1>4, <1>5, <1>6, <1>7, <1>8 DEF Kinds

\* A header the application takes is all a caller relies on.
LEMMA FitsIsAllowed ==
  ASSUME NEW r \in RequestSet, NEW seq, NEW x,
         x.head \in HeadSet, HeaderFits(r, seq, x.head),
         r.kind = "pdf" => PagesFit(r, x.pages)
  PROVE  Allowed(r, x)
<1>1. /\ r.dim \in Nat /\ OutputMax \in Nat /\ x.head.bytes \in Nat /\ x.head.a \in Nat /\ x.head.b \in Nat
      /\ r.index \in Nat /\ r.cap \in Nat /\ r.kind \in Kinds /\ PagesMax \in Nat
  BY Limits DEF RequestSet, HeadSet
<1>2. x.head.a * x.head.b * 4 \in Nat
  BY <1>1
<1>3. CASE r.kind \in {"image", "math", "pdf"}
  <2>1. PictureFits(r, x.head) /\ x.head.kind = r.kind
    BY <1>3 DEF HeaderFits
  <2>2. BodySize(x.head) = x.head.a * x.head.b * 4 /\ x.head.a <= r.dim /\ BodySize(x.head) <= CapOf(r)
    BY <1>1, <1>2, <1>3, <2>1 DEF PictureFits, BodySize
  <2> QED
    BY <1>1, <1>3, <2>2 DEF Allowed, PagesFit
<1>4. CASE r.kind \notin {"image", "math", "pdf"}
  BY <1>1, <1>4 DEF Allowed, HeaderFits, ModelFits, ArchiveFits, BodySize
<1> QED
  BY <1>3, <1>4

\* A header that was taken has a length.
LEMMA FitsIsNat ==
  ASSUME NEW r \in RequestSet, NEW seq, NEW h \in HeadSet, HeaderFits(r, seq, h)
  PROVE  Pieces(BodySize(h)) \in Nat
<1>1. h.bytes \in Nat /\ h.a \in Nat /\ h.b \in Nat /\ h.kind = r.kind
  BY DEF HeadSet, HeaderFits
<1>2. h.a * h.b * 4 \in Nat
  BY <1>1
<1>3. r.kind = "pdf" => h.bytes = h.a * h.b * 4 + 4
  BY <1>1, <1>2 DEF HeaderFits, PictureFits
<1>4. BodySize(h) \in Nat
  BY <1>1, <1>2, <1>3 DEF BodySize
<1> QED
  BY <1>4, PiecesNat

\* A request is its header and its pieces.
LEMMA TotalNat ==
  \A r \in Requests : Total(r) \in Nat \ {0} /\ Pieces(r.size) \in Nat /\ Total(r) = 1 + Pieces(r.size)
<1> SUFFICES ASSUME NEW r \in Requests PROVE Total(r) \in Nat \ {0} /\ Pieces(r.size) \in Nat /\ Total(r) = 1 + Pieces(r.size)
  OBVIOUS
<1>1. r.size \in Nat
  BY RequestsTyped DEF RequestSet
<1> QED
  BY <1>1, PiecesNat DEF Total

\* The smaller of two numbers.
LEMMA MinTwo ==
  ASSUME NEW a \in Int, NEW b \in Int
  PROVE  Min({a, b}) \in {a, b} /\ Min({a, b}) <= a /\ Min({a, b}) <= b
<1> DEFINE S == {a, b}
<1>1. \E x \in S : \A y \in S : x <= y
  <2>1. CASE a <= b
    BY <2>1
  <2>2. CASE b <= a
    BY <2>2
  <2> QED
    BY <2>1, <2>2
<1>2. Min(S) \in S /\ \A y \in S : Min(S) <= y
  BY <1>1 DEF Min
<1> QED
  BY <1>2

\* Two streams of one exchange, one behind the other.
LEMMA JoinedItems ==
  ASSUME NEW s \in Seq(Items), NEW t \in Seq(Items), NEW u, u = s \o t
  PROVE  /\ u \in Seq(Items) /\ Len(u) = Len(s) + Len(t)
         /\ \A i \in 1..Len(s) : i \in 1..Len(u) /\ u[i] = s[i]
         /\ \A i \in 1..Len(t) : i + Len(s) \in 1..Len(u) /\ u[i + Len(s)] = t[i]
         /\ \A i \in 1..Len(u) : i \in 1..Len(s) \/ (i - Len(s) \in 1..Len(t) /\ u[i] = t[i - Len(s)])
<1>1. u \in Seq(Items) /\ Len(u) = Len(s) + Len(t) /\ Len(s) \in Nat /\ Len(t) \in Nat
  BY ConcatProperties
<1>2. \A i \in 1..Len(u) : u[i] = IF i <= Len(s) THEN s[i] ELSE t[i - Len(s)]
  BY <1>1, ConcatProperties
<1> QED
  BY <1>1, <1>2

\* What holds of two streams holds of them together.
LEMMA JoinedFresh ==
  ASSUME NEW s \in Seq(Items), NEW t \in Seq(Items), NEW n
  PROVE  /\ Tagged(s, n) /\ Tagged(t, n) => Tagged(s \o t, n)
         /\ Old(s, n) /\ Old(t, n) => Old(s \o t, n)
         /\ Len(s) > 0 /\ Fresh(s, n) /\ Old(t, n) /\ Tagged(t, n) => Fresh(s \o t, n)
         /\ Len(s) > 0 => Len(s \o t) > 0 /\ (s \o t)[1] = s[1]
<1> DEFINE u == s \o t
<1>1. /\ u \in Seq(Items) /\ Len(u) = Len(s) + Len(t) /\ Len(s) \in Nat /\ Len(t) \in Nat
      /\ \A i \in 1..Len(s) : i \in 1..Len(u) /\ u[i] = s[i]
      /\ \A i \in 1..Len(u) : i \in 1..Len(s) \/ (i - Len(s) \in 1..Len(t) /\ u[i] = t[i - Len(s)])
  BY JoinedItems
<1> HIDE DEF u
<1>2. Tagged(s, n) /\ Tagged(t, n) => Tagged(u, n)
  BY <1>1 DEF Tagged
<1>3. Old(s, n) /\ Old(t, n) => Old(u, n)
  BY <1>1 DEF Old
<1>4. Len(s) > 0 /\ Fresh(s, n) /\ Old(t, n) /\ Tagged(t, n) => Fresh(u, n)
  BY <1>1 DEF Old, Tagged, Fresh
<1>5. Len(s) > 0 => Len(u) > 0 /\ u[1] = s[1]
  BY <1>1
<1> QED
  BY <1>2, <1>3, <1>4, <1>5 DEF u

\* An answer is one header and items without one, all of its exchange.
LEMMA AnswerItems ==
  ASSUME NEW h \in HeadSet, NEW p \in Nat, handled \in Tags
  PROVE  /\ Answer(h, p) \in Seq(Items) /\ Len(Answer(h, p)) > 0
         /\ Fresh(Answer(h, p), handled) /\ Tagged(Answer(h, p), handled)
         /\ h.b = handled => Old(Answer(h, p), handled)
<1> DEFINE a == <<Item(h, None)>>
           b == IF h.kind = "pdf" THEN <<Item(None, p)>> ELSE <<>>
           n == Pieces(BodySize(h))
           c == [i \in 1..n |-> Item(None, None)]
           d == a \o b
<1>1. /\ Item(h, None) \in Items /\ Item(h, None).head = h /\ Item(h, None).tag = handled
      /\ Item(None, p) \in Items /\ Item(None, p).head = None /\ Item(None, p).tag = handled
      /\ Item(None, None) \in Items /\ Item(None, None).head = None /\ Item(None, None).tag = handled
  BY DEF Item, Items
<1>2. n \in Int
  <2>1. h.bytes \in Int /\ h.bytes - 4 \in Int
    BY DEF HeadSet
  <2> QED
    BY <2>1, PiecesNat DEF BodySize
<1>3. Answer(h, p) = d \o c
  BY DEF Answer
<1>4. c = [i \in 1..n |-> Item(None, None)]
  OBVIOUS
<1>5. a = <<Item(h, None)>> /\ b = (IF h.kind = "pdf" THEN <<Item(None, p)>> ELSE <<>>) /\ d = a \o b
  OBVIOUS
<1> HIDE DEF a, b, c, d, n
<1>6. c \in Seq(Items) /\ Old(c, handled) /\ Tagged(c, handled)
  <2>1. c \in Seq(Items) /\ \A i \in 1..Len(c) : c[i] = Item(None, None)
    <3> DEFINE x == Item(None, None)
    <3>1. x \in Items /\ c = [i \in 1..n |-> x]
      BY <1>1, <1>4
    <3> HIDE DEF x
    <3>2. CASE n >= 0
      <4>1. c \in Seq(Items) /\ Len(c) = n
        BY <1>2, <3>1, <3>2
      <4> QED
        BY <3>1, <4>1 DEF x
    <3>3. CASE n < 0
      <4>1. 1..n = 1..0
        BY <1>2, <3>3
      <4>2. c = <<>>
        BY <3>1, <4>1
      <4>3. <<>> \in Seq(Items) /\ Len(<<>>) = 0 /\ 1..0 = {}
        OBVIOUS
      <4> QED
        BY <4>2, <4>3
    <3> QED
      BY <1>2, <3>2, <3>3
  <2> QED
    BY <1>1, <2>1 DEF Old, Tagged
<1>7. a \in Seq(Items) /\ Len(a) = 1 /\ a[1] = Item(h, None)
  BY <1>1, <1>5
<1>8. b \in Seq(Items) /\ Old(b, handled) /\ Tagged(b, handled)
  <2>1. CASE h.kind = "pdf"
    <3>1. b \in Seq(Items) /\ Len(b) = 1 /\ b[1] = Item(None, p)
      BY <1>1, <1>5, <2>1
    <3> QED
      BY <1>1, <3>1 DEF Old, Tagged
  <2>2. CASE h.kind # "pdf"
    <3>1. b = <<>> /\ <<>> \in Seq(Items) /\ Len(<<>>) = 0 /\ 1..0 = {}
      BY <1>5, <2>2
    <3> QED
      BY <3>1 DEF Old, Tagged
  <2> QED
    BY <2>1, <2>2
<1>9. Len(a) > 0 /\ Fresh(a, handled) /\ Tagged(a, handled) /\ (h.b = handled => Old(a, handled))
  BY <1>1, <1>7 DEF Fresh, Tagged, Old
<1>10. /\ d \in Seq(Items) /\ Len(d) > 0 /\ Fresh(d, handled) /\ Tagged(d, handled)
       /\ h.b = handled => Old(d, handled)
  BY <1>5, <1>7, <1>8, <1>9, JoinedFresh, ConcatProperties
<1>11. /\ d \o c \in Seq(Items) /\ Len(d \o c) > 0 /\ Fresh(d \o c, handled) /\ Tagged(d \o c, handled)
       /\ h.b = handled => Old(d \o c, handled)
  BY <1>6, <1>10, JoinedFresh, ConcatProperties
<1> QED
  BY <1>3, <1>11

\* Whatever a helper writes is of its exchange, and behind the first header there is
\* none that another exchange would take.
LEMMA WrittenItems ==
  ASSUME request \in Requests, handled \in Tags, NEW x \in Written
  PROVE  /\ x \in Seq(Items) /\ Tagged(x, handled) /\ Len(x) > 0
         /\ request.kind = "model" => Fresh(x, handled)
<1> DEFINE h == AnswerHead(request, handled)
           p == request.doc.pages
           a == Answer(h, p)
<1>1. request \in RequestSet /\ p \in Nat /\ handled \in Nat
  BY RequestsTyped, Bounds DEF RequestSet, DocumentSet, Tags
<1>2. Decodes(request) =>
        /\ a \in Seq(Items) /\ Len(a) > 0 /\ Fresh(a, handled) /\ Tagged(a, handled)
        /\ request.kind = "model" => Old(a, handled)
  <2>1. Decodes(request) => h \in HeadSet /\ (request.kind = "model" => h.b = handled)
    BY <1>1, AnswerIsHead
  <2> HIDE DEF h, p
  <2> QED
    BY <1>1, <2>1, AnswerItems
<1>3. \/ Decodes(request) /\ x \in {a, a \o a, Append(a, Item(None, None))}
      \/ \E g \in Heads : x = Answer(g, p)
  BY DEF Written
<1> HIDE DEF a, p
<1>4. CASE Decodes(request) /\ x = a
  BY <1>2, <1>4
<1>5. CASE Decodes(request) /\ x = a \o a
  BY <1>2, <1>5, JoinedFresh, ConcatProperties
<1>6. CASE Decodes(request) /\ x = Append(a, Item(None, None))
  <2> DEFINE e == <<Item(None, None)>>
  <2>1. Item(None, None) \in Items /\ Item(None, None).head = None /\ Item(None, None).tag = handled
    BY DEF Item, Items
  <2>2. e \in Seq(Items) /\ Len(e) = 1 /\ e[1] = Item(None, None)
    BY <2>1
  <2>3. x = a \o e
    BY <1>2, <1>6, <2>1, AppendIsConcat
  <2> HIDE DEF e
  <2>4. Old(e, handled) /\ Tagged(e, handled)
    BY <2>1, <2>2 DEF Old, Tagged
  <2> QED
    BY <1>2, <1>6, <2>2, <2>3, <2>4, JoinedFresh, ConcatProperties
<1>7. CASE \E g \in Heads : x = Answer(g, p)
  BY <1>1, <1>7, AnswerItems, RequestsTyped
<1> QED
  BY <1>3, <1>4, <1>5, <1>6, <1>7

\* Every call is a request.
LEMMA RequestsAsked == /\ \A r \in Requests : r # None /\ r.kind \in Kinds
                       /\ None \notin Requests
  BY NoneIsNew, RequestsTyped DEF RequestSet

\* Whatever is received, the transfer goes on or fails.
LEMMA ReceiveEffect ==
  Receive => /\ app = "transfer" /\ wire # <<>>
             /\ UNCHANGED <<faults, request, sequence, sent, procVars, helperVars, inbox>>
             /\ Goes \/ Fails
  BY DEF Receive, Busy, ReceiveHead, ReceivePages, ReceiveBody, ReceiveExcess

\* What is written goes from one end of the stream to the other.
LEMMA MovedItems ==
  ASSUME NEW w \in Seq(Items), NEW o \in Seq(Items), NEW k \in 0..Len(o)
  PROVE  /\ SubSeq(o, 1, k) \in Seq(Items) /\ Len(SubSeq(o, 1, k)) = k
         /\ SubSeq(o, k + 1, Len(o)) \in Seq(Items)
         /\ (w \o SubSeq(o, 1, k)) \o SubSeq(o, k + 1, Len(o)) = w \o o
<1> DEFINE s == SubSeq(o, 1, k)
           t == SubSeq(o, k + 1, Len(o))
<1>1. Len(o) \in Nat /\ k \in Nat /\ k <= Len(o)
  OBVIOUS
<1>2. s \in Seq(Items) /\ Len(s) = k /\ \A i \in 1..k : s[i] = o[i]
  BY <1>1
<1>3. t \in Seq(Items) /\ Len(t) = Len(o) - k /\ \A i \in 1..(Len(o) - k) : t[i] = o[k + i]
  BY <1>1
<1> HIDE DEF s, t
<1>4. s \o t = o
  <2> DEFINE u == s \o t
  <2>1. u \in Seq(Items) /\ Len(u) = Len(o) /\ \A i \in 1..Len(u) : u[i] = IF i <= k THEN s[i] ELSE t[i - k]
    BY <1>1, <1>2, <1>3, ConcatProperties
  <2> HIDE DEF u
  <2>2. \A i \in 1..Len(u) : u[i] = o[i]
    BY <1>1, <1>2, <1>3, <2>1
  <2>3. u = o
    BY <2>1, <2>2
  <2> QED
    BY <2>3 DEF u
<1>5. (w \o s) \o t = w \o (s \o t)
  BY <1>2, <1>3, ConcatAssociative
<1> QED
  BY <1>2, <1>3, <1>4, <1>5 DEF s, t

\* What is left of a sequence without its first items.
Rest(w, n) == SubSeq(w, n + 1, Len(w))

\* What is taken from the front leaves the rest as it is.
LEMMA TakenItems ==
  ASSUME NEW w \in Seq(Items), NEW o \in Seq(Items), NEW n \in 1..Len(w), NEW k
  PROVE  /\ Rest(w, n) \in Seq(Items) /\ Len(Rest(w, n)) = Len(w) - n
         /\ Tagged(w \o o, k) => Tagged(Rest(w, n) \o o, k)
         /\ Old(w \o o, k) => Old(Rest(w, n) \o o, k)
         /\ Fresh(w \o o, k) => Old(Rest(w, n) \o o, k) /\ Fresh(Rest(w, n) \o o, k)
         /\ w \o o # <<>> /\ (w \o o)[1] = w[1]
<1> DEFINE s == w \o o
           v == Rest(w, n)
           t == v \o o
<1>1. Len(w) \in Nat /\ Len(o) \in Nat /\ n \in Nat /\ 1 <= n /\ n <= Len(w)
  OBVIOUS
<1>2. v \in Seq(Items) /\ Len(v) = Len(w) - n /\ \A i \in 1..Len(v) : v[i] = w[i + n]
  BY <1>1 DEF Rest
<1>3. s \in Seq(Items) /\ Len(s) = Len(w) + Len(o) /\ \A i \in 1..Len(s) : s[i] = IF i <= Len(w) THEN w[i] ELSE o[i - Len(w)]
  BY ConcatProperties
<1>4. t \in Seq(Items) /\ Len(t) = Len(v) + Len(o) /\ \A i \in 1..Len(t) : t[i] = IF i <= Len(v) THEN v[i] ELSE o[i - Len(v)]
  BY <1>2, ConcatProperties
<1> HIDE DEF s, t, v
<1>5. \A i \in 1..Len(t) : i + n \in 1..Len(s) /\ i + n # 1 /\ t[i] = s[i + n]
  <2> SUFFICES ASSUME NEW i \in 1..Len(t) PROVE i + n \in 1..Len(s) /\ i + n # 1 /\ t[i] = s[i + n]
    OBVIOUS
  <2>0. i \in Nat /\ 1 <= i /\ Len(v) = Len(w) - n
    BY <1>2, <1>4
  <2>1. i + n \in 1..Len(s) /\ i + n # 1
    BY <1>1, <1>2, <1>3, <1>4
  <2>2. CASE i <= Len(v)
    <3>1. i + n <= Len(w) /\ i \in 1..Len(v)
      BY <1>1, <2>0, <2>2
    <3> QED
      BY <1>2, <1>3, <1>4, <2>1, <2>2, <3>1
  <2>3. CASE ~(i <= Len(v))
    <3>0. \A a \in Nat : ~(a <= Len(w) - n) => ~(a + n <= Len(w)) /\ (a + n) - Len(w) = a - (Len(w) - n)
      BY <1>1
    <3>1. ~(i + n <= Len(w)) /\ (i + n) - Len(w) = i - Len(v)
      BY <2>0, <2>3, <3>0
    <3> QED
      BY <1>3, <1>4, <2>1, <2>3, <3>1
  <2> QED
    BY <2>2, <2>3
<1>6. Tagged(s, k) => Tagged(t, k)
  BY <1>5 DEF Tagged
<1>7. Old(s, k) => Old(t, k)
  BY <1>5 DEF Old
<1>8. Fresh(s, k) => Old(t, k) /\ Fresh(t, k)
  BY <1>5 DEF Old, Fresh
<1>9. s # <<>> /\ s[1] = w[1]
  BY <1>1, <1>3
<1> QED
  BY <1>2, <1>6, <1>7, <1>8, <1>9 DEF s, t, v


\* While the body is incomplete there is room for more of it.
LEMMA BodyRoom ==
  ASSUME HeadInv, ReplyType, Asked, app = "transfer", ReceiveBody
  PROVE  /\ Capacity \in Nat \ {0} /\ Capacity = Pieces(BodySize(reply.head)) - Len(reply.body)
         /\ reply.head # None /\ reply.body \in Seq(Tags)
<1>1. /\ reply.head # None /\ ~Complete /\ (reply.head.kind = "pdf" => reply.pages # None)
      /\ reply.head \in HeadSet /\ reply.body \in Seq(Tags)
  BY DEF ReceiveBody, ReplyType
<1>2. request \in RequestSet
  BY RequestsTyped DEF Asked, HeadInv, Taken
<1>3. /\ HeaderFits(request, Expected, reply.head)
      /\ Len(reply.body) <= Pieces(BodySize(reply.head))
  BY <1>1 DEF HeadInv, Taken
<1>4. Pieces(BodySize(reply.head)) \in Nat
  BY <1>1, <1>2, <1>3, FitsIsNat
<1>5. Len(reply.body) # Pieces(BodySize(reply.head))
  BY <1>1 DEF Complete
<1>6. Capacity = Pieces(BodySize(reply.head)) - Len(reply.body)
  BY <1>1 DEF Capacity
<1> QED
  BY <1>1, <1>3, <1>4, <1>5, <1>6

\* A body is taken from the front, no more than has arrived.
LEMMA ReceivedBody ==
  ASSUME HeadInv, ReplyType, Asked, app = "transfer", ReceiveBody, wire \in Seq(Items), wire # <<>>
  PROVE  \E n \in 1..Len(wire) :
           /\ reply' = [reply EXCEPT !.body = @ \o [i \in 1..n |-> wire[i].tag]]
           /\ wire' = SubSeq(wire, n + 1, Len(wire))
           /\ Len(reply.body) + n <= Pieces(BodySize(reply.head))
<1> DEFINE n == Min({Capacity, Len(wire)})
<1>1. Len(wire) \in Nat \ {0}
  OBVIOUS
<1>2. Capacity \in Nat \ {0} /\ Capacity = Pieces(BodySize(reply.head)) - Len(reply.body)
  BY BodyRoom
<1>3. n \in {Capacity, Len(wire)} /\ n <= Capacity /\ n <= Len(wire)
  <2>1. Capacity \in Int /\ Len(wire) \in Int
    BY <1>1, <1>2
  <2> QED
    BY <2>1, MinTwo
<1>4. /\ reply' = [reply EXCEPT !.body = @ \o [i \in 1..n |-> wire[i].tag]]
      /\ wire' = SubSeq(wire, n + 1, Len(wire))
  BY DEF ReceiveBody
<1>5. Len(reply.body) \in Nat /\ Pieces(BodySize(reply.head)) \in Int
  <2>1. reply.body \in Seq(Tags) /\ reply.head \in HeadSet
    BY BodyRoom DEF ReplyType
  <2>2. reply.head.bytes \in Int
    BY <2>1 DEF HeadSet
  <2>3. BodySize(reply.head) \in Int
    BY <2>2 DEF BodySize
  <2> QED
    BY <2>1, <2>3, PiecesNat
<1> HIDE DEF n
<1>6. n \in 1..Len(wire) /\ Len(reply.body) + n <= Pieces(BodySize(reply.head))
  BY <1>1, <1>2, <1>3, <1>5
<1> QED
  BY <1>4, <1>6

\* What is received is taken from the front.
LEMMA ReceivedItems ==
  ASSUME Receive, wire \in Seq(Items), HeadInv, ReplyType, Asked
  PROVE  \E n \in 1..Len(wire) : wire' = SubSeq(wire, n + 1, Len(wire))
<1>1. wire # <<>> /\ Len(wire) \in Nat \ {0} /\ 1 \in 1..Len(wire) /\ app = "transfer"
  BY ReceiveEffect
<1>2. Tail(wire) = SubSeq(wire, 2, Len(wire))
  BY <1>1
<1>3. CASE wire' = Tail(wire)
  BY <1>1, <1>2, <1>3
<1>4. CASE ReceiveBody
  BY <1>1, <1>4, ReceivedBody
<1> QED
  BY <1>3, <1>4 DEF Receive, ReceiveHead, ReceivePages, ReceiveExcess

\* A helper writes what it has and what the socket takes.
LEMMA WrittenPart ==
  ASSUME WireType, OutType, NEW k \in 1..Min({Len(out), Buffer - Len(wire)})
  PROVE  k \in 0..Len(out) /\ k <= Buffer - Len(wire)
<1>1. Len(out) \in Int /\ Buffer - Len(wire) \in Int
  BY Bounds DEF WireType, OutType
<1>2. /\ Min({Len(out), Buffer - Len(wire)}) \in {Len(out), Buffer - Len(wire)}
      /\ Min({Len(out), Buffer - Len(wire)}) <= Len(out)
      /\ Min({Len(out), Buffer - Len(wire)}) <= Buffer - Len(wire)
  BY <1>1, MinTwo
<1> QED
  BY <1>1, <1>2


\* At the request nothing is on the way that the helper has not to read.
LEMMA AtTop ==
  ASSUME At, Counted, InboxType, Asked, todo = 0
  PROVE  inbox = <<>>
<1>1. Total(request) \in Nat /\ sent \in Nat /\ sent <= Total(request) /\ Len(inbox) \in Nat
  BY TotalNat DEF At, Counted, InboxType, Asked
<1>2. sent = Total(request) + Len(inbox)
  BY <1>1 DEF At, Counted
<1>3. Len(inbox) = 0
  BY <1>1, <1>2
<1> QED
  BY <1>3 DEF InboxType

\* It reads on.
LEMMA AtReads ==
  ASSUME At, Counted, InboxType, Asked, inbox # <<>>,
         UNCHANGED <<request, sequence, handled, sent>>, todo' = todo - 1, inbox' = Tail(inbox)
  PROVE  At'
<1>1. Total(request) \in Nat /\ sent \in Nat /\ todo \in Nat /\ Len(inbox) \in Nat
  BY TotalNat DEF At, Counted, InboxType, Asked
<1>2. Len(inbox') = Len(inbox) - 1
  BY DEF InboxType
<1>3. sent + todo = Total(request) + Len(inbox)
  BY DEF At
<1>4. sent + (todo - 1) = Total(request) + (Len(inbox) - 1)
  BY <1>1, <1>3
<1> QED
  BY <1>2, <1>4 DEF At, Total

\* What a helper writes moves from one end of its stream to the other.
LEMMA StreamMoves ==
  ASSUME Write, WireType, OutType
  PROVE  wire' \o out' = wire \o out
<1>1. CASE socket
  <2>1. PICK k \in 1..Min({Len(out), Buffer - Len(wire)}) :
          wire' = wire \o SubSeq(out, 1, k) /\ out' = SubSeq(out, k + 1, Len(out))
    BY <1>1 DEF Write
  <2>2. k \in 0..Len(out)
    BY WrittenPart
  <2> QED
    BY <2>1, <2>2, MovedItems DEF WireType, OutType
<1>2. CASE ~socket
  BY <1>2 DEF Write, Exit
<1> QED
  BY <1>1, <1>2

\* Behind a header that was taken the stream is the answer to the call.
LEMMA StreamExpected ==
  ASSUME OnlyStream, SessionStream, WireType, OutType, app = "transfer", reply.head # None
  PROVE  \A i \in 1..Len(wire) : wire[i].tag = Expected
<1>1. Tagged(wire \o out, Expected)
  BY DEF OnlyStream, SessionStream, Stream, Fresh, Tagged, Expected
<1>2. \A i \in 1..Len(wire) : i \in 1..Len(wire \o out) /\ (wire \o out)[i] = wire[i]
  BY JoinedItems DEF WireType, OutType
<1> QED
  BY <1>1, <1>2 DEF Tagged

\* What is received leaves the rest of the stream as it is.
LEMMA StreamTaken ==
  ASSUME Receive, WireType, OutType, HeadInv, ReplyType, Asked, NEW k
  PROVE  /\ Tagged(wire \o out, k) => Tagged(wire' \o out, k)
         /\ Old(wire \o out, k) => Old(wire' \o out, k)
         /\ Fresh(wire \o out, k) => Old(wire' \o out, k) /\ Fresh(wire' \o out, k)
         /\ wire \o out # <<>> /\ (wire \o out)[1] = wire[1]
<1>1. wire \in Seq(Items) /\ out \in Seq(Items)
  BY DEF WireType, OutType
<1>2. PICK n \in 1..Len(wire) : wire' = Rest(wire, n)
  BY <1>1, ReceivedItems DEF Rest
<1> QED
  BY <1>1, <1>2, TakenItems

-----------------------------------------------------------------------------
(* Every step preserves every part.  A lemma has one case per group of      *)
(* actions that can disturb its part alike.                                 *)

\* The application is where its calls bring it.
LEMMA StatesStep ==
  ASSUME States, [Next]_vars
  PROVE  States'
<1> USE DEF vars, callVars, procVars, helperVars, States
<1>1. ASSUME NEW r \in Requests, Decode(r) PROVE States'
  BY <1>1 DEF Decode, Ask, Spawned, Nothing
<1>2. ASSUME NEW r \in Requests, Exchange(r) PROVE States'
  BY <1>2 DEF Exchange, Ask, Nothing
<1>3. CASE StartSession \/ CloseSession
  BY <1>3 DEF StartSession, Spawned, CloseSession, Nothing
<1>4. CASE EndExchange \/ Send \/ ReceiveEof \/ GiveUp
  BY <1>4 DEF EndExchange, Succeeds, Fails, Nothing, Send, Busy, Goes, ReceiveEof, GiveUp
<1>5. CASE Receive
  BY <1>5 DEF Receive, Busy, Goes, Fails, ReceiveHead, ReceivePages, ReceiveBody, ReceiveExcess
<1>6. CASE Collect \/ Stop \/ Kill \/ Reap
  BY <1>6 DEF Collect, Succeeds, Fails, Stop, Kill, Reap
<1>7. CASE ReadHeader
  BY <1>7 DEF ReadHeader, Exit, Proceeds
<1>8. CASE ReadPayload \/ ReadEof \/ Flushed \/ Crash
  BY <1>8 DEF ReadPayload, Exit, Proceeds, ReadEof, Flushed, Crash
<1>9. CASE Decoded
  BY <1>9 DEF Decoded, Exit, Proceeds
<1>10. CASE Write
  BY <1>10 DEF Write, Exit
<1>11. CASE UNCHANGED vars
  BY <1>11
<1> QED
  BY <1>1, <1>2, <1>3, <1>4, <1>5, <1>6, <1>7, <1>8, <1>9, <1>10, <1>11 DEF Next, App, Helper

\* The helper is where its loop brings it.
LEMMA StagesStep ==
  ASSUME Stages, [Next]_vars
  PROVE  Stages'
<1> USE DEF vars, callVars, procVars, helperVars, Stages
<1>1. ASSUME NEW r \in Requests, Decode(r) PROVE Stages'
  BY <1>1 DEF Decode, Ask, Spawned, Nothing
<1>2. ASSUME NEW r \in Requests, Exchange(r) PROVE Stages'
  BY <1>2 DEF Exchange, Ask, Nothing
<1>3. CASE StartSession \/ CloseSession
  BY <1>3 DEF StartSession, Spawned, CloseSession, Nothing
<1>4. CASE EndExchange \/ Send \/ ReceiveEof \/ GiveUp
  BY <1>4 DEF EndExchange, Succeeds, Fails, Nothing, Send, Busy, Goes, ReceiveEof, GiveUp
<1>5. CASE Receive
  BY <1>5 DEF Receive, Busy, Goes, Fails, ReceiveHead, ReceivePages, ReceiveBody, ReceiveExcess
<1>6. CASE Collect \/ Stop \/ Kill \/ Reap
  BY <1>6 DEF Collect, Succeeds, Fails, Stop, Kill, Reap
<1>7. CASE ReadHeader
  BY <1>7 DEF ReadHeader, Exit, Proceeds
<1>8. CASE ReadPayload \/ ReadEof \/ Flushed \/ Crash
  BY <1>8 DEF ReadPayload, Exit, Proceeds, ReadEof, Flushed, Crash
<1>9. CASE Decoded
  BY <1>9 DEF Decoded, Exit, Proceeds
<1>10. CASE Write
  BY <1>10 DEF Write, Exit
<1>11. CASE UNCHANGED vars
  BY <1>11
<1> QED
  BY <1>1, <1>2, <1>3, <1>4, <1>5, <1>6, <1>7, <1>8, <1>9, <1>10, <1>11 DEF Next, App, Helper

\* A process lives once, an exit status is 0 or 1.
LEMMA LifeStep ==
  ASSUME Life, [Next]_vars
  PROVE  Life'
<1> USE DEF vars, callVars, procVars, helperVars, Life
<1>1. ASSUME NEW r \in Requests, Decode(r) PROVE Life'
  BY <1>1 DEF Decode, Ask, Spawned, Nothing
<1>2. ASSUME NEW r \in Requests, Exchange(r) PROVE Life'
  BY <1>2 DEF Exchange, Ask, Nothing
<1>3. CASE StartSession \/ CloseSession
  BY <1>3 DEF StartSession, Spawned, CloseSession, Nothing
<1>4. CASE EndExchange \/ Send \/ ReceiveEof \/ GiveUp
  BY <1>4 DEF EndExchange, Succeeds, Fails, Nothing, Send, Busy, Goes, ReceiveEof, GiveUp
<1>5. CASE Receive
  BY <1>5 DEF Receive, Busy, Goes, Fails, ReceiveHead, ReceivePages, ReceiveBody, ReceiveExcess
<1>6. CASE Collect \/ Stop \/ Kill \/ Reap
  BY <1>6 DEF Collect, Succeeds, Fails, Stop, Kill, Reap
<1>7. CASE ReadHeader
  BY <1>7 DEF ReadHeader, Exit, Proceeds
<1>8. CASE ReadPayload \/ ReadEof \/ Flushed \/ Crash
  BY <1>8 DEF ReadPayload, Exit, Proceeds, ReadEof, Flushed, Crash
<1>9. CASE Decoded
  BY <1>9 DEF Decoded, Exit, Proceeds
<1>10. CASE Write
  BY <1>10 DEF Write, Exit
<1>11. CASE UNCHANGED vars
  BY <1>11
<1> QED
  BY <1>1, <1>2, <1>3, <1>4, <1>5, <1>6, <1>7, <1>8, <1>9, <1>10, <1>11 DEF Next, App, Helper

\* The flags stay flags.
LEMMA FlagsStep ==
  ASSUME Flags, [Next]_vars
  PROVE  Flags'
<1> USE DEF vars, callVars, procVars, helperVars, Flags
<1>1. ASSUME NEW r \in Requests, Decode(r) PROVE Flags'
  BY <1>1 DEF Decode, Ask, Spawned, Nothing
<1>2. ASSUME NEW r \in Requests, Exchange(r) PROVE Flags'
  BY <1>2 DEF Exchange, Ask, Nothing
<1>3. CASE StartSession \/ CloseSession
  BY <1>3 DEF StartSession, Spawned, CloseSession, Nothing
<1>4. CASE EndExchange \/ Send \/ ReceiveEof \/ GiveUp
  BY <1>4 DEF EndExchange, Succeeds, Fails, Nothing, Send, Busy, Goes, ReceiveEof, GiveUp
<1>5. CASE Receive
  BY <1>5 DEF Receive, Busy, Goes, Fails, ReceiveHead, ReceivePages, ReceiveBody, ReceiveExcess
<1>6. CASE Collect \/ Stop \/ Kill \/ Reap
  BY <1>6 DEF Collect, Succeeds, Fails, Stop, Kill, Reap
<1>7. CASE ReadHeader
  BY <1>7 DEF ReadHeader, Exit, Proceeds
<1>8. CASE ReadPayload \/ ReadEof \/ Flushed \/ Crash
  BY <1>8 DEF ReadPayload, Exit, Proceeds, ReadEof, Flushed, Crash
<1>9. CASE Decoded
  BY <1>9 DEF Decoded, Exit, Proceeds
<1>10. CASE Write
  BY <1>10 DEF Write, Exit
<1>11. CASE UNCHANGED vars
  BY <1>11
<1> QED
  BY <1>1, <1>2, <1>3, <1>4, <1>5, <1>6, <1>7, <1>8, <1>9, <1>10, <1>11 DEF Next, App, Helper

\* A call is one of the calls.
LEMMA AskedStep ==
  ASSUME Asked, [Next]_vars
  PROVE  Asked'
<1> USE DEF vars, callVars, procVars, helperVars, Asked
<1>1. ASSUME NEW r \in Requests, Decode(r) PROVE Asked'
  BY <1>1 DEF Decode, Ask, Spawned, Nothing
<1>2. ASSUME NEW r \in Requests, Exchange(r) PROVE Asked'
  BY <1>2 DEF Exchange, Ask, Nothing
<1>3. CASE StartSession \/ CloseSession
  BY <1>3 DEF StartSession, Spawned, CloseSession, Nothing
<1>4. CASE EndExchange \/ Send \/ ReceiveEof \/ GiveUp
  BY <1>4 DEF EndExchange, Succeeds, Fails, Nothing, Send, Busy, Goes, ReceiveEof, GiveUp
<1>5. CASE Receive
  BY <1>5 DEF Receive, Busy, Goes, Fails, ReceiveHead, ReceivePages, ReceiveBody, ReceiveExcess
<1>6. CASE Collect \/ Stop \/ Kill \/ Reap
  BY <1>6 DEF Collect, Succeeds, Fails, Stop, Kill, Reap
<1>7. CASE ReadHeader
  BY <1>7 DEF ReadHeader, Exit, Proceeds
<1>8. CASE ReadPayload \/ ReadEof \/ Flushed \/ Crash
  BY <1>8 DEF ReadPayload, Exit, Proceeds, ReadEof, Flushed, Crash
<1>9. CASE Decoded
  BY <1>9 DEF Decoded, Exit, Proceeds
<1>10. CASE Write
  BY <1>10 DEF Write, Exit
<1>11. CASE UNCHANGED vars
  BY <1>11
<1> QED
  BY <1>1, <1>2, <1>3, <1>4, <1>5, <1>6, <1>7, <1>8, <1>9, <1>10, <1>11 DEF Next, App, Helper

\* No more is sent than the request; the sequence numbers stay numbers.
LEMMA CountedStep ==
  ASSUME Counted, Asked, HeaderNext, OneRequest, ProcessInv, ModeInv, Flags, [Next]_vars
  PROVE  Counted'
<1> USE DEF vars, callVars, procVars, helperVars, Counted, Tags, Asked, OneRequest, HeaderNext,
    ProcessInv, ModeInv, Flags, InboxType, Finish
<1>1. ASSUME NEW r \in Requests, Decode(r) PROVE Counted'
  BY <1>1, TotalNat, Bounds DEF Decode, Ask, Spawned, Nothing
<1>2. ASSUME NEW r \in Requests, Exchange(r) PROVE Counted'
  BY <1>2, TotalNat, Bounds DEF Exchange, Ask, Nothing
<1>3. CASE StartSession \/ CloseSession
  BY <1>3, TotalNat, Bounds DEF StartSession, Spawned, CloseSession, Nothing
<1>4. CASE EndExchange \/ ReceiveEof \/ GiveUp
  BY <1>4, TotalNat, Bounds DEF EndExchange, Succeeds, Fails, Nothing, ReceiveEof, Busy, GiveUp
<1>5. CASE Send
  BY <1>5, TotalNat, Bounds DEF Send, Busy, Goes, Fails
<1>6. CASE Receive
  BY <1>6, TotalNat, Bounds DEF Receive, Busy, Goes, Fails, ReceiveHead, ReceivePages,
     ReceiveBody, ReceiveExcess
<1>7. CASE Collect \/ Stop \/ Kill \/ Reap
  BY <1>7, TotalNat, Bounds DEF Collect, Succeeds, Fails, Stop, Kill, Reap
<1>8. CASE ReadHeader
  BY <1>8, TotalNat, Bounds DEF ReadHeader, Exit, Proceeds
<1>9. CASE ReadEof \/ Flushed \/ Crash
  BY <1>9, TotalNat, Bounds DEF ReadEof, Proceeds, Flushed, Exit, Crash
<1>10. CASE ReadPayload
  BY <1>10, TotalNat, Bounds DEF ReadPayload, Exit, Proceeds
<1>11. CASE Decoded
  BY <1>11, TotalNat, Bounds DEF Decoded, Exit, Proceeds
<1>12. CASE Write
  BY <1>12, TotalNat, Bounds DEF Write, Exit
<1>13. CASE UNCHANGED vars
  BY <1>13, TotalNat, Bounds
<1> QED
  BY <1>1, <1>2, <1>3, <1>4, <1>5, <1>6, <1>7, <1>8, <1>9, <1>10, <1>11, <1>12, <1>13 DEF Next,
     App, Helper

\* The socket holds no more than it can, towards the application
LEMMA WireStep ==
  ASSUME WireType, OutType, HeadInv, ReplyType, Asked, [Next]_vars
  PROVE  WireType'
<1> USE DEF vars, callVars, procVars, helperVars, WireType, OutType
<1>0. <<>> \in Seq(Items) /\ Len(<<>>) = 0 /\ Len(<<>>) <= Buffer
  BY Bounds
<1>1. ASSUME NEW r \in Requests, Decode(r) PROVE WireType'
  BY <1>1, Bounds, <1>0 DEF Decode, Ask, Spawned, Nothing
<1>2. ASSUME NEW r \in Requests, Exchange(r) PROVE WireType'
  BY <1>2, Bounds, <1>0 DEF Exchange, Ask, Nothing
<1>3. CASE StartSession \/ CloseSession
  BY <1>3, Bounds, <1>0 DEF StartSession, Spawned, CloseSession, Nothing
<1>4. CASE EndExchange \/ Send \/ ReceiveEof \/ GiveUp
  BY <1>4, Bounds, <1>0 DEF EndExchange, Succeeds, Fails, Nothing, Send, Busy, Goes, ReceiveEof,
     GiveUp
<1>5. CASE Receive
  <2>1. wire \in Seq(Items) /\ wire # <<>>
    BY <1>5, ReceiveEffect
  <2>2. PICK n \in 1..Len(wire) : wire' = SubSeq(wire, n + 1, Len(wire))
    BY <1>5, <2>1, ReceivedItems
  <2>3. wire' \in Seq(Items) /\ Len(wire') = Len(wire) - n
    BY <2>1, <2>2
  <2> QED
    BY <2>1, <2>3, Bounds
<1>6. CASE Collect \/ Stop \/ Kill \/ Reap
  BY <1>6, Bounds, <1>0 DEF Collect, Succeeds, Fails, Stop, Kill, Reap
<1>7. CASE ReadHeader
  BY <1>7, Bounds, <1>0 DEF ReadHeader, Exit, Proceeds
<1>8. CASE ReadPayload \/ ReadEof \/ Flushed \/ Crash
  BY <1>8, Bounds, <1>0 DEF ReadPayload, Exit, Proceeds, ReadEof, Flushed, Crash
<1>9. CASE Decoded
  BY <1>9, Bounds, <1>0 DEF Decoded, Exit, Proceeds
<1>10. CASE Write
  <2>1. CASE UNCHANGED wire
    BY <2>1
  <2>2. CASE socket
    <3>1. PICK k \in 1..Min({Len(out), Buffer - Len(wire)}) : wire' = wire \o SubSeq(out, 1, k)
      BY <1>10, <2>2 DEF Write
    <3>2. k \in 0..Len(out) /\ k <= Buffer - Len(wire)
      BY <3>1, WrittenPart
    <3>3. SubSeq(out, 1, k) \in Seq(Items) /\ Len(SubSeq(out, 1, k)) = k
      BY <3>2, MovedItems
    <3> QED
      BY <3>1, <3>2, <3>3, ConcatProperties, Bounds
  <2> QED
    BY <1>10, <2>1, <2>2 DEF Write
<1>11. CASE UNCHANGED vars
  BY <1>11, Bounds, <1>0
<1> QED
  BY <1>1, <1>2, <1>3, <1>4, <1>5, <1>6, <1>7, <1>8, <1>9, <1>10, <1>11 DEF Next, App, Helper

\* What a helper has to write are items.
LEMMA OutStep ==
  ASSUME OutType, WireType, Asked, Counted, StageInv, DecodingAsked, [Next]_vars
  PROVE  OutType'
<1> USE DEF vars, callVars, procVars, helperVars, OutType
<1>0. <<>> \in Seq(Items) /\ Len(<<>>) = 0 /\ Len(<<>>) <= Buffer
  BY Bounds
<1>1. ASSUME NEW r \in Requests, Decode(r) PROVE OutType'
  BY <1>1, Bounds, <1>0 DEF Decode, Ask, Spawned, Nothing
<1>2. ASSUME NEW r \in Requests, Exchange(r) PROVE OutType'
  BY <1>2, Bounds, <1>0 DEF Exchange, Ask, Nothing
<1>3. CASE StartSession \/ CloseSession
  BY <1>3, Bounds, <1>0 DEF StartSession, Spawned, CloseSession, Nothing
<1>4. CASE EndExchange \/ Send \/ ReceiveEof \/ GiveUp
  BY <1>4, Bounds, <1>0 DEF EndExchange, Succeeds, Fails, Nothing, Send, Busy, Goes, ReceiveEof,
     GiveUp
<1>5. CASE Receive
  BY <1>5, Bounds, <1>0 DEF Receive, Busy, Goes, Fails, ReceiveHead, ReceivePages, ReceiveBody,
     ReceiveExcess
<1>6. CASE Collect \/ Stop \/ Kill \/ Reap
  BY <1>6, Bounds, <1>0 DEF Collect, Succeeds, Fails, Stop, Kill, Reap
<1>7. CASE ReadHeader
  BY <1>7, Bounds, <1>0 DEF ReadHeader, Exit, Proceeds
<1>8. CASE ReadPayload \/ ReadEof \/ Flushed \/ Crash
  BY <1>8, Bounds, <1>0 DEF ReadPayload, Exit, Proceeds, ReadEof, Flushed, Crash
<1>9. CASE Decoded
  <2>1. request \in Requests /\ handled \in Tags
    BY <1>9 DEF Decoded, DecodingAsked, Counted, Asked
  <2>2. \A x \in Written : x \in Seq(Items)
    BY <2>1, WrittenItems
  <2> QED
    BY <1>9, <2>2 DEF Decoded, Exit
<1>10. CASE Write
  <2>1. CASE UNCHANGED out
    BY <2>1
  <2>2. CASE socket
    <3>1. PICK k \in 1..Min({Len(out), Buffer - Len(wire)}) : out' = SubSeq(out, k + 1, Len(out))
      BY <1>10, <2>2 DEF Write
    <3>2. k \in 0..Len(out)
      BY <3>1, WrittenPart
    <3> QED
      BY <3>1, <3>2, MovedItems
  <2> QED
    BY <1>10, <2>1, <2>2 DEF Write, Exit
<1>11. CASE UNCHANGED vars
  BY <1>11, Bounds, <1>0
<1> QED
  BY <1>1, <1>2, <1>3, <1>4, <1>5, <1>6, <1>7, <1>8, <1>9, <1>10, <1>11 DEF Next, App, Helper

\* and towards the helper.
LEMMA InboxStep ==
  ASSUME InboxType, Asked, Counted, ModeInv, [Next]_vars
  PROVE  InboxType'
<1> USE DEF vars, callVars, procVars, helperVars, InboxType, Asked, Messages
<1>0. <<>> \in Seq(Items) /\ Len(<<>>) = 0 /\ Len(<<>>) <= Buffer
  BY Bounds
<1>E. <<>> \in Seq(Messages \cup {<<>>})
  OBVIOUS
<1>1. ASSUME NEW r \in Requests, Decode(r) PROVE InboxType'
  BY <1>1, Bounds, <1>0, <1>E DEF Decode, Ask, Spawned, Nothing
<1>2. ASSUME NEW r \in Requests, Exchange(r) PROVE InboxType'
  BY <1>2, Bounds, <1>0, <1>E DEF Exchange, Ask, Nothing
<1>3. CASE StartSession \/ CloseSession
  BY <1>3, Bounds, <1>0, <1>E DEF StartSession, Spawned, CloseSession, Nothing
<1>4. CASE EndExchange \/ ReceiveEof \/ GiveUp
  BY <1>4, Bounds, <1>0, <1>E DEF EndExchange, Succeeds, Fails, Nothing, ReceiveEof, Busy, GiveUp
<1>5. CASE Send
  <2>1. request \in Requests /\ sequence \in 0..MaxSequence
    BY <1>5 DEF Send, Busy, ModeInv, Asked, Counted
  <2> DEFINE m == IF sent = 0 THEN <<sequence, request>> ELSE <<>>
  <2>2. m \in Messages \cup {<<>>}
    BY <2>1 DEF Messages
  <2>3. inbox' = inbox \/ (inbox' = Append(inbox, m) /\ Len(inbox) < Buffer)
    BY <1>5 DEF Send
  <2> HIDE DEF m
  <2> QED
    BY <2>2, <2>3, Bounds
<1>6. CASE Receive
  BY <1>6, Bounds, <1>0, <1>E DEF Receive, Busy, Goes, Fails, ReceiveHead, ReceivePages,
     ReceiveBody, ReceiveExcess
<1>7. CASE Collect \/ Stop \/ Kill \/ Reap
  BY <1>7, Bounds, <1>0, <1>E DEF Collect, Succeeds, Fails, Stop, Kill, Reap
<1>8. CASE ReadHeader
  BY <1>8, Bounds, <1>0, <1>E DEF ReadHeader, Exit, Proceeds
<1>9. CASE ReadEof \/ Flushed \/ Crash
  BY <1>9, Bounds, <1>0, <1>E DEF ReadEof, Proceeds, Flushed, Exit, Crash
<1>10. CASE ReadPayload
  BY <1>10, Bounds, <1>0, <1>E DEF ReadPayload, Exit, Proceeds
<1>11. CASE Decoded
  BY <1>11, Bounds, <1>0, <1>E DEF Decoded, Exit, Proceeds
<1>12. CASE Write
  BY <1>12, Bounds, <1>0, <1>E DEF Write, Exit
<1>13. CASE UNCHANGED vars
  BY <1>13, Bounds, <1>0, <1>E
<1> QED
  BY <1>1, <1>2, <1>3, <1>4, <1>5, <1>6, <1>7, <1>8, <1>9, <1>10, <1>11, <1>12, <1>13 DEF Next,
     App, Helper

\* What is received is a reply.
LEMMA ReplyStep ==
  ASSUME ReplyType, WireType, HeadInv, Asked, [Next]_vars
  PROVE  ReplyType'
<1> USE DEF vars, callVars, procVars, helperVars, ReplyType
<1>0. <<>> \in Seq(Tags)
  OBVIOUS
<1>1. ASSUME NEW r \in Requests, Decode(r) PROVE ReplyType'
  BY <1>1, <1>0 DEF Decode, Ask, Spawned, Nothing
<1>2. ASSUME NEW r \in Requests, Exchange(r) PROVE ReplyType'
  BY <1>2, <1>0 DEF Exchange, Ask, Nothing
<1>3. CASE StartSession \/ CloseSession
  BY <1>3, <1>0 DEF StartSession, Spawned, CloseSession, Nothing
<1>4. CASE EndExchange \/ Send \/ ReceiveEof \/ GiveUp
  BY <1>4, <1>0 DEF EndExchange, Succeeds, Fails, Nothing, Send, Busy, Goes, ReceiveEof, GiveUp
<1>5. CASE Receive
  <2>1. wire # <<>> /\ Head(wire) \in Items /\ reply \in [head : HeadSet \cup {None}, pages : Nat \cup {None}, body : Seq(Tags)]
    BY <1>5, ReceiveEffect DEF WireType
  <2>2. CASE ReceiveHead
    BY <2>1, <2>2 DEF ReceiveHead, Items
  <2>3. CASE ReceivePages
    BY <2>1, <2>3 DEF ReceivePages, Items
  <2>4. CASE ReceiveBody
    <3>1. PICK n \in 1..Len(wire) : reply' = [reply EXCEPT !.body = @ \o [i \in 1..n |-> wire[i].tag]]
      BY <1>5, <2>1, <2>4, ReceivedBody, ReceiveEffect DEF WireType
    <3>2. [i \in 1..n |-> wire[i].tag] \in Seq(Tags)
      <4>0. \A i \in 1..Len(wire) : wire[i] \in Items
        BY DEF WireType
      <4>1. \A i \in 1..n : wire[i].tag \in Tags
        BY <4>0 DEF Items
      <4>2. n \in Nat
        BY DEF WireType
      <4> QED
        BY <4>1, <4>2
    <3>3. reply.body \o [i \in 1..n |-> wire[i].tag] \in Seq(Tags)
      BY <2>1, <3>2, ConcatProperties
    <3> QED
      BY <2>1, <3>1, <3>3
  <2>5. CASE UNCHANGED reply
    BY <2>5
  <2> QED
    BY <1>5, <2>2, <2>3, <2>4, <2>5 DEF Receive, ReceiveExcess
<1>6. CASE Collect \/ Stop \/ Kill \/ Reap
  BY <1>6, <1>0 DEF Collect, Succeeds, Fails, Stop, Kill, Reap
<1>7. CASE ReadHeader
  BY <1>7, <1>0 DEF ReadHeader, Exit, Proceeds
<1>8. CASE ReadPayload \/ ReadEof \/ Flushed \/ Crash
  BY <1>8, <1>0 DEF ReadPayload, Exit, Proceeds, ReadEof, Flushed, Crash
<1>9. CASE Decoded
  BY <1>9, <1>0 DEF Decoded, Exit, Proceeds
<1>10. CASE Write
  BY <1>10, <1>0 DEF Write, Exit
<1>11. CASE UNCHANGED vars
  BY <1>11, <1>0
<1> QED
  BY <1>1, <1>2, <1>3, <1>4, <1>5, <1>6, <1>7, <1>8, <1>9, <1>10, <1>11 DEF Next, App, Helper

\* decoder_stop is owed exactly to a process that was started.
LEMMA ProcessStep ==
  ASSUME ProcessInv, ModeInv, States, Flags, [Next]_vars
  PROVE  ProcessInv'
<1> USE DEF vars, callVars, procVars, helperVars, ProcessInv, ModeInv, Finish, Flags, States
<1>1. ASSUME NEW r \in Requests, Decode(r) PROVE ProcessInv'
  BY <1>1 DEF Decode, Ask, Spawned, Nothing
<1>2. ASSUME NEW r \in Requests, Exchange(r) PROVE ProcessInv'
  BY <1>2 DEF Exchange, Ask, Nothing
<1>3. CASE StartSession \/ CloseSession
  BY <1>3 DEF StartSession, Spawned, CloseSession, Nothing
<1>4. CASE Send \/ ReceiveEof \/ GiveUp
  BY <1>4 DEF Send, Busy, Goes, Fails, ReceiveEof, Nothing, GiveUp
<1>5. CASE EndExchange
  BY <1>5 DEF EndExchange, Succeeds, Fails, Nothing
<1>6. CASE Receive
  BY <1>6, ReceiveEffect DEF Goes, Fails
<1>7. CASE Stop \/ Kill \/ Reap
  BY <1>7 DEF Stop, Kill, Reap
<1>8. CASE Collect
  BY <1>8 DEF Collect, Succeeds, Fails
<1>9. CASE ReadHeader
  BY <1>9 DEF ReadHeader, Exit, Proceeds
<1>10. CASE ReadPayload \/ ReadEof \/ Flushed \/ Crash
  BY <1>10 DEF ReadPayload, Exit, Proceeds, ReadEof, Flushed, Crash
<1>11. CASE Decoded
  BY <1>11 DEF Decoded, Exit, Proceeds
<1>12. CASE Write
  BY <1>12 DEF Write, Exit
<1>13. CASE UNCHANGED vars
  BY <1>13
<1> QED
  BY <1>1, <1>2, <1>3, <1>4, <1>5, <1>6, <1>7, <1>8, <1>9, <1>10, <1>11, <1>12, <1>13 DEF Next,
     App, Helper

\* Sessions exchange, other calls have an end of their request and of their reply.
LEMMA ModeStep ==
  ASSUME ModeInv, States, Asked, [Next]_vars
  PROVE  ModeInv'
<1> USE DEF vars, callVars, procVars, helperVars, ModeInv, Finish
<1>1. ASSUME NEW r \in Requests, Decode(r) PROVE ModeInv'
  BY <1>1, RequestsAsked DEF Decode, Ask, Spawned, Nothing
<1>2. ASSUME NEW r \in Requests, Exchange(r) PROVE ModeInv'
  BY <1>2, RequestsAsked DEF Exchange, Ask, Nothing
<1>3. CASE StartSession \/ CloseSession
  BY <1>3, RequestsAsked DEF StartSession, Spawned, CloseSession, Nothing
<1>4. CASE EndExchange \/ Send \/ ReceiveEof \/ GiveUp
  BY <1>4, RequestsAsked DEF EndExchange, Succeeds, Fails, Nothing, Send, Busy, Goes,
     ReceiveEof, GiveUp
<1>5. CASE Receive
  BY <1>5, RequestsAsked DEF Receive, Busy, Goes, Fails, ReceiveHead, ReceivePages, ReceiveBody,
     ReceiveExcess
<1>6. CASE Collect \/ Stop \/ Kill \/ Reap
  BY <1>6, RequestsAsked DEF Collect, Succeeds, Fails, Stop, Kill, Reap
<1>7. CASE ReadHeader
  BY <1>7, RequestsAsked DEF ReadHeader, Exit, Proceeds
<1>8. CASE ReadPayload \/ ReadEof \/ Flushed \/ Crash
  BY <1>8, RequestsAsked DEF ReadPayload, Exit, Proceeds, ReadEof, Flushed, Crash
<1>9. CASE Decoded
  BY <1>9, RequestsAsked DEF Decoded, Exit, Proceeds
<1>10. CASE Write
  BY <1>10, RequestsAsked DEF Write, Exit
<1>11. CASE UNCHANGED vars
  BY <1>11, RequestsAsked
<1> QED
  BY <1>1, <1>2, <1>3, <1>4, <1>5, <1>6, <1>7, <1>8, <1>9, <1>10, <1>11 DEF Next, App, Helper

\* A helper writes and reads where its loop does.
LEMMA StageStep ==
  ASSUME StageInv, Counted, [Next]_vars
  PROVE  StageInv'
<1> USE DEF vars, callVars, procVars, helperVars, StageInv
<1>1. ASSUME NEW r \in Requests, Decode(r) PROVE StageInv'
  BY <1>1 DEF Decode, Ask, Spawned, Nothing
<1>2. ASSUME NEW r \in Requests, Exchange(r) PROVE StageInv'
  BY <1>2 DEF Exchange, Ask, Nothing
<1>3. CASE StartSession \/ CloseSession
  BY <1>3 DEF StartSession, Spawned, CloseSession, Nothing
<1>4. CASE EndExchange \/ Send \/ ReceiveEof \/ GiveUp
  BY <1>4 DEF EndExchange, Succeeds, Fails, Nothing, Send, Busy, Goes, ReceiveEof, GiveUp
<1>5. CASE Receive
  BY <1>5 DEF Receive, Busy, Goes, Fails, ReceiveHead, ReceivePages, ReceiveBody, ReceiveExcess
<1>6. CASE Collect \/ Stop \/ Kill \/ Reap
  BY <1>6 DEF Collect, Succeeds, Fails, Stop, Kill, Reap
<1>7. CASE ReadHeader
  BY <1>7 DEF ReadHeader, Exit, Proceeds
<1>8. CASE ReadPayload \/ ReadEof \/ Flushed \/ Crash
  BY <1>8 DEF ReadPayload, Exit, Proceeds, ReadEof, Flushed, Crash
<1>9. CASE Decoded
  BY <1>9 DEF Decoded, Exit, Proceeds
<1>10. CASE Write
  BY <1>10 DEF Write, Exit
<1>11. CASE UNCHANGED vars
  BY <1>11
<1> QED
  BY <1>1, <1>2, <1>3, <1>4, <1>5, <1>6, <1>7, <1>8, <1>9, <1>10, <1>11 DEF Next, App, Helper

\* A helper that reads on has a request.
LEMMA DecodingStep ==
  ASSUME DecodingAsked, HeaderNext, [Next]_vars
  PROVE  DecodingAsked'
<1> USE DEF vars, callVars, procVars, helperVars, DecodingAsked, HeaderNext
<1>1. ASSUME NEW r \in Requests, Decode(r) PROVE DecodingAsked'
  BY <1>1, RequestsAsked DEF Decode, Ask, Spawned, Nothing
<1>2. ASSUME NEW r \in Requests, Exchange(r) PROVE DecodingAsked'
  BY <1>2, RequestsAsked DEF Exchange, Ask, Nothing
<1>3. CASE StartSession \/ CloseSession
  BY <1>3, RequestsAsked DEF StartSession, Spawned, CloseSession, Nothing
<1>4. CASE EndExchange \/ Send \/ ReceiveEof \/ GiveUp
  BY <1>4, RequestsAsked DEF EndExchange, Succeeds, Fails, Nothing, Send, Busy, Goes,
     ReceiveEof, GiveUp
<1>5. CASE Receive
  BY <1>5, RequestsAsked DEF Receive, Busy, Goes, Fails, ReceiveHead, ReceivePages, ReceiveBody,
     ReceiveExcess
<1>6. CASE Collect \/ Stop \/ Kill \/ Reap
  BY <1>6, RequestsAsked DEF Collect, Succeeds, Fails, Stop, Kill, Reap
<1>7. CASE ReadHeader
  BY <1>7, RequestsAsked DEF ReadHeader, Exit, Proceeds
<1>8. CASE ReadPayload \/ ReadEof \/ Flushed \/ Crash
  BY <1>8, RequestsAsked DEF ReadPayload, Exit, Proceeds, ReadEof, Flushed, Crash
<1>9. CASE Decoded
  BY <1>9, RequestsAsked DEF Decoded, Exit, Proceeds
<1>10. CASE Write
  BY <1>10, RequestsAsked DEF Write, Exit
<1>11. CASE UNCHANGED vars
  BY <1>11, RequestsAsked
<1> QED
  BY <1>1, <1>2, <1>3, <1>4, <1>5, <1>6, <1>7, <1>8, <1>9, <1>10, <1>11 DEF Next, App, Helper

\* What the helper reads next as a header is one.
LEMMA HeaderStep ==
  ASSUME HeaderNext, OneRequest, Account, Between, ProcessInv, ModeInv, Counted, InboxType,
         StageInv, DecodingAsked, Asked, States, [Next]_vars
  PROVE  HeaderNext'
<1> USE DEF vars, callVars, procVars, helperVars, HeaderNext, OneRequest, Account, Behind, At,
    Between, Finish, ProcessInv, ModeInv, Counted, InboxType, StageInv
<1>1. ASSUME NEW r \in Requests, Decode(r) PROVE HeaderNext'
  BY <1>1, TotalNat, RequestsAsked DEF Decode, Ask, Spawned, Nothing
<1>2. ASSUME NEW r \in Requests, Exchange(r) PROVE HeaderNext'
  BY <1>2, TotalNat, RequestsAsked DEF Exchange, Ask, Nothing
<1>3. CASE StartSession \/ CloseSession
  BY <1>3, TotalNat, RequestsAsked DEF StartSession, Spawned, CloseSession, Nothing
<1>4. CASE EndExchange \/ ReceiveEof \/ GiveUp
  BY <1>4, TotalNat, RequestsAsked DEF EndExchange, Succeeds, Fails, Nothing, ReceiveEof, Busy,
     GiveUp
<1>5. CASE Send
  <2>1. CASE UNCHANGED inbox
    BY <1>5, <2>1 DEF Send, Goes, Fails
  <2>2. CASE pid = "running" /\ inbox' = Append(inbox, IF sent = 0 THEN <<sequence, request>> ELSE <<>>)
    <3>1. request # None /\ Total(request) \in Nat /\ sent < Total(request) /\ request' = request /\ sequence' = sequence /\ helper' = helper
      BY <1>5, TotalNat DEF Send, Busy, Asked
    <3>2. CASE inbox = <<>> /\ helper = "header"
      <4>1. Len(inbox) = 0 /\ todo = 0
        BY <3>2
      <4>2. CASE Finish
        <5>1. sent = Len(inbox)
          BY <1>5, <3>2, <4>2 DEF Send, Busy
        <5>2. inbox' = Append(inbox, <<sequence, request>>)
          BY <2>2, <4>1, <5>1
        <5> QED
          BY <3>1, <3>2, <5>2
      <4>3. CASE ~Finish
        <5>1. ~At
          BY <3>1, <4>1 DEF At
        <5>2. sent = Len(inbox)
          BY <1>5, <2>2, <4>3, <5>1 DEF Send, Busy, Account, Behind
        <5>3. inbox' = Append(inbox, <<sequence, request>>)
          BY <2>2, <4>1, <5>2
        <5> QED
          BY <3>1, <3>2, <5>3
      <4> QED
        BY <4>2, <4>3
    <3>3. CASE inbox # <<>> /\ helper = "header"
      <4>1. Head(inbox') = Head(inbox)
        BY <2>2, <3>3
      <4> QED
        BY <2>2, <3>1, <3>3, <4>1
    <3> QED
      BY <3>1, <3>2, <3>3
  <2> QED
    BY <1>5, <2>1, <2>2 DEF Send
<1>6. CASE Receive
  BY <1>6, ReceiveEffect DEF Goes, Fails
<1>7. CASE Collect \/ Stop \/ Kill \/ Reap
  BY <1>7, TotalNat, RequestsAsked DEF Collect, Succeeds, Fails, Stop, Kill, Reap
<1>8. CASE ReadHeader
  BY <1>8, TotalNat, RequestsAsked DEF ReadHeader, Exit, Proceeds
<1>9. CASE ReadEof \/ Crash
  BY <1>9, TotalNat, RequestsAsked DEF ReadEof, Proceeds, Crash, Exit
<1>10. CASE ReadPayload
  BY <1>10, TotalNat, RequestsAsked DEF ReadPayload, Exit, Proceeds
<1>11. CASE Flushed
  <2>1. CASE ~Finish /\ inbox # <<>>
    <3>1. ~At
      <4>1. todo = 0
        BY <1>11 DEF Flushed
      <4> QED
        BY <2>1, <4>1, AtTop
    <3>2. request # None /\ Head(inbox) = <<sequence, request>>
      BY <1>11, <2>1, <3>1 DEF Flushed, DecodingAsked
    <3> QED
      BY <1>11, <3>2 DEF Flushed, Exit, Proceeds
  <2> QED
    BY <1>11, <2>1 DEF Flushed, Exit, Proceeds, DecodingAsked
<1>12. CASE Decoded
  BY <1>12, TotalNat, RequestsAsked DEF Decoded, Exit, Proceeds
<1>13. CASE Write
  BY <1>13, TotalNat, RequestsAsked DEF Write, Exit
<1>14. CASE UNCHANGED vars
  BY <1>14, TotalNat, RequestsAsked
<1> QED
  BY <1>1, <1>2, <1>3, <1>4, <1>5, <1>6, <1>7, <1>8, <1>9, <1>10, <1>11, <1>12, <1>13,
     <1>14 DEF Next, App, Helper

\* The helper of a single call reads one request.
LEMMA OneStep ==
  ASSUME HeaderNext, OneRequest, ModeInv, Counted, InboxType, StageInv, Asked, [Next]_vars
  PROVE  OneRequest'
<1> USE DEF vars, callVars, procVars, helperVars, OneRequest, HeaderNext, Finish, ModeInv,
    InboxType, Counted
<1>1. ASSUME NEW r \in Requests, Decode(r) PROVE OneRequest'
  BY <1>1, RequestsAsked DEF Decode, Ask, Spawned, Nothing
<1>2. ASSUME NEW r \in Requests, Exchange(r) PROVE OneRequest'
  BY <1>2, RequestsAsked DEF Exchange, Ask, Nothing
<1>3. CASE StartSession \/ CloseSession
  BY <1>3, RequestsAsked DEF StartSession, Spawned, CloseSession, Nothing
<1>4. CASE EndExchange \/ Send \/ ReceiveEof \/ GiveUp
  BY <1>4, RequestsAsked DEF EndExchange, Succeeds, Fails, Nothing, Send, Busy, Goes,
     ReceiveEof, GiveUp
<1>5. CASE Receive
  BY <1>5, RequestsAsked DEF Receive, Busy, Goes, Fails, ReceiveHead, ReceivePages, ReceiveBody,
     ReceiveExcess
<1>6. CASE Collect \/ Stop \/ Kill \/ Reap
  BY <1>6, RequestsAsked DEF Collect, Succeeds, Fails, Stop, Kill, Reap
<1>7. CASE ReadHeader
  BY <1>7, RequestsAsked DEF ReadHeader, Exit, Proceeds
<1>8. CASE ReadPayload \/ ReadEof \/ Flushed \/ Crash
  BY <1>8, RequestsAsked DEF ReadPayload, Exit, Proceeds, ReadEof, Flushed, Crash
<1>9. CASE Decoded
  BY <1>9, RequestsAsked DEF Decoded, Exit, Proceeds
<1>10. CASE Write
  BY <1>10, RequestsAsked DEF Write, Exit
<1>11. CASE UNCHANGED vars
  BY <1>11, RequestsAsked
<1> QED
  BY <1>1, <1>2, <1>3, <1>4, <1>5, <1>6, <1>7, <1>8, <1>9, <1>10, <1>11 DEF Next, App, Helper

\* Each item of a request is sent, on the way, or read.
LEMMA AccountStep ==
  ASSUME HeaderNext, Account, Between, ProcessInv, ModeInv, Counted, InboxType, StageInv, Asked,
         [Next]_vars
  PROVE  Account'
<1> USE DEF vars, callVars, procVars, helperVars, Account, Behind, At, HeaderNext, Between,
    Finish, ProcessInv, ModeInv, Counted, InboxType, StageInv
<1>1. ASSUME NEW r \in Requests, Decode(r) PROVE Account'
  BY <1>1, TotalNat, RequestsAsked DEF Decode, Ask, Spawned, Nothing
<1>2. ASSUME NEW r \in Requests, Exchange(r) PROVE Account'
  BY <1>2, TotalNat, RequestsAsked DEF Exchange, Ask, Nothing
<1>3. CASE StartSession \/ CloseSession
  BY <1>3, TotalNat, RequestsAsked DEF StartSession, Spawned, CloseSession, Nothing
<1>4. CASE EndExchange \/ ReceiveEof \/ GiveUp
  BY <1>4, TotalNat, RequestsAsked DEF EndExchange, Succeeds, Fails, Nothing, ReceiveEof, Busy,
     GiveUp
<1>5. CASE Send
  <2>1. CASE UNCHANGED inbox
    BY <1>5, <2>1 DEF Send, Goes, Fails
  <2>2. CASE pid = "running" /\ inbox' = Append(inbox, IF sent = 0 THEN <<sequence, request>> ELSE <<>>)
    <3>1. /\ Len(inbox') = Len(inbox) + 1 /\ sent' = sent + 1 /\ inbox' # <<>> /\ inbox' = Append(inbox, IF sent = 0 THEN <<sequence, request>> ELSE <<>>)
          /\ UNCHANGED <<request, sequence, handled, todo, helper, pid, app>>
          /\ app = "transfer"
      BY <1>5, <2>2 DEF Send, Busy, Goes, Fails
    <3>2. Finish' = Finish /\ Total(request)' = Total(request)
      BY <3>1 DEF Total
    <3>3. CASE At /\ ~Finish
      <4>1. Total(request) \in Nat
        BY <3>3, TotalNat DEF Asked
      <4>2. sent \in Nat /\ todo \in Nat /\ Len(inbox) \in Nat /\ sent + todo = Total(request) + Len(inbox)
        BY <3>3
      <4>3. sent' + todo' = Total(request) + Len(inbox')
        BY <3>1, <4>1, <4>2
      <4>4. At'
        BY <3>1, <3>2, <3>3, <4>3
      <4> QED
        BY <4>4
    <3>4. CASE Behind /\ ~Finish
      <4>1. Len(inbox) \in Nat /\ sent = Len(inbox)
        BY <3>1, <3>4
      <4>2. CASE inbox = <<>>
        <5>1. inbox' = Append(inbox, <<sequence, request>>) /\ Len(inbox) = 0
          BY <3>1, <4>1, <4>2
        <5>2. Head(inbox') = <<sequence, request>>
          BY <4>2, <5>1
        <5> QED
          BY <3>1, <3>4, <4>1, <5>2
      <4>3. CASE inbox # <<>>
        <5>1. Head(inbox') = Head(inbox)
          BY <3>1, <4>3
        <5> QED
          BY <3>1, <3>4, <4>1, <4>3, <5>1
      <4> QED
        BY <4>2, <4>3
    <3> QED
      BY <2>2, <3>2, <3>3, <3>4
  <2> QED
    BY <1>5, <2>1, <2>2 DEF Send
<1>6. CASE Receive
  BY <1>6, ReceiveEffect DEF Goes, Fails
<1>7. CASE Stop \/ Kill \/ Reap
  BY <1>7, TotalNat, RequestsAsked DEF Stop, Kill, Reap
<1>8. CASE Collect
  BY <1>8, TotalNat, RequestsAsked DEF Collect, Succeeds, Fails
<1>9. CASE ReadHeader
  <2>1. CASE inbox # <<>> /\ ~Finish
    <3>1. /\ request # None /\ Head(inbox) = <<sequence, request>> /\ todo = 0
          /\ Len(inbox) \in Nat \ {0} /\ Len(Tail(inbox)) = Len(inbox) - 1
      BY <1>9, <2>1 DEF ReadHeader
    <3>2. Total(request) = 1 + Pieces(request.size) /\ Pieces(request.size) \in Nat
      BY <3>1, TotalNat DEF Asked
    <3>3. ~At
      BY <2>1, <3>1, AtTop
    <3>4. Behind
      BY <1>9, <2>1, <3>3 DEF ReadHeader
    <3>5. sent = Len(inbox)
      BY <2>1, <3>4
    <3>6. pid' # "running" \/ (handled' = handled + 1 /\ handled + 1 = sequence /\ todo' = Pieces(request.size) /\ inbox' = Tail(inbox))
      <4>1. Head(inbox)[1] = sequence /\ Head(inbox)[2] = request /\ request.kind = "model"
        BY <2>1, <3>1
      <4>2. \/ pid' = "zombie"
            \/ /\ Head(inbox)[2].kind = "model" => Head(inbox)[1] = handled + 1
               /\ handled' = handled + 1 /\ todo' = Pieces(Head(inbox)[2].size) /\ inbox' = Tail(inbox)
        BY <1>9, <2>1 DEF ReadHeader, Exit
      <4> QED
        BY <4>1, <4>2
    <3>7. UNCHANGED <<sent, request, sequence>>
      BY <1>9 DEF ReadHeader
    <3>8. Total(request)' = Total(request)
      BY <3>7 DEF Total
    <3>9. CASE pid' = "running"
      <4>1. sent' + todo' = Total(request) + Len(inbox') /\ handled' = sequence
        BY <3>1, <3>2, <3>5, <3>6, <3>7, <3>9
      <4>2. At'
        BY <3>1, <3>7, <3>8, <4>1
      <4> QED
        BY <4>2
    <3> QED
      BY <3>9
  <2>2. CASE inbox = <<>> \/ Finish
    BY <1>9, <2>2 DEF ReadHeader, Exit
  <2> QED
    BY <2>1, <2>2
<1>10. CASE Flushed \/ Crash
  BY <1>10, TotalNat, RequestsAsked DEF Flushed, Exit, Proceeds, Crash
<1>11. CASE ReadPayload
  <2>1. CASE todo > 0 /\ inbox # <<>> /\ ~Finish
    <3>2. At
      BY <1>11, <2>1 DEF ReadPayload
    <3>4. UNCHANGED <<sent, request, sequence, handled>> /\ todo' = todo - 1 /\ inbox' = Tail(inbox)
      BY <1>11, <2>1 DEF ReadPayload, Exit
    <3>8. At'
      BY <2>1, <3>2, <3>4, AtReads
    <3> QED
      BY <3>8
  <2>2. CASE ~(todo > 0 /\ inbox # <<>>) \/ Finish
    BY <1>11, <2>2 DEF ReadPayload, Exit, Proceeds
  <2> QED
    BY <2>1, <2>2
<1>12. CASE ReadEof
  BY <1>12, TotalNat, RequestsAsked DEF ReadEof, Proceeds
<1>13. CASE Decoded
  BY <1>13, TotalNat, RequestsAsked DEF Decoded, Exit, Proceeds
<1>14. CASE Write
  BY <1>14, TotalNat, RequestsAsked DEF Write, Exit
<1>15. CASE UNCHANGED vars
  BY <1>15, TotalNat, RequestsAsked
<1> QED
  BY <1>1, <1>2, <1>3, <1>4, <1>5, <1>6, <1>7, <1>8, <1>9, <1>10, <1>11, <1>12, <1>13, <1>14,
     <1>15 DEF Next, App, Helper

\* Between exchanges all was read.
LEMMA BetweenStep ==
  ASSUME Account, Between, SessionStream, ProcessInv, ModeInv, Counted, InboxType, Asked,
         [Next]_vars
  PROVE  Between'
<1> USE DEF vars, callVars, procVars, helperVars, Between, Account, Behind, At, SessionStream,
    Answered, Complete, Eof, Finish, ModeInv, Counted, InboxType
<1>1. ASSUME NEW r \in Requests, Decode(r) PROVE Between'
  BY <1>1, TotalNat, RequestsAsked DEF Decode, Ask, Spawned, Nothing
<1>2. ASSUME NEW r \in Requests, Exchange(r) PROVE Between'
  BY <1>2, TotalNat, RequestsAsked DEF Exchange, Ask, Nothing
<1>3. CASE StartSession \/ CloseSession
  BY <1>3, TotalNat, RequestsAsked DEF StartSession, Spawned, CloseSession, Nothing
<1>4. CASE EndExchange \/ Send \/ ReceiveEof \/ GiveUp
  BY <1>4, TotalNat, RequestsAsked DEF EndExchange, Succeeds, Fails, Nothing, Send, Busy, Goes,
     ReceiveEof, GiveUp
<1>5. CASE Receive
  BY <1>5, TotalNat, RequestsAsked DEF Receive, Busy, Goes, Fails, ReceiveHead, ReceivePages,
     ReceiveBody, ReceiveExcess
<1>6. CASE Collect \/ Stop \/ Kill \/ Reap
  BY <1>6, TotalNat, RequestsAsked DEF Collect, Succeeds, Fails, Stop, Kill, Reap
<1>7. CASE ReadHeader
  BY <1>7, TotalNat, RequestsAsked DEF ReadHeader, Exit, Proceeds
<1>8. CASE ReadPayload \/ ReadEof \/ Flushed \/ Crash
  BY <1>8, TotalNat, RequestsAsked DEF ReadPayload, Exit, Proceeds, ReadEof, Flushed, Crash
<1>9. CASE Decoded
  BY <1>9, TotalNat, RequestsAsked DEF Decoded, Exit, Proceeds
<1>10. CASE Write
  BY <1>10, TotalNat, RequestsAsked DEF Write, Exit
<1>11. CASE UNCHANGED vars
  BY <1>11, TotalNat, RequestsAsked
<1> QED
  BY <1>1, <1>2, <1>3, <1>4, <1>5, <1>6, <1>7, <1>8, <1>9, <1>10, <1>11 DEF Next, App, Helper

\* A single call reads only its own helper.
LEMMA OnlyStreamStep ==
  ASSUME OnlyStream, OneRequest, WireType, OutType, StageInv, DecodingAsked, Counted, Asked,
         ModeInv, HeadInv, ReplyType, [Next]_vars
  PROVE  OnlyStream'
<1> USE DEF vars, callVars, procVars, helperVars, OnlyStream, Stream, Finish, ModeInv
<1>0. Tagged(<<>> \o <<>>, 1)
  BY DEF Tagged
<1>1. ASSUME NEW r \in Requests, Decode(r) PROVE OnlyStream'
  BY <1>1, <1>0 DEF Decode, Ask, Spawned, Nothing
<1>2. ASSUME NEW r \in Requests, Exchange(r) PROVE OnlyStream'
  BY <1>2, <1>0 DEF Exchange, Ask, Nothing
<1>3. CASE StartSession \/ CloseSession
  BY <1>3, <1>0 DEF StartSession, Spawned, CloseSession, Nothing
<1>4. CASE EndExchange \/ Send \/ ReceiveEof \/ GiveUp
  BY <1>4, <1>0 DEF EndExchange, Succeeds, Fails, Nothing, Send, Busy, Goes, ReceiveEof, GiveUp
<1>5. CASE Receive
  <2>1. /\ wire \in Seq(Items) /\ out \in Seq(Items) /\ app = "transfer"
        /\ UNCHANGED <<request, out>>
    BY <1>5, ReceiveEffect DEF WireType, OutType
  <2>3. Tagged(wire \o out, 1) => Tagged(wire' \o out, 1)
    BY <1>5, StreamTaken
  <2> QED
    BY <2>1, <2>3
<1>6. CASE Collect \/ Stop \/ Kill \/ Reap
  BY <1>6, <1>0 DEF Collect, Succeeds, Fails, Stop, Kill, Reap
<1>7. CASE ReadHeader
  BY <1>7, <1>0 DEF ReadHeader, Exit, Proceeds
<1>8. CASE ReadPayload \/ ReadEof \/ Flushed \/ Crash
  BY <1>8, <1>0 DEF ReadPayload, Exit, Proceeds, ReadEof, Flushed, Crash
<1>9. CASE Decoded
  <2>1. CASE UNCHANGED out
    BY <1>9, <2>1 DEF Decoded
  <2>2. CASE out' \in Written /\ app # "idle" /\ Finish
    <3>1. request \in Requests /\ handled \in Tags /\ handled = 1 /\ out = <<>> /\ wire \in Seq(Items)
      BY <1>9, <2>2 DEF Decoded, DecodingAsked, Counted, Asked, OneRequest, StageInv, WireType
    <3>2. out' \in Seq(Items) /\ Tagged(out', 1)
      BY <2>2, <3>1, WrittenItems
    <3>3. Tagged(wire, 1)
      <4>1. wire \o <<>> = wire
        BY <3>1
      <4> QED
        BY <2>2, <3>1, <4>1
    <3>4. Tagged(wire \o out', 1)
      BY <3>1, <3>2, <3>3, JoinedFresh
    <3> QED
      BY <1>9, <3>4 DEF Decoded
  <2>3. CASE out' \in Written /\ ~(app # "idle" /\ Finish)
    BY <1>9, <2>3 DEF Decoded
  <2> QED
    BY <1>9, <2>1, <2>2, <2>3 DEF Decoded, Exit
<1>10. CASE Write
  <2>1. wire' \o out' = wire \o out
    BY <1>10, StreamMoves
  <2> QED
    BY <1>10, <2>1 DEF Write
<1>11. CASE UNCHANGED vars
  BY <1>11, <1>0
<1> QED
  BY <1>1, <1>2, <1>3, <1>4, <1>5, <1>6, <1>7, <1>8, <1>9, <1>10, <1>11 DEF Next, App, Helper

\* After an exchange nothing is left that the next one would take.
LEMMA IdleStreamStep ==
  ASSUME IdleStream, SessionStream, Between, ModeInv, WireType, OutType, Asked, [Next]_vars
  PROVE  IdleStream'
<1> USE DEF vars, callVars, procVars, helperVars, IdleStream, Stream, Finish, ModeInv
<1>0. \A n \in Nat : Old(<<>> \o <<>>, n)
  BY DEF Old
<1>1. ASSUME NEW r \in Requests, Decode(r) PROVE IdleStream'
  BY <1>1, <1>0 DEF Decode, Ask, Spawned, Nothing
<1>2. ASSUME NEW r \in Requests, Exchange(r) PROVE IdleStream'
  BY <1>2, <1>0 DEF Exchange, Ask, Nothing
<1>3. CASE CloseSession
  BY <1>3, <1>0 DEF CloseSession, Nothing
<1>4. CASE StartSession
  <2>1. Old(<<>> \o <<>>, 0)
    BY <1>0
  <2> QED
    BY <1>4, <2>1 DEF StartSession, Spawned
<1>5. CASE Send \/ ReceiveEof \/ GiveUp
  BY <1>5, <1>0 DEF Send, Busy, Goes, Fails, ReceiveEof, Nothing, GiveUp
<1>6. CASE EndExchange
  <2>1. reply.head # None /\ app = "transfer" /\ ~Finish /\ UNCHANGED <<wire, out, sequence>>
    BY <1>6 DEF EndExchange, Complete, Nothing
  <2>2. Old(wire \o out, sequence)
    BY <2>1 DEF SessionStream
  <2> QED
    BY <2>1, <2>2
<1>7. CASE Receive
  BY <1>7, ReceiveEffect DEF Goes, Fails
<1>8. CASE Collect \/ Stop \/ Kill \/ Reap
  BY <1>8, <1>0 DEF Collect, Succeeds, Fails, Stop, Kill, Reap
<1>9. CASE ReadHeader
  BY <1>9, <1>0 DEF ReadHeader, Exit, Proceeds
<1>10. CASE ReadPayload \/ ReadEof \/ Flushed \/ Crash
  BY <1>10, <1>0 DEF ReadPayload, Exit, Proceeds, ReadEof, Flushed, Crash
<1>11. CASE Decoded
  BY <1>11 DEF Decoded, Between, Exit
<1>12. CASE Write
  <2>1. wire' \o out' = wire \o out
    BY <1>12, StreamMoves
  <2> QED
    BY <1>12, <2>1 DEF Write
<1>13. CASE UNCHANGED vars
  BY <1>13, <1>0
<1> QED
  BY <1>1, <1>2, <1>3, <1>4, <1>5, <1>6, <1>7, <1>8, <1>9, <1>10, <1>11, <1>12, <1>13 DEF Next,
     App, Helper

\* In an exchange what the application takes was written in it.
LEMMA SessionStreamStep ==
  ASSUME SessionStream, IdleStream, Between, Account, HeaderNext, StageInv, DecodingAsked,
         ModeInv, ProcessInv, WireType, OutType, InboxType, ReplyType, Counted, Asked, HeadInv,
         [Next]_vars
  PROVE  SessionStream'
<1> USE DEF vars, callVars, procVars, helperVars, SessionStream, Stream, Answered, Unwanted, Finish
<1>1. ASSUME NEW r \in Requests, Decode(r) PROVE SessionStream'
  BY <1>1, RequestsAsked DEF Decode, Ask, Spawned, Nothing
<1>2. ASSUME NEW r \in Requests, Exchange(r) PROVE SessionStream'
  <2>1. CASE app' = "transfer"
    <3>1. /\ session = "active" /\ app = "idle" /\ reply'.head = None /\ sequence' = sequence + 1 /\ UNCHANGED <<wire, out>>
      BY <1>2, <2>1 DEF Exchange, Ask, Nothing
    <3>2. Old(wire \o out, sequence)
      BY <3>1 DEF IdleStream
    <3> DEFINE s == wire \o out
    <3>3. s \in Seq(Items)
      BY ConcatProperties DEF WireType, OutType
    <3> HIDE DEF s
    <3>4. CASE s = <<>>
      <4>1. Fresh(s, sequence + 1)
        BY <3>4 DEF Fresh
      <4> QED
        BY <3>1, <3>4, <4>1 DEF s
    <3>5. CASE s # <<>>
      <4>1. 1 \in 1..Len(s)
        BY <3>3, <3>5
      <4>2. s[1].head = None \/ s[1].head.b = sequence
        BY <3>2, <4>1 DEF Old, s
      <4>3. sequence # sequence + 1
        BY DEF Counted
      <4> QED
        BY <3>1, <3>5, <4>2, <4>3 DEF s
    <3> QED
      BY <3>4, <3>5
  <2> QED
    BY <1>2, <2>1
<1>3. CASE StartSession \/ CloseSession
  BY <1>3, RequestsAsked DEF StartSession, Spawned, CloseSession, Nothing
<1>4. CASE EndExchange \/ Send \/ ReceiveEof \/ GiveUp
  BY <1>4, RequestsAsked DEF EndExchange, Succeeds, Fails, Nothing, Send, Busy, Goes,
     ReceiveEof, GiveUp
<1>5. CASE Receive
  <2>1. /\ wire \in Seq(Items) /\ out \in Seq(Items) /\ app = "transfer" /\ wire # <<>>
        /\ UNCHANGED <<request, sequence, out, handled, todo, helper>> /\ (Goes \/ Fails)
    BY <1>5, ReceiveEffect DEF WireType, OutType
  <2>3. /\ Fresh(wire \o out, sequence) => Old(wire' \o out, sequence) /\ Fresh(wire' \o out, sequence)
        /\ wire \o out # <<>> /\ (wire \o out)[1] = wire[1]
    BY <1>5, StreamTaken
  <2>4. CASE ~Finish /\ Goes
    <3>1. ~Unwanted \/ reply.head # None
      <4>1. CASE ReceiveHead
        <5>1. HeaderFits(request, Expected, wire[1].head) /\ wire[1].head # None
          BY <2>1, <2>4, <4>1 DEF ReceiveHead, Goes, Fails
        <5>2. request.kind = "model" /\ Expected = sequence
          BY <2>1, <2>4 DEF Expected, ModeInv
        <5>3. wire[1].head.b = sequence
          BY <5>1, <5>2 DEF HeaderFits, ModelFits
        <5> QED
          BY <2>3, <5>1, <5>3
      <4> QED
        BY <1>5, <4>1 DEF Receive, ReceivePages, ReceiveBody, ReceiveExcess, Complete
    <3>2. Fresh(wire \o out, sequence) /\ Answered
      BY <2>1, <2>3, <2>4, <3>1
    <3> QED
      BY <2>1, <2>3, <3>2
  <2>5. CASE Finish
    BY <2>1, <2>5
  <2>6. CASE Fails
    BY <2>6 DEF Fails
  <2> QED
    BY <2>1, <2>4, <2>5, <2>6
<1>6. CASE Collect \/ Stop \/ Kill \/ Reap
  BY <1>6, RequestsAsked DEF Collect, Succeeds, Fails, Stop, Kill, Reap
<1>7. CASE ReadHeader
  <2>1. CASE app = "transfer" /\ ~Finish /\ inbox # <<>>
    <3>1. todo = 0
      BY <1>7 DEF ReadHeader, StageInv
    <3>2. ~At
      BY <2>1, <3>1, AtTop
    <3>3. handled + 1 = sequence
      BY <1>7, <2>1, <3>2 DEF ReadHeader, Account, Behind
    <3>4. handled # sequence
      BY <3>3 DEF Counted, Tags
    <3>5. reply.head = None /\ (Stream = <<>> \/ Unwanted)
      BY <2>1, <3>4
    <3>6. UNCHANGED <<wire, out, reply, sequence>>
      BY <1>7 DEF ReadHeader, Exit
    <3>7. Fresh(<<>>, sequence)
      BY DEF Fresh
    <3> QED
      BY <3>5, <3>6, <3>7
  <2>2. CASE inbox = <<>>
    BY <1>7, <2>2 DEF ReadHeader, Exit
  <2>3. CASE app # "transfer" \/ Finish
    BY <1>7, <2>3 DEF ReadHeader
  <2> QED
    BY <2>1, <2>2, <2>3
<1>8. CASE ReadEof \/ Flushed \/ Crash
  BY <1>8, RequestsAsked DEF ReadEof, Proceeds, Flushed, Exit, Crash
<1>9. CASE ReadPayload
  <2>1. CASE app = "transfer" /\ ~Finish
    <3>1. reply.head = None /\ (Stream = <<>> \/ Unwanted)
      BY <1>9, <2>1 DEF ReadPayload
    <3>2. UNCHANGED <<wire, out, reply, sequence>>
      BY <1>9 DEF ReadPayload, Exit
    <3>3. Fresh(<<>>, sequence)
      BY DEF Fresh
    <3> QED
      BY <3>1, <3>2, <3>3
  <2> QED
    BY <1>9, <2>1 DEF ReadPayload
<1>10. CASE Decoded
  <2>1. CASE app = "transfer" /\ ~Finish /\ out' \in Written
    <3>1. request \in Requests /\ request.kind = "model" /\ handled \in Tags /\ wire \in Seq(Items) /\ out = <<>> /\ todo = 0
      BY <1>10, <2>1 DEF Decoded, DecodingAsked, Counted, Asked, StageInv, WireType
    <3>2. handled = sequence
      BY <1>10, <2>1 DEF Decoded, Account, Behind, At
    <3>3. reply.head = None /\ (wire \o out = <<>> \/ Unwanted)
      BY <1>10, <2>1 DEF Decoded
    <3>4. wire \o out = wire
      BY <3>1
    <3>5. out' \in Seq(Items) /\ Fresh(out', sequence) /\ Len(out') > 0
      BY <2>1, <3>1, <3>2, WrittenItems
    <3>6. UNCHANGED <<wire, reply, sequence, handled, todo, app>> /\ helper' = "writing"
      BY <1>10, <2>1, <3>1, <3>5 DEF Decoded, Proceeds, Exit
    <3>7. CASE wire = <<>>
      <4>1. wire' \o out' = out'
        BY <3>5, <3>6, <3>7
      <4> QED
        BY <3>1, <3>2, <3>3, <3>5, <3>6, <4>1
    <3>8. CASE wire # <<>>
      <4>1. (wire \o out') # <<>> /\ (wire \o out')[1] = wire[1]
        BY <3>1, <3>5, <3>8, JoinedFresh
      <4>2. Unwanted'
        BY <3>3, <3>4, <3>6, <3>8, <4>1
      <4> QED
        BY <3>3, <3>6, <4>2
    <3> QED
      BY <3>7, <3>8
  <2>2. CASE out' = out /\ Exit(1)
    BY <1>10, <2>2 DEF Decoded, Exit
  <2> QED
    BY <1>10, <2>1, <2>2 DEF Decoded, Exit
<1>11. CASE Write
  <2>1. wire' \o out' = wire \o out
    BY <1>11, StreamMoves
  <2>2. UNCHANGED <<reply, sequence, handled, todo, app, helper, request>>
    BY <1>11 DEF Write, Exit
  <2> QED
    BY <2>1, <2>2
<1>12. CASE UNCHANGED vars
  BY <1>12, RequestsAsked
<1> QED
  BY <1>1, <1>2, <1>3, <1>4, <1>5, <1>6, <1>7, <1>8, <1>9, <1>10, <1>11, <1>12 DEF Next, App, Helper

\* Headers and page counts are taken only if they fit.
LEMMA HeadStep ==
  ASSUME HeadInv, WholeInv, ModeInv, ReplyType, Asked, WireType, [Next]_vars
  PROVE  HeadInv'
<1> USE DEF vars, callVars, procVars, helperVars, HeadInv, Taken, Expected, Finish
<1>1. ASSUME NEW r \in Requests, Decode(r) PROVE HeadInv'
  BY <1>1, RequestsAsked DEF Decode, Ask, Spawned, Nothing
<1>2. ASSUME NEW r \in Requests, Exchange(r) PROVE HeadInv'
  BY <1>2, RequestsAsked DEF Exchange, Ask, Nothing
<1>3. CASE StartSession \/ CloseSession
  BY <1>3, RequestsAsked DEF StartSession, Spawned, CloseSession, Nothing
<1>4. CASE EndExchange \/ Send \/ ReceiveEof \/ GiveUp
  BY <1>4, RequestsAsked DEF EndExchange, Succeeds, Fails, Nothing, Send, Busy, Goes,
     ReceiveEof, GiveUp
<1>5. CASE Receive
  <2>1. /\ app = "transfer" /\ UNCHANGED <<request, sequence>> /\ wire \in Seq(Items) /\ wire # <<>>
        /\ outcome = "none" /\ Head(wire) \in Items
    BY <1>5, ReceiveEffect DEF ModeInv, WireType
  <2>2. CASE Fails
    BY <2>2 DEF Fails
  <2>3. CASE ReceiveHead /\ Goes
    <3>1. /\ reply.head = None /\ reply.body = <<>> /\ reply.pages = None /\ request # None
      BY <2>1, <2>3 DEF ReceiveHead
    <3>2. reply' = [reply EXCEPT !.head = Head(wire).head] /\ Head(wire).head \in HeadSet \cup {None}
      BY <2>1, <2>3 DEF ReceiveHead, Items
    <3>3. Head(wire).head # None /\ HeaderFits(request, Expected, Head(wire).head)
      BY <2>1, <2>3 DEF ReceiveHead, Goes, Fails
    <3>4. Pieces(BodySize(Head(wire).head)) \in Nat
      BY <3>1, <3>2, <3>3, FitsIsNat, RequestsTyped DEF Asked
    <3>5. /\ reply'.head = Head(wire).head /\ reply'.body = <<>> /\ reply'.pages = None
      BY <3>1, <3>2 DEF ReplyType
    <3>6. Len(<<>>) = 0
      OBVIOUS
    <3> QED
      BY <2>1, <3>1, <3>3, <3>4, <3>5, <3>6
  <2>4. CASE ReceivePages /\ Goes
    <3>1. /\ reply'.head = reply.head /\ reply'.body = reply.body /\ reply.head # None
          /\ reply' = [reply EXCEPT !.pages = Head(wire).pages]
      BY <2>4 DEF ReceivePages, ReplyType
    <3>2. PagesFit(request, reply'.pages)
      BY <2>1, <2>4 DEF ReceivePages, Goes, Fails
    <3> QED
      BY <2>1, <3>1, <3>2
  <2>5. CASE ReceiveBody /\ Goes
    <3>1. PICK n \in 1..Len(wire) :
            /\ reply' = [reply EXCEPT !.body = @ \o [i \in 1..n |-> wire[i].tag]]
            /\ Len(reply.body) + n <= Pieces(BodySize(reply.head))
      BY <2>1, <2>5, ReceivedBody
    <3> DEFINE t == [i \in 1..n |-> wire[i].tag]
    <3>2. t \in Seq(Tags) /\ Len(t) = n
      <4>1. \A i \in 1..Len(wire) : wire[i] \in Items
        BY <2>1
      <4>2. \A i \in 1..n : wire[i].tag \in Tags
        BY <2>1, <4>1 DEF Items
      <4> QED
        BY <2>1, <4>2
    <3>3. reply'.head = reply.head /\ reply'.pages = reply.pages /\ reply'.body = reply.body \o t /\ reply.head # None /\ reply.body \in Seq(Tags)
      BY <3>1, <2>5 DEF ReplyType, ReceiveBody
    <3> HIDE DEF t
    <3>4. Len(reply'.body) = Len(reply.body) + n
      BY <3>2, <3>3, ConcatProperties
    <3> QED
      BY <2>1, <3>1, <3>3, <3>4
  <2> QED
    BY <1>5, <2>2, <2>3, <2>4, <2>5, ReceiveEffect DEF Receive, ReceiveExcess
<1>6. CASE Collect \/ Stop \/ Kill \/ Reap
  BY <1>6, RequestsAsked DEF Collect, Succeeds, Fails, Stop, Kill, Reap
<1>7. CASE ReadHeader
  BY <1>7, RequestsAsked DEF ReadHeader, Exit, Proceeds
<1>8. CASE ReadPayload \/ ReadEof \/ Flushed \/ Crash
  BY <1>8, RequestsAsked DEF ReadPayload, Exit, Proceeds, ReadEof, Flushed, Crash
<1>9. CASE Decoded
  BY <1>9, RequestsAsked DEF Decoded, Exit, Proceeds
<1>10. CASE Write
  BY <1>10, RequestsAsked DEF Write, Exit
<1>11. CASE UNCHANGED vars
  BY <1>11, RequestsAsked
<1> QED
  BY <1>1, <1>2, <1>3, <1>4, <1>5, <1>6, <1>7, <1>8, <1>9, <1>10, <1>11 DEF Next, App, Helper

\* So is the body.
LEMMA BodyStep ==
  ASSUME BodyInv, OnlyStream, SessionStream, HeadInv, ModeInv, ReplyType, Asked, WireType,
         OutType, [Next]_vars
  PROVE  BodyInv'
<1> USE DEF vars, callVars, procVars, helperVars, BodyInv, Taken, Expected, Finish
<1>0. 1..Len(<<>>) = {}
  OBVIOUS
<1>1. ASSUME NEW r \in Requests, Decode(r) PROVE BodyInv'
  BY <1>1, RequestsAsked, <1>0 DEF Decode, Ask, Spawned, Nothing
<1>2. ASSUME NEW r \in Requests, Exchange(r) PROVE BodyInv'
  BY <1>2, RequestsAsked, <1>0 DEF Exchange, Ask, Nothing
<1>3. CASE StartSession \/ CloseSession
  BY <1>3, RequestsAsked, <1>0 DEF StartSession, Spawned, CloseSession, Nothing
<1>4. CASE EndExchange \/ Send \/ ReceiveEof \/ GiveUp
  BY <1>4, RequestsAsked, <1>0 DEF EndExchange, Succeeds, Fails, Nothing, Send, Busy, Goes,
     ReceiveEof, GiveUp
<1>5. CASE Receive
  <2>1. /\ app = "transfer" /\ UNCHANGED <<request, sequence>> /\ wire \in Seq(Items) /\ wire # <<>> /\ out \in Seq(Items)
        /\ outcome = "none"
    BY <1>5, ReceiveEffect DEF ModeInv, WireType, OutType
  <2>2. CASE reply'.body = reply.body
    BY <2>1, <2>2
  <2>3. CASE ReceiveBody
    <3>1. PICK n \in 1..Len(wire) : reply' = [reply EXCEPT !.body = @ \o [i \in 1..n |-> wire[i].tag]]
      BY <2>1, <2>3, ReceivedBody
    <3> DEFINE t == [i \in 1..n |-> wire[i].tag]
    <3>2. t \in Seq(Tags) /\ Len(t) = n
      <4>1. \A i \in 1..Len(wire) : wire[i] \in Items
        BY <2>1
      <4>2. \A i \in 1..n : wire[i].tag \in Tags
        BY <2>1, <4>1 DEF Items
      <4> QED
        BY <2>1, <4>2
    <3>3. reply'.body = reply.body \o t /\ reply.head # None /\ reply.body \in Seq(Tags)
      BY <3>1, <2>3 DEF ReplyType, ReceiveBody
    <3>4. \A i \in 1..Len(wire) : wire[i].tag = Expected
      BY <2>1, <3>3, StreamExpected
    <3>5. \A i \in 1..Len(t) : t[i] = Expected
      BY <2>1, <3>2, <3>4
    <3> HIDE DEF t
    <3>6. \A i \in 1..Len(reply.body) : reply.body[i] = Expected
      BY <2>1
    <3>7. \A i \in 1..Len(reply'.body) : reply'.body[i] = Expected
      BY <3>2, <3>3, <3>5, <3>6, ConcatProperties
    <3> QED
      BY <2>1, <3>7
  <2> QED
    BY <1>5, <2>2, <2>3 DEF Receive, ReceiveHead, ReceivePages, ReceiveExcess, ReplyType
<1>6. CASE Collect \/ Stop \/ Kill \/ Reap
  BY <1>6, RequestsAsked, <1>0 DEF Collect, Succeeds, Fails, Stop, Kill, Reap
<1>7. CASE ReadHeader
  BY <1>7, RequestsAsked, <1>0 DEF ReadHeader, Exit, Proceeds
<1>8. CASE ReadPayload \/ ReadEof \/ Flushed \/ Crash
  BY <1>8, RequestsAsked, <1>0 DEF ReadPayload, Exit, Proceeds, ReadEof, Flushed, Crash
<1>9. CASE Decoded
  BY <1>9, RequestsAsked, <1>0 DEF Decoded, Exit, Proceeds
<1>10. CASE Write
  BY <1>10, RequestsAsked, <1>0 DEF Write, Exit
<1>11. CASE UNCHANGED vars
  BY <1>11, RequestsAsked, <1>0
<1> QED
  BY <1>1, <1>2, <1>3, <1>4, <1>5, <1>6, <1>7, <1>8, <1>9, <1>10, <1>11 DEF Next, App, Helper

\* A call that is well is whole.
LEMMA WholeStep ==
  ASSUME WholeInv, ModeInv, [Next]_vars
  PROVE  WholeInv'
<1> USE DEF vars, callVars, procVars, helperVars, WholeInv, Complete
<1>1. ASSUME NEW r \in Requests, Decode(r) PROVE WholeInv'
  BY <1>1 DEF Decode, Ask, Spawned, Nothing
<1>2. ASSUME NEW r \in Requests, Exchange(r) PROVE WholeInv'
  BY <1>2 DEF Exchange, Ask, Nothing
<1>3. CASE StartSession \/ CloseSession
  BY <1>3 DEF StartSession, Spawned, CloseSession, Nothing
<1>4. CASE EndExchange \/ Send \/ ReceiveEof \/ GiveUp
  BY <1>4 DEF EndExchange, Succeeds, Fails, Nothing, Send, Busy, Goes, ReceiveEof, GiveUp
<1>5. CASE Receive
  <2>1. app = "transfer" /\ outcome = "none" /\ (Goes \/ Fails)
    BY <1>5, ReceiveEffect DEF ModeInv
  <2> QED
    BY <2>1 DEF Goes, Fails
<1>6. CASE Collect \/ Stop \/ Kill \/ Reap
  BY <1>6 DEF Collect, Succeeds, Fails, Stop, Kill, Reap
<1>7. CASE ReadHeader
  BY <1>7 DEF ReadHeader, Exit, Proceeds
<1>8. CASE ReadPayload \/ ReadEof \/ Flushed \/ Crash
  BY <1>8 DEF ReadPayload, Exit, Proceeds, ReadEof, Flushed, Crash
<1>9. CASE Decoded
  BY <1>9 DEF Decoded, Exit, Proceeds
<1>10. CASE Write
  BY <1>10 DEF Write, Exit
<1>11. CASE UNCHANGED vars
  BY <1>11
<1> QED
  BY <1>1, <1>2, <1>3, <1>4, <1>5, <1>6, <1>7, <1>8, <1>9, <1>10, <1>11 DEF Next, App, Helper

\* A single call is well only after a clean exit.
LEMMA CleanStep ==
  ASSUME CleanInv, ProcessInv, ModeInv, Flags, [Next]_vars
  PROVE  CleanInv'
<1> USE DEF vars, callVars, procVars, helperVars, CleanInv, ProcessInv, ModeInv, Finish
<1>1. ASSUME NEW r \in Requests, Decode(r) PROVE CleanInv'
  BY <1>1 DEF Decode, Ask, Spawned, Nothing
<1>2. ASSUME NEW r \in Requests, Exchange(r) PROVE CleanInv'
  BY <1>2 DEF Exchange, Ask, Nothing
<1>3. CASE StartSession \/ CloseSession
  BY <1>3 DEF StartSession, Spawned, CloseSession, Nothing
<1>4. CASE EndExchange \/ Send \/ ReceiveEof \/ GiveUp
  BY <1>4 DEF EndExchange, Succeeds, Fails, Nothing, Send, Busy, Goes, ReceiveEof, GiveUp
<1>5. CASE Receive
  BY <1>5, ReceiveEffect DEF Goes, Fails
<1>6. CASE Collect \/ Stop \/ Kill \/ Reap
  BY <1>6 DEF Collect, Succeeds, Fails, Stop, Kill, Reap
<1>7. CASE ReadHeader
  BY <1>7 DEF ReadHeader, Exit, Proceeds
<1>8. CASE ReadPayload \/ ReadEof \/ Flushed \/ Crash
  BY <1>8 DEF ReadPayload, Exit, Proceeds, ReadEof, Flushed, Crash
<1>9. CASE Decoded
  BY <1>9 DEF Decoded, Exit, Proceeds
<1>10. CASE Write
  BY <1>10 DEF Write, Exit
<1>11. CASE UNCHANGED vars
  BY <1>11
<1> QED
  BY <1>1, <1>2, <1>3, <1>4, <1>5, <1>6, <1>7, <1>8, <1>9, <1>10, <1>11 DEF Next, App, Helper

-----------------------------------------------------------------------------

\* The first state satisfies the invariant: no call, no process, empty streams.
LEMMA InitInv == Init => DecoderInv
<1> SUFFICES ASSUME Init PROVE DecoderInv
  OBVIOUS
<1>0. /\ <<>> \in Seq(Items) /\ Len(<<>>) = 0 /\ Len(<<>>) <= Buffer
      /\ <<>> \in Seq(Messages \cup {<<>>}) /\ <<>> \in Seq(Tags)
  BY Bounds
<1>1. States /\ Stages /\ Life /\ Flags /\ Asked
  BY DEF Init, States, Stages, Life, Flags, Asked
<1>2. Counted
  BY Bounds DEF Init, Counted, Tags
<1>3. WireType /\ OutType /\ InboxType /\ ReplyType
  BY <1>0 DEF Init, WireType, OutType, InboxType, ReplyType
<1>4. ProcessInv /\ ModeInv /\ StageInv /\ DecodingAsked /\ HeaderNext
  BY DEF Init, ProcessInv, ModeInv, StageInv, DecodingAsked, HeaderNext
<1>5. OneRequest /\ Account /\ Between /\ StreamInv
  BY DEF Init, OneRequest, Account, Between, StreamInv, OnlyStream, IdleStream, SessionStream
<1>6. HeadInv /\ BodyInv /\ WholeInv /\ CleanInv
  BY DEF Init, HeadInv, BodyInv, WholeInv, CleanInv, Taken
<1> QED
  BY <1>1, <1>2, <1>3, <1>4, <1>5, <1>6 DEF DecoderInv, Types

\* A step of the application or of the helper preserves the invariant.
LEMMA StepInv == DecoderInv /\ [Next]_vars => DecoderInv'
<1> SUFFICES ASSUME DecoderInv, [Next]_vars PROVE DecoderInv'
  OBVIOUS
<1>1. /\ States /\ Stages /\ Life /\ Flags /\ Asked /\ Counted
      /\ WireType /\ OutType /\ InboxType /\ ReplyType
      /\ ProcessInv /\ ModeInv /\ StageInv /\ DecodingAsked /\ HeaderNext /\ OneRequest
      /\ Account /\ Between /\ OnlyStream /\ IdleStream /\ SessionStream
      /\ HeadInv /\ BodyInv /\ WholeInv /\ CleanInv
  BY DEF DecoderInv, Types, StreamInv
<1>2. Types'
  <2>1. States' /\ Stages' /\ Life' /\ Flags' /\ Asked'
    BY <1>1, StatesStep, StagesStep, LifeStep, FlagsStep, AskedStep
  <2>2. Counted'
    BY <1>1, CountedStep
  <2>3. WireType' /\ OutType'
    BY <1>1, WireStep, OutStep
  <2>4. InboxType' /\ ReplyType'
    BY <1>1, InboxStep, ReplyStep
  <2> QED
    BY <2>1, <2>2, <2>3, <2>4 DEF Types
<1>3. ProcessInv' /\ ModeInv' /\ StageInv' /\ DecodingAsked'
  BY <1>1, ProcessStep, ModeStep, StageStep, DecodingStep
<1>4. HeaderNext' /\ OneRequest'
  BY <1>1, HeaderStep, OneStep
<1>5. Account' /\ Between'
  BY <1>1, AccountStep, BetweenStep
<1>6. StreamInv'
  <2>1. OnlyStream'
    BY <1>1, OnlyStreamStep
  <2>2. IdleStream'
    BY <1>1, IdleStreamStep
  <2>3. SessionStream'
    BY <1>1, SessionStreamStep
  <2> QED
    BY <2>1, <2>2, <2>3 DEF StreamInv
<1>7. HeadInv' /\ WholeInv' /\ CleanInv'
  BY <1>1, HeadStep, WholeStep, CleanStep
<1>8. BodyInv'
  BY <1>1, BodyStep
<1> QED
  BY <1>2, <1>3, <1>4, <1>5, <1>6, <1>7, <1>8 DEF DecoderInv

\* The inductive invariant holds in every state of every run.
THEOREM DecoderInvariant == Spec => []DecoderInv
<1>1. Init => DecoderInv
  BY InitInv
<1>2. DecoderInv /\ [Next]_vars => DecoderInv'
  BY StepInv
<1> QED
  BY <1>1, <1>2, PTL DEF Spec

\* decoder_stop kills and waits for the helper and for nothing else, and leaves no process,
\* no zombie and no socket of a call that is over, whatever failed: decoder_ipc.c.
THEOREM DecoderSafe == Spec => []Inv
<1>1. DecoderInv => TypeOK
  <2>1. Types => TypeOK
    BY DEF Types, States, Stages, Life, Flags, Asked, Counted, WireType, InboxType, ReplyType,
       Tags, TypeOK
  <2> QED
    BY <2>1 DEF DecoderInv
<1>2. DecoderInv => OwnsPid /\ NothingLeft
  BY DEF DecoderInv, ProcessInv, OwnsPid, NothingLeft
<1>3. DecoderInv => Inv
  BY <1>1, <1>2 DEF Inv
<1> QED
  BY <1>3, DecoderInvariant, PTL

\* The reply decoder_transfer returns is the helper's answer to this very
\* request, as long as its header says, within what was asked, and of a helper that did not
\* crash, whatever it wrote besides.
THEOREM GenuineAnswers == Spec => []AnswersAreGenuine
<1>1. DecoderInv => RepliesAreGenuine
  <2> SUFFICES ASSUME DecoderInv, outcome = "ok" PROVE
        Complete /\ Allowed(request, reply) /\ \A i \in 1..Len(reply.body) : reply.body[i] = Expected
    BY DEF RepliesAreGenuine
  <2>1. Complete /\ HeadInv /\ Taken /\ ReplyType /\ Asked
    BY DEF DecoderInv, Types, WholeInv, Taken
  <2>2. request \in RequestSet /\ reply.head # None /\ reply.head \in HeadSet
    BY <2>1, RequestsTyped DEF HeadInv, Asked, ReplyType, Complete
  <2>3. HeaderFits(request, Expected, reply.head)
    BY <2>1, <2>2 DEF HeadInv
  <2>4. request.kind = "pdf" => PagesFit(request, reply.pages)
    BY <2>1, <2>3 DEF HeadInv, HeaderFits, Complete
  <2>5. Allowed(request, reply)
    BY <2>2, <2>3, <2>4, FitsIsAllowed
  <2>6. \A i \in 1..Len(reply.body) : reply.body[i] = Expected
    BY <2>1 DEF DecoderInv, BodyInv
  <2> QED
    BY <2>1, <2>5, <2>6
<1>2. DecoderInv => OnlyFromCleanExit
  BY DEF DecoderInv, CleanInv, OnlyFromCleanExit
<1>3. DecoderInv => AnswersAreGenuine
  BY <1>1, <1>2 DEF AnswersAreGenuine
<1> QED
  BY <1>3, DecoderInvariant, PTL

\* Between two exchanges of a live session the helper has read all of the last request and
\* counts as the application does: wn_model_exchange and fbx_helper.c.
THEOREM SessionKept == Spec => []SessionInStep
<1>1. DecoderInv => SessionInStep
  BY DEF DecoderInv, Between, SessionInStep
<1> QED
  BY <1>1, DecoderInvariant, PTL

=============================================================================
