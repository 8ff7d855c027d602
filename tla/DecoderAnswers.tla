--------------------------- MODULE DecoderAnswers ---------------------------
(***************************************************************************)
(* Requests, documents and replies of the decoders: what a call may ask    *)
(* for, what the helpers answer about a document, and which headers the    *)
(* application takes.  Sizes are in bytes, pictures four bytes a pixel.    *)
(***************************************************************************)
EXTENDS Integers, Sequences

CONSTANTS
  InputMax,    \* the limits of decoder_ipc.h, one for all kinds
  OutputMax,
  DimMax,
  CountMax,    \* WN_ARCHIVE_COUNT_MAX
  ScanMax,     \* WN_ARCHIVE_SCAN_MAX
  NameMax,     \* WN_ARCHIVE_NAME_MAX
  PagesMax,    \* WN_PDF_PAGES_MAX
  Piece,       \* the bytes of one item of a stream
  None

ASSUME Limits ==
  /\ {InputMax, OutputMax, DimMax, CountMax, ScanMax, NameMax, PagesMax} \subseteq Nat
  /\ Piece \in Nat \ {0}

Kinds == {"image", "math", "archive", "pdf", "mesh", "model"}
EntrySet == [regular : BOOLEAN, name : Nat, declared : Int, size : Nat]
DocumentSet == [readable : BOOLEAN, w : Nat, h : Nat, pages : Nat, entries : Seq(EntrySet), bytes : Nat]
\* dim: the width or side wanted; target: the height wanted of a PDF page, 0 for any;
\* op: list or entry of an archive, format of a mesh, open or pose of a model.
RequestSet == [kind : Kinds, size : Nat, dim : Nat, cap : Nat, target : Nat,
               op : Nat, index : Nat, doc : DocumentSet]
HeadSet == [kind : Kinds, a : Nat, b : Nat, bytes : Nat]

Pieces(n) == (n + Piece - 1) \div Piece

\* Four bytes of a PDF reply are the page count.
BodySize(head) == IF head.kind = "pdf" THEN head.bytes - 4 ELSE head.bytes

List == 0
Open == 0

Sized(r) == r.size \in 1..InputMax

\* The arguments each call accepts.
ValidPicture(r) == r.kind = "image" /\ Sized(r) /\ r.dim \in 1..DimMax /\ r.cap \in 1..OutputMax
ValidFormula(r) == r.kind = "math" /\ Sized(r) /\ r.dim \in 1..DimMax /\ r.cap \in 1..OutputMax
ValidArchive(r) ==
  r.kind = "archive" /\ Sized(r) /\ r.op \in {0, 1} /\ (r.op = List => r.index = 0) /\ r.index < ScanMax
ValidPage(r) ==
  r.kind = "pdf" /\ Sized(r) /\ r.index < PagesMax /\ r.dim \in 1..DimMax /\ r.target <= DimMax
ValidMesh(r) == r.kind = "mesh" /\ Sized(r) /\ r.op \in 1..4
ValidExchange(r) == r.kind = "model" /\ r.size <= InputMax /\ r.op \in {0, 1}

Valid(r) ==
  ValidPicture(r) \/ ValidFormula(r) \/ ValidArchive(r) \/ ValidPage(r) \/ ValidMesh(r) \/ ValidExchange(r)

\* An FBX session opens one model, then poses it; a pose is asked for in 12 bytes.
Accepts(r, scene) ==
  \/ r.op = Open /\ ~scene /\ Sized(r)
  \/ r.op = 1 /\ scene /\ r.size = 12

-----------------------------------------------------------------------------
(* The archive helper.                                                     *)

\* Room for more output, up to its limit.
Reserve(size, extra, limit) == extra <= limit - size

RecordEntry(out, e) ==
  IF /\ out.ok /\ e.name \in 1..NameMax /\ out.count < CountMax
     /\ e.declared >= -1
     /\ Reserve(out.size, 16 + e.name, OutputMax)
  THEN [out EXCEPT !.size = @ + 16 + e.name, !.count = @ + 1]
  ELSE [out EXCEPT !.ok = FALSE]

Extracts(e) ==
  /\ e.regular
  /\ e.declared \in -1..OutputMax
  /\ e.size <= OutputMax
  /\ e.declared < 0 \/ e.declared = e.size

\* What a listing holds after each entry; it skips what is not a regular file.
NoOutput == [ok |-> TRUE, count |-> 0, size |-> 0]
Listing(es) ==
  LET upTo[n \in 0..Len(es)] ==
        IF n = 0 THEN NoOutput
        ELSE IF es[n].regular THEN RecordEntry(upTo[n - 1], es[n]) ELSE upTo[n - 1]
  IN upTo

\* Entries up to the scan limit.
ArchiveOutput(r) ==
  LET es == r.doc.entries
  IN IF r.op = List
     THEN IF Len(es) > ScanMax THEN [NoOutput EXCEPT !.ok = FALSE] ELSE Listing(es)[Len(es)]
     ELSE IF r.index < Len(es) /\ Extracts(es[r.index + 1])
          THEN [NoOutput EXCEPT !.size = es[r.index + 1].size]
          ELSE [NoOutput EXCEPT !.ok = FALSE]

-----------------------------------------------------------------------------
(* The PDF helper: a page scaled to the width wanted, or to the height when *)
(* it would become higher than wanted; halves are rounded up.              *)

Rounded(n, d) == (2 * n + d) \div (2 * d)
AtLeastOne(n) == IF n < 1 THEN 1 ELSE n

PageWidth(r) ==
  LET d == r.doc IN
  IF r.target = 0 \/ r.dim * d.h <= r.target * d.w THEN r.dim ELSE Rounded(d.w * r.target, d.h)
PageHeight(r) ==
  LET d == r.doc IN
  IF r.target = 0 \/ r.dim * d.h <= r.target * d.w THEN Rounded(d.h * r.dim, d.w) ELSE r.target

PageFits(r) ==
  /\ r.doc.w > 0 /\ r.doc.h > 0
  /\ PageWidth(r) <= DimMax /\ PageHeight(r) <= DimMax
  /\ AtLeastOne(PageWidth(r)) <= r.dim
  /\ r.target > 0 => AtLeastOne(PageHeight(r)) <= r.target
  /\ AtLeastOne(PageWidth(r)) * AtLeastOne(PageHeight(r)) * 4 <= OutputMax

-----------------------------------------------------------------------------

(* The helpers: which requests they answer, and with which header.         *)

\* A picture within the side and the bytes wanted.
Bounded(w, h, dim, bytes) == w \in 1..dim /\ h \in 1..dim /\ w * h * 4 <= bytes

Header(r, a, b, bytes) == [kind |-> r.kind, a |-> a, b |-> b, bytes |-> bytes]

\* image.c looks at the size before it decodes and at the picture after.
Picture(r) == r.kind = "image" /\ r.doc.readable /\ Bounded(r.doc.w, r.doc.h, r.dim, r.cap)
PictureHeader(r) == Header(r, r.doc.w, r.doc.h, r.doc.w * r.doc.h * 4)

\* A formula is typeset, measured with its padding, and drawn only if it fits.
Formula(r) == r.kind = "math" /\ r.doc.readable /\ Bounded(r.doc.w, r.doc.h, r.dim, r.cap)
FormulaHeader(r) == Header(r, r.doc.w, r.doc.h, r.doc.w * r.doc.h * 4)

Archive(r) == r.kind = "archive" /\ r.doc.readable /\ ArchiveOutput(r).ok
ArchiveHeader(r) == Header(r, ArchiveOutput(r).count, r.index, ArchiveOutput(r).size)

Page(r) ==
  r.kind = "pdf" /\ r.doc.readable /\ r.doc.pages \in 1..PagesMax /\ r.index < r.doc.pages /\ PageFits(r)
PageHeader(r) ==
  LET w == AtLeastOne(PageWidth(r))
      h == AtLeastOne(PageHeight(r))
  IN Header(r, w, h, w * h * 4 + 4)

Mesh(r) == r.kind = "mesh" /\ r.doc.readable /\ r.doc.bytes <= OutputMax
MeshHeader(r) == Header(r, 1, 0, r.doc.bytes)

\* The helper of a session answers with the number of the exchange; the caller's own
\* room it does not know.
Model(r) == r.kind = "model" /\ r.doc.readable /\ r.doc.bytes <= OutputMax
ModelHeader(r, seq) == Header(r, r.op, seq, r.doc.bytes)

Decodes(r) == Picture(r) \/ Formula(r) \/ Archive(r) \/ Page(r) \/ Mesh(r) \/ Model(r)

AnswerHead(r, seq) ==
  CASE r.kind = "image" -> PictureHeader(r)
    [] r.kind = "math" -> FormulaHeader(r)
    [] r.kind = "archive" -> ArchiveHeader(r)
    [] r.kind = "pdf" -> PageHeader(r)
    [] r.kind = "mesh" -> MeshHeader(r)
    [] r.kind = "model" -> ModelHeader(r, seq)

-----------------------------------------------------------------------------
(* What the application takes.                                             *)

CapOf(r) == IF r.kind \in {"archive", "pdf", "mesh"} THEN OutputMax ELSE r.cap

ModelAnyFits(r, seq, h) ==  \* mutant: the sequence number of a reply is not checked
  h.a = r.op /\ h.bytes <= CapOf(r)
\* A reply of a session carries the number of its exchange.
ModelFits(r, seq, h) == h.a = r.op /\ h.b = seq /\ h.bytes <= CapOf(r)

\* An entry of a list has at least a name of one byte: 17 bytes.
ArchiveFits(r, h) ==
  /\ h.bytes <= CapOf(r)
  /\ IF r.op = List
     THEN h.a <= CountMax /\ h.b = 0 /\ h.a * 17 <= h.bytes /\ (h.a = 0 => h.bytes = 0)
     ELSE h.a = 0 /\ h.b = r.index

PictureFits(r, h) ==
  LET pdf == r.kind = "pdf" IN
  /\ h.a \in 1..r.dim /\ h.b \in 1..(IF pdf THEN DimMax ELSE r.dim)
  /\ pdf /\ r.target > 0 => h.b <= r.target
  /\ h.a * h.b * 4 <= CapOf(r)
  /\ h.a * h.b * 4 + (IF pdf THEN 4 ELSE 0) = h.bytes

HeaderFits(r, seq, h) ==
  /\ h.kind = r.kind
  /\ \/ r.kind = "mesh" /\ h.a = 1 /\ h.b = 0 /\ h.bytes <= CapOf(r)
     \/ r.kind = "model" /\ ModelFits(r, seq, h)
     \/ r.kind = "archive" /\ ArchiveFits(r, h)
     \/ r.kind \in {"image", "math", "pdf"} /\ PictureFits(r, h)

PagesFit(r, pages) == pages # None /\ pages \in 1..PagesMax /\ r.index < pages

\* What a caller relies on: the picture fills its buffer and the box it was asked for,
\* the payload fits the caller's memory, the page exists.
Allowed(r, reply) ==
  LET h == reply.head IN
  /\ BodySize(h) <= CapOf(r)
  /\ r.kind \in {"image", "math", "pdf"} => h.a <= r.dim /\ BodySize(h) = h.a * h.b * 4
  /\ r.kind = "pdf" => r.index < reply.pages /\ reply.pages <= PagesMax
=============================================================================
