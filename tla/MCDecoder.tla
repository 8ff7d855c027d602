----------------------------- MODULE MCDecoder -----------------------------
(* Small instances of Decoder.                                               *)
EXTENDS Decoder

Paper(w, h, pages) == [w |-> w, h |-> h, pages |-> pages, readable |-> TRUE, entries |-> <<>>, bytes |-> 0]
Bytes(n) == [Paper(0, 0, 0) EXCEPT !.bytes = n]
Entry(regular, name, declared, size) == [regular |-> regular, name |-> name, declared |-> declared, size |-> size]
Files == [Paper(0, 0, 0) EXCEPT !.entries = <<Entry(TRUE, 1, 3, 3), Entry(FALSE, 1, 0, 0), Entry(TRUE, 2, -1, 20)>>]

Request(kind, size, doc) ==
  [size |-> size, kind |-> kind, doc |-> doc, dim |-> 3, cap |-> 24, target |-> 0, op |-> 0, index |-> 0]

MCRequests ==
  { Request("image", 17, Paper(3, 2, 0)),                          \* two pieces each way
    Request("image", 0, Paper(1, 1, 0)),                           \* refused
    Request("image", 1, Paper(3, 3, 0)),                           \* more bytes than wanted
    Request("math", 1, Paper(1, 1, 0)),
    Request("archive", 16, Files),
    [Request("archive", 16, Files) EXCEPT !.op = 1, !.index = 2],
    [Request("archive", 16, Files) EXCEPT !.op = 1, !.index = 1],   \* not a regular file
    [Request("archive", 16, Files) EXCEPT !.index = 2],             \* refused
    [Request("pdf", 1, Paper(2, 3, 2)) EXCEPT !.target = 2, !.index = 1],
    [Request("pdf", 1, Paper(2, 1, 1)) EXCEPT !.index = 1],        \* no such page
    [Request("mesh", 1, Bytes(17)) EXCEPT !.op = 1],
    Request("model", 17, Bytes(17)),
    [Request("model", 12, Bytes(16)) EXCEPT !.op = 1],
    [Request("model", 12, Bytes(30)) EXCEPT !.op = 1],            \* more than the caller has room for
    Request("model", 99, Bytes(0)) }                              \* refused

MCHeads ==
  { [bytes |-> 4, kind |-> "image", a |-> 1, b |-> 2],
    [bytes |-> 16, kind |-> "image", a |-> 4, b |-> 1],
    [bytes |-> 16, kind |-> "pdf", a |-> 1, b |-> 3],
    [bytes |-> 0, kind |-> "archive", a |-> 1, b |-> 0],
    [bytes |-> 17, kind |-> "model", a |-> 1, b |-> 1] }

MCFaults == {{}, Faults}
=============================================================================
