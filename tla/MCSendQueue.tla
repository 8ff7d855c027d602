----------------------------- MODULE MCSendQueue -----------------------------
(* Small instances of SendQueue: which messages, through which composer.    *)
EXTENDS SendOutbox

CONSTANTS m1, m2, c1, c2

TextKind == [m \in Messages |-> "text"]
GifKind == [m \in Messages |-> "gif"]
ForwardKind == [m \in Messages |-> "forward"]
OneChat == [m \in Messages |-> c1]
=============================================================================
