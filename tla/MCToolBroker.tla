---- MODULE MCToolBroker ----
EXTENDS ToolBroker, TLC

CONSTANTS c1, c2

\* Either use may be a dialog; one may download instead, the other notify.
MCKinds == c1 :> {"curl", "dialog"} @@ c2 :> {"notify", "dialog"}
MCOutput == c1 :> 2 @@ c2 :> 0
====
