--------------------------- MODULE MCHelperBroker ---------------------------
(* A small instance of HelperBroker: font probes are allowed, decoders are not. *)
EXTENDS HelperBroker

MCAllowed == {{"font"}}
MCRequests == {[kind |-> k, args |-> 1, stdin |-> TRUE] : k \in {"font", "decoder"}}
=============================================================================
