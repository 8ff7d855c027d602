------------------------------ MODULE SendOutbox ------------------------------
(***************************************************************************)
(* The send pipeline implements the outbox while an account stays signed   *)
(* in.  (A session started without any account does not load the queue     *)
(* file, and its first save overwrites what is in there.)                  *)
(***************************************************************************)
EXTENDS SendQueue

\* A part is held while it has a row or an entry in the queue file: a delivered
\* part whose file was not rewritten yet may still come back after a crash.
stored == {i \in Items : OnDisk(i)}
held == pend \cup stored
seen == {i \in Items : ghost.author[i[1]] # NoAccount /\ (i[2] = "text" => i[1] \in ghost.split)}
sent == {i \in Items : \E p \in published : p[1] = i}

Abstract == INSTANCE Outbox WITH Torn <- TornWrites, withdrawn <- ghost.deleted

\* The steps the refinement is about (an action constraint of its run).
StaysSignedIn == account' # NoAccount

\* Every step of rows, workers, frames and sessions is a step of the outbox, or none:
\* no row leaves without a delivery or a deletion, a restart brings back the stored
\* parts and no others, and nothing that left is held, or sent, again.
ImplementsOutbox == Abstract!Spec
=============================================================================
