-------------------------------- MODULE Outbox --------------------------------
(***************************************************************************)
(* What the send pipeline promises, without rows, workers, mailboxes or    *)
(* frames: a part of a message is accepted once and held until the group   *)
(* has it or the user withdrew it; a restart keeps exactly what is stored; *)
(* what is no longer held is never sent again.                             *)
(***************************************************************************)
CONSTANTS Items, Torn  \* Torn: may a crash destroy the stored queue?

VARIABLES
  seen,       \* parts accepted so far
  held,       \* parts the outbox still answers for
  stored,     \* those among them that survive a restart
  withdrawn,  \* parts the user deleted
  sent        \* parts the group has received

vars == <<seen, held, stored, withdrawn, sent>>

Init == seen = {} /\ held = {} /\ stored = {} /\ withdrawn = {} /\ sent = {}

Accept(i) ==
  /\ i \notin seen
  /\ seen' = seen \cup {i}
  /\ held' = held \cup {i}
  /\ UNCHANGED <<stored, withdrawn, sent>>

Deliver(i) ==
  /\ i \in held
  /\ sent' = sent \cup {i}
  /\ UNCHANGED <<seen, held, stored, withdrawn>>

Withdraw(i) ==
  /\ i \in held
  /\ withdrawn' = withdrawn \cup {i}
  /\ UNCHANGED <<seen, sent>>

\* Only what was delivered or withdrawn is let go, and nothing withdrawn is stored.
Save ==
  /\ held' \subseteq held
  /\ held \ held' \subseteq sent \cup withdrawn'
  /\ stored' \subseteq held' \ withdrawn'

Update == Save /\ UNCHANGED <<seen, withdrawn, sent>>

Restart ==
  /\ stored' = stored \/ (Torn /\ stored' = {})
  /\ held' = stored'
  /\ UNCHANGED <<seen, withdrawn, sent>>

Next ==
  \/ \E i \in Items : Accept(i) \/ Deliver(i) \/ (Withdraw(i) /\ Save)
  \/ Update
  \/ Restart

Spec == Init /\ [][Next]_vars
=============================================================================
