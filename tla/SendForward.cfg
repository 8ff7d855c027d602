\* A forward that may split into caption and attachments, across a restart that may tear
\* the queue file; the outbox of Outbox.tla.
CONSTANTS
  m1 = m1
  m2 = m2
  c1 = c1
  c2 = c2
  NoAccount = NoAccount
  NoChat = NoChat
  Messages = {m1}
  Accounts = {a1}
  Chats = {c1, c2}
  Kind <- ForwardKind
  Chat <- OneChat
  MaxAttempts = 2
  MaxRestarts = 1
  TornWrites = TRUE
SPECIFICATION Spec
ACTION_CONSTRAINT StaysSignedIn
INVARIANTS
  NothingVanishes
PROPERTIES
  ConfirmsWholeForward
  ImplementsOutbox
