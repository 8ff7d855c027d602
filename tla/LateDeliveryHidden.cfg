\* The code does not keep LateDeliveryHidden.
CONSTANTS
  m1 = m1
  m2 = m2
  c1 = c1
  c2 = c2
  NoAccount = NoAccount
  NoChat = NoChat
  Messages = {m1, m2}
  Accounts = {a1}
  Chats = {c1}
  Kind <- TextKind
  Chat <- OneChat
  MaxAttempts = 2
  MaxRestarts = 1
  TornWrites = TRUE
SPECIFICATION Spec
PROPERTIES
  LateDeliveryHidden
