\* A GIF that is prepared before it is sent, two accounts and two
\* chats to switch between.
CONSTANTS
  m1 = m1
  m2 = m2
  c1 = c1
  c2 = c2
  NoAccount = NoAccount
  NoChat = NoChat
  Messages = {m1}
  Accounts = {a1, a2}
  Chats = {c1, c2}
  Kind <- GifKind
  Chat <- OneChat
  MaxAttempts = 2
  MaxRestarts = 2
  TornWrites = FALSE
SPECIFICATION FairSpec
INVARIANTS
  Inv
  PinnedSender
PROPERTIES
  NoSendAfterDelete
  RowsSettle
