\* Two passwords and three salts (a vault and two changes), two secrets with two values, two
\* sealed files, a development build.  The process may end for good: a window closed at the last
\* restart is not reopened.
CONSTANTS
  None = None
  Revoked = Revoked
  Unknown = Unknown
  Passwords = {p1, p2}
  Salts = {s1, s2, s3}
  Names = {n1, n2}
  Values = {v1, v2}
  Blobs = {b1, b2}
  DevBuild = TRUE
  MaxRestarts = 2
SPECIFICATION Spec
SYMMETRY Symmetry
INVARIANTS
  Inv
  AcknowledgedIsOnDisk
  OpensWithKnownPassword
  LockHolds
CHECK_DEADLOCK FALSE
