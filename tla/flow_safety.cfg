CONSTANTS
  UserID = {u1, u2}
  SessionID = {s1}
  ApprovalID = {a1, a2}
  Handler = {h1, h2, h3}
  Client = {c1}
  LockTimeout = 1
  ApprovalTimeout = 1
  BufferSize = 2
  NoTime = NoTime
  NoSession = NoSession
  NoRequest = NoRequest
  NoChannel = NoChannel
SYMMETRY Symmetry
SPECIFICATION Spec
INVARIANTS
  TypeOK
  OnePending
  WindowBounded
  UnlockBacked
  ReadBacked
  SingleUse
  OneVerdict
  ApprovedFollowsUnlock
  UnlockNewsBacked
  StreamsArePrivate
  NothingToldTwice
