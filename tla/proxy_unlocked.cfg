CONSTANTS
  UserID = {u1}
  SessionID = {s1}
  ApprovalID = {a1}
  OwnerEmail = u1
  ProxySession = s1
  Thread = {t1, t2}
  Prompt = {k1}
  Item = {i1}
  NoPrompt = NoPrompt
  LockTimeout = 1
  ApprovalTimeout = 1
  PollTimeout = 1
  NoTime = NoTime
  NoSession = NoSession
  NoRequest = NoRequest
SPECIFICATION Spec
PROPERTIES
  BlocksUntilUnlocked
