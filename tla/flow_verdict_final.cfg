CONSTANTS
  UserID = {u1}
  SessionID = {s1}
  ApprovalID = {a1}
  Handler = {h1}
  Client = {}
  LockTimeout = 1
  ApprovalTimeout = 1
  BufferSize = 1
  NoTime = NoTime
  NoSession = NoSession
  NoRequest = NoRequest
  NoChannel = NoChannel
SPECIFICATION Spec
PROPERTIES
  VerdictIsFinal
