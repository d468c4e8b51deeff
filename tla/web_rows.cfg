CONSTANTS
  UserID = {me}
  Me = me
  SessionID = {s1}
  ApprovalID = {a1}
  Task = {t1, t2}
  BufferSize = 1
  MaxListeners = 2
  LockTimeout = 1
  ApprovalTimeout = 1
  Undefined = Undefined
  UndefinedText = UndefinedText
  NoTime = NoTime
  NoSession = NoSession
  NoRequest = NoRequest
SPECIFICATION Spec
PROPERTIES
  RowsGoAway
