CONSTANTS
  UserID = {me}
  Me = me
  SessionID = {s1}
  ApprovalID = {a1}
  Task = {t1, t2}
  BufferSize = 2
  MaxListeners = 2
  LockTimeout = 0
  ApprovalTimeout = 1
  Undefined = Undefined
  UndefinedText = UndefinedText
  NoTime = NoTime
  NoSession = NoSession
  NoRequest = NoRequest
SYMMETRY Symmetry
SPECIFICATION Spec
INVARIANTS
  UITypeOK
  SilenceMeansGranted
  LoadingIsPursued
