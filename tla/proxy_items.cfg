CONSTANTS
  UserID = {u1}
  CredentialID = {i1, i2}
  OwnerEmail = u1
  Call = {p1, p2, p3}
  MaxSessions = 2
  Label = {"w"}
  Secret = {"w"}
  Key = {"service"}
  Value = {"v"}
  Collection = {"default"}
  NoCredential = NoCredential
SYMMETRY Symmetry
SPECIFICATION Spec
INVARIANTS
  ObjectsTypeOK
  ReturnedPathsWork
  RecordMatchesBus
  SessionsAreDistinct
