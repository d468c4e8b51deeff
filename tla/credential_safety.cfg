CONSTANTS
  UserID = {u1, u2}
  CredentialID = {i1, i2}
  Caller = {p1, p2}
  Label = {"w"}
  Secret = {"", "w"}
  Key = {"service"}
  Value = {"v"}
  Collection = {"default"}
  NoCredential = NoCredential
SYMMETRY Symmetry
SPECIFICATION Spec
INVARIANTS
  StoreTypeOK
  ValuesStayHome
PROPERTIES
  DeletedStaysDeleted
  CreateItemDelivers
