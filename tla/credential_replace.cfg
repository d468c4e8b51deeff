CONSTANTS
  UserID = {u1}
  CredentialID = {i1, i2}
  Caller = {p1}
  Label = {"w"}
  Secret = {"w"}
  Key = {"service", "account"}
  Value = {"v"}
  Collection = {"default"}
  NoCredential = NoCredential
SPECIFICATION Spec
PROPERTIES
  ReplacesIdentical
