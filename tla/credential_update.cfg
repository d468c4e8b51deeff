CONSTANTS
  UserID = {u1}
  CredentialID = {i1}
  Caller = {p1, p2}
  Label = {"w"}
  Secret = {"", "w"}
  Key = {}
  Value = {}
  Collection = {"default"}
  NoCredential = NoCredential
SPECIFICATION Spec
PROPERTIES
  OnlyProvidedFields
