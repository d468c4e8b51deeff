-------------------------- MODULE CredentialStore --------------------------
(***************************************************************************)
(* The credentials of the WCM (wcm/internal/store/memory.go).  Every      *)
(* method of MemoryStore runs under its mutex and the record it stores    *)
(* replaces the one that was there, so every method is one action, and    *)
(* what Get and Search return is a copy.                                   *)
(*                                                                         *)
(* A label or a secret is a word, and remembers who supplied it.  The     *)
(* time stamps are left out: nothing decides by them.                      *)
(***************************************************************************)
CONSTANTS
    UserID,         \* the users of the WCM
    CredentialID,   \* the uuids credentials may draw
    Label,          \* what labels may say, "" for one
    Secret,         \* what secrets may say
    Key,            \* the names of attributes
    Value,          \* the values of attributes
    Collection,     \* the names of collections
    NoCredential    \* a key the credentials map does not hold

VARIABLES
    credentials,    \* MemoryStore.credentials
    drawn           \* the uuids that have been drawn: uuid.NewString repeats none

\* Words as they are stored, with who supplied them.
Supplied(U, words) == [by : U, word : words]

Attributes == UNION {[K -> Value] : K \in SUBSET Key}

Credential ==
    [user : UserID, collection : Collection,
     label : Supplied(UserID, Label), secret : Supplied(UserID, Secret),
     attributes : Attributes]

\* The fields a client may write.
Field == {"collection", "label", "secret", "attributes"}

ASSUME NoCredentialAssumption == NoCredential \notin Credential

\* The collection that is used when none is named.
ASSUME DefaultAssumption == "default" \in Collection

StoreTypeOK ==
    /\ credentials \in [CredentialID -> Credential \cup {NoCredential}]
    /\ drawn \subseteq CredentialID
    /\ \A id \in CredentialID : credentials[id] # NoCredential => id \in drawn

Stored == {id \in CredentialID : credentials[id] # NoCredential}

----------------------------------------------------------------------------
\* Mutation: the owner is not compared.
Has_AnyUser(u, id) == id \in Stored

\* The test of Get, Update and Delete.
Has(u, id) == id \in Stored /\ credentials[id].user = u

\* A key that is missing reads as the empty string.
Lookup(attributes, k) == IF k \in DOMAIN attributes THEN attributes[k] ELSE ""

Matches(credential, wanted) ==
    \A k \in DOMAIN wanted : Lookup(credential.attributes, k) = wanted[k]

Search(u, collection, wanted) ==
    {id \in Stored :
        /\ credentials[id].user = u
        /\ collection = "" \/ credentials[id].collection = collection
        /\ Matches(credentials[id], wanted)}

\* The uuid is new, and the empty collection name stands for "default".
Create(id, credential) ==
    /\ id \notin drawn
    /\ drawn' = drawn \cup {id}
    /\ credentials' = [credentials EXCEPT ![id] =
            IF credential.collection = ""
            THEN [credential EXCEPT !.collection = "default"]
            ELSE credential]

\* Mutation: an upsert, the credential need not be there.
Update_Upserts(id, credential) ==
    /\ credentials' = [credentials EXCEPT ![id] = credential]
    /\ UNCHANGED drawn

\* Without effect ("not found") unless the credential is there, the same user's.
Update(id, credential) ==
    /\ credentials' =
        IF Has(credential.user, id) THEN [credentials EXCEPT ![id] = credential]
        ELSE credentials
    /\ UNCHANGED drawn

\* Mutation: the record is emptied, its key stays in the map.
Delete_LeavesKey(u, id) ==
    /\ credentials' =
        IF Has(u, id) THEN [credentials EXCEPT ![id] = [user |-> u]] ELSE credentials
    /\ UNCHANGED drawn

\* Without effect ("not found") for another user's credential.
Delete(u, id) ==
    /\ credentials' =
        IF Has(u, id) THEN [credentials EXCEPT ![id] = NoCredential] ELSE credentials
    /\ UNCHANGED drawn

StoreInit ==
    /\ credentials = [id \in CredentialID |-> NoCredential]
    /\ drawn = {}
=============================================================================
