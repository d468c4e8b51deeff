--------------------------- MODULE CredentialFlow ---------------------------
(***************************************************************************)
(* How credentials are written: the handlers of                           *)
(* wcm/internal/api/credentials.go, called by browsers and by the item    *)
(* and collection objects of the D-Bus proxy (item.go, collection.go).    *)
(*                                                                         *)
(* PUT reads the credential, waits for the request body, merges the two   *)
(* and writes the result.  The proxy adds steps of its own before it: a   *)
(* setter reads the item it is about to write, CreateItem searches for    *)
(* the one to replace.  A call that is between two store operations is in *)
(* call[p], and anything may happen there.                                 *)
(***************************************************************************)
EXTENDS CredentialStore, Naturals, FiniteSets

CONSTANT
    Caller          \* client calls that may be under way at once

VARIABLE call       \* where each call is, with its local variables

vars == <<credentials, drawn, call>>

----------------------------------------------------------------------------
(* Calls under way *)

\* A body has any of the fields: an absent one is a nil pointer.  What a user
\* supplies is the user's own.
Values(u) ==
    [collection : Collection,
     label : Supplied({u}, Label), secret : Supplied({u}, Secret),
     attributes : Attributes]

Body(u) == {[f \in F |-> values[f]] : F \in SUBSET Field, values \in Values(u)}

\* What CreateItem is given.  An empty label has been replaced by a default one.
Item(u) ==
    [label : Supplied({u}, Label \ {""}), secret : Supplied({u}, Secret),
     attributes : Attributes]

Idle == [pc |-> "idle"]

\* The setter of an item, holding a copy of it and the property to change.
Copied(id, copy, change) == [pc |-> "copied", id |-> id, copy |-> copy, change |-> change]

\* CreateItem, having found an item to replace, or about to create one.
Replacing(u, id, item) == [pc |-> "replace", user |-> u, id |-> id, item |-> item]
Creating(u, item)      == [pc |-> "create", user |-> u, item |-> item]

\* PUT, having read the credential; otherwise is where its client goes when it fails.
Putting(id, existing, body, otherwise) ==
    [pc |-> "put", id |-> id, existing |-> existing, body |-> body, otherwise |-> otherwise]

At(p, pc)     == call[p].pc = pc
Goto(p, next) == call' = [call EXCEPT ![p] = next]

\* The fields given, the rest as it was.
Merge(credential, body) ==
    [f \in DOMAIN credential |-> IF f \in DOMAIN body THEN body[f] ELSE credential[f]]

\* Bound of the model: CreateItem is called only while a uuid is left for each call
\* that may come to draw one.
MayCreate(p) ==
    \/ call[p].pc \in {"replace", "create"}
    \/ call[p].pc = "put" /\ call[p].otherwise # Idle

UuidsLeft ==
    Cardinality({p \in Caller : MayCreate(p)}) < Cardinality(CredentialID \ drawn)

----------------------------------------------------------------------------
(* PUT, in two steps *)

\* Get.  404 sends the client to otherwise.
ReadForUpdate(p, u, id, body, otherwise) ==
    Goto(p, IF Has(u, id) THEN Putting(id, credentials[id], body, otherwise) ELSE otherwise)

UpdateCredential(p, u, id, body) ==
    /\ At(p, "idle")
    /\ ReadForUpdate(p, u, id, body, Idle)
    /\ UNCHANGED <<credentials, drawn>>

\* Mutation: the client takes a 500 for success.
WriteUpdate_IgnoresFailure(p) ==
    /\ At(p, "put")
    /\ Update(call[p].id, Merge(call[p].existing, call[p].body))
    /\ Goto(p, Idle)

\* Update.  500 sends the client to otherwise.
WriteUpdate(p) ==
    /\ At(p, "put")
    /\ LET updated == Merge(call[p].existing, call[p].body) IN
        /\ Update(call[p].id, updated)
        /\ Goto(p, IF Has(updated.user, call[p].id) THEN Idle ELSE call[p].otherwise)

\* 400: the body does not arrive, or does not parse.
RejectBody(p) ==
    /\ At(p, "put")
    /\ Goto(p, call[p].otherwise)
    /\ UNCHANGED <<credentials, drawn>>

\* The client hears nothing for 30 seconds and goes to otherwise, while the handler
\* it has called runs on, as q.
TimeOut(p, q) ==
    /\ At(p, "put") /\ call[p].otherwise # Idle
    /\ At(q, "idle")
    /\ call' = [call EXCEPT ![p] = call[p].otherwise, ![q] = [call[p] EXCEPT !.otherwise = Idle]]
    /\ UNCHANGED <<credentials, drawn>>

----------------------------------------------------------------------------
(* The other handlers: one store operation each *)

\* 400 without a label or a secret.
CreateCredential(u) ==
    /\ UuidsLeft
    /\ \E id \in CredentialID, values \in Values(u) :
        /\ values.label.word # "" /\ values.secret.word # ""
        /\ Create(id, [user |-> u, collection |-> values.collection, label |-> values.label,
                       secret |-> values.secret, attributes |-> values.attributes])
    /\ UNCHANGED call

\* DELETE, also by an item's Delete.
DeleteCredential(u, id) == Delete(u, id) /\ UNCHANGED call

----------------------------------------------------------------------------
(* The proxy's items *)

\* SetSecret, and Set of Label or Attributes: a copy is taken ...
CopyItem(p, u, id) ==
    /\ At(p, "idle")
    /\ Has(u, id)
    /\ \E f \in Field \ {"collection"}, values \in Values(u) :
            Goto(p, Copied(id, credentials[id], [x \in {f} |-> values[x]]))
    /\ UNCHANGED <<credentials, drawn>>

\* ... and all three fields are written back, changed or not.
SetItem(p) ==
    /\ At(p, "copied")
    /\ LET item == Merge(call[p].copy, call[p].change) IN
            ReadForUpdate(p, item.user, call[p].id,
                          [f \in Field \ {"collection"} |-> item[f]], Idle)
    /\ UNCHANGED <<credentials, drawn>>

\* The query string holds the collection and the attributes, in this order, so that
\* an attribute called "collection" takes the place of the collection.
QueryCollection(attributes) ==
    IF "collection" \in DOMAIN attributes THEN attributes["collection"] ELSE "default"

QueryAttributes(attributes) ==
    [k \in DOMAIN attributes \ {"collection"} |-> attributes[k]]

Found(u, attributes) == Search(u, QueryCollection(attributes), QueryAttributes(attributes))

\* With replace, the first item found is to be replaced; the order is that of a map.
\* A search that fails counts as one that finds nothing.
CreateItem(p, u) ==
    /\ At(p, "idle")
    /\ UuidsLeft
    /\ \E item \in Item(u) :
        \/ Goto(p, Creating(u, item))
        \/ /\ DOMAIN item.attributes # {}
           /\ \E id \in Found(u, item.attributes) : Goto(p, Replacing(u, id, item))
    /\ UNCHANGED <<credentials, drawn>>

ReplaceItem(p) ==
    /\ At(p, "replace")
    /\ ReadForUpdate(p, call[p].user, call[p].id, call[p].item,
                     Creating(call[p].user, call[p].item))
    /\ UNCHANGED <<credentials, drawn>>

\* 400 without a secret.
StoreItem(p) ==
    /\ At(p, "create")
    /\ LET item == call[p].item IN
        \/ /\ item.secret.word # ""
           /\ \E id \in CredentialID :
                Create(id, [user |-> call[p].user, collection |-> "default", label |-> item.label,
                            secret |-> item.secret, attributes |-> item.attributes])
        \/ item.secret.word = "" /\ UNCHANGED <<credentials, drawn>>
    /\ Goto(p, Idle)

----------------------------------------------------------------------------
Init ==
    /\ StoreInit
    /\ call = [p \in Caller |-> Idle]

Next ==
    \/ \E u \in UserID :
        \/ CreateCredential(u)
        \/ \E id \in CredentialID : DeleteCredential(u, id)
        \/ \E p \in Caller :
            \/ CreateItem(p, u)
            \/ \E id \in CredentialID :
                CopyItem(p, u, id) \/ \E body \in Body(u) : UpdateCredential(p, u, id, body)
    \/ \E p \in Caller :
        \/ WriteUpdate(p)
        \/ RejectBody(p)
        \/ SetItem(p)
        \/ ReplaceItem(p)
        \/ StoreItem(p)
        \/ \E q \in Caller : TimeOut(p, q)

Spec == Init /\ [][Next]_vars

----------------------------------------------------------------------------
(* Properties *)

\* No label or secret that a user supplied ever shows up in another user's credential,
\* whichever copies, searches and merges it went through on the way.
ValuesStayHome ==
    \A id \in Stored :
        /\ credentials[id].label.by = credentials[id].user
        /\ credentials[id].secret.by = credentials[id].user

\* A deleted credential does not come back, not even by an update that had read it
\* before it was deleted.
DeletedStaysDeleted ==
    [][\A id \in drawn : id \notin Stored => id \notin Stored']_vars

\* What a CreateItem under way is to store.
ToStore(p) ==
    IF At(p, "create") THEN {call[p].item}
    ELSE IF At(p, "put") /\ call[p].otherwise # Idle THEN {call[p].body} ELSE {}

\* A CreateItem that ends has stored its item, in the place of another one or of its
\* own, also when the one it was to replace went away on the way: it never reports
\* an item that holds something else.  (400 for an empty secret is an error.)
CreateItemDelivers ==
    [][\A p \in Caller : At(p, "idle")' =>
        \A item \in ToStore(p) : item.secret.word # "" =>
            \E id \in Stored' : \A f \in DOMAIN item : credentials'[id][f] = item[f]]_vars

\* docs/api-spec.md on PUT: "all fields optional - only provided fields are updated".
OnlyProvidedFields ==
    [][\A p \in Caller :
        At(p, "put") /\ At(p, "idle")' /\ call[p].id \in Stored =>
            \A f \in Field \ DOMAIN call[p].body :
                credentials'[call[p].id][f] = credentials[call[p].id][f]]_vars

\* collection.go on CreateItem: "When replace is true and an item with identical
\* attributes already exists, it is updated."
ReplacesIdentical ==
    [][\A p \in Caller :
        At(p, "idle") /\ At(p, "replace")' =>
            credentials[call'[p].id].attributes = call'[p].item.attributes]_vars
=============================================================================
