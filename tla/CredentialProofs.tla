-------------------------- MODULE CredentialProofs --------------------------
(***************************************************************************)
(* Credentials keep their types and their owner's values, and what is     *)
(* deleted stays deleted, whatever the users, the words and the callers.  *)
(*                                                                         *)
(* Values move through copies, bodies and merges.  The invariant follows  *)
(* them: whatever a call holds for a credential was supplied by the owner *)
(* of that credential.                                                     *)
(***************************************************************************)
EXTENDS CredentialFlow, TLAPS

\* The credentials of user u, with nobody else's words in them.
Own(u) ==
    [user : {u}, collection : Collection,
     label : Supplied({u}, Label), secret : Supplied({u}, Secret),
     attributes : Attributes]

IsOwn(credential) == \E u \in UserID : credential \in Own(u)

\* Fields to be written to a credential of u's.
BodyOf(u, body) ==
    /\ DOMAIN body \subseteq Field
    /\ "collection" \in DOMAIN body => body["collection"] \in Collection
    /\ "label" \in DOMAIN body => body["label"] \in Supplied({u}, Label)
    /\ "secret" \in DOMAIN body => body["secret"] \in Supplied({u}, Secret)
    /\ "attributes" \in DOMAIN body => body["attributes"] \in Attributes

\* What a call may have left to do, when its PUT fails.
FallbackOK(c) == c = Idle \/ \E u \in UserID : \E item \in Item(u) : c = Creating(u, item)

CopiedOK(c) ==
    /\ c.pc = "copied" /\ c = Copied(c.id, c.copy, c.change)
    /\ c.id \in CredentialID
    /\ \E u \in UserID : c.copy \in Own(u) /\ BodyOf(u, c.change)

ReplacingOK(c) ==
    /\ c.pc = "replace" /\ c = Replacing(c.user, c.id, c.item)
    /\ c.user \in UserID /\ c.id \in CredentialID /\ c.item \in Item(c.user)

PuttingOK(c) ==
    /\ c.pc = "put" /\ c = Putting(c.id, c.existing, c.body, c.otherwise)
    /\ c.id \in CredentialID /\ FallbackOK(c.otherwise)
    /\ \E u \in UserID : c.existing \in Own(u) /\ BodyOf(u, c.body)

CallOK(c) == FallbackOK(c) \/ CopiedOK(c) \/ ReplacingOK(c) \/ PuttingOK(c)

CallsOK ==
    /\ call = [p \in Caller |-> call[p]]
    /\ \A p \in Caller : CallOK(call[p])

StoreOK ==
    /\ credentials = [id \in CredentialID |-> credentials[id]]
    /\ \A id \in CredentialID : credentials[id] = NoCredential \/ IsOwn(credentials[id])
    /\ drawn \subseteq CredentialID
    /\ \A id \in CredentialID : credentials[id] # NoCredential => id \in drawn

CredentialInv == StoreOK /\ CallsOK

----------------------------------------------------------------------------
(* The values *)

LEMMA OwnIsCredential ==
    ASSUME NEW c, IsOwn(c)
    PROVE  /\ c \in Credential /\ c # NoCredential
           /\ c.user \in UserID /\ c \in Own(c.user)
           /\ c.label.by = c.user /\ c.secret.by = c.user
BY NoCredentialAssumption DEF IsOwn, Own, Credential, Supplied

LEMMA StoreOKImplies == StoreOK => StoreTypeOK /\ ValuesStayHome
<1> SUFFICES ASSUME StoreOK PROVE StoreTypeOK /\ ValuesStayHome
    OBVIOUS
<1>1. \A id \in CredentialID : credentials[id] \in Credential \cup {NoCredential}
    BY OwnIsCredential DEF StoreOK
<1>2. credentials \in [CredentialID -> Credential \cup {NoCredential}]
    BY <1>1 DEF StoreOK
<1>3. ValuesStayHome
    BY OwnIsCredential DEF StoreOK, ValuesStayHome, Stored
<1> QED BY <1>2, <1>3 DEF StoreOK, StoreTypeOK

\* A merge of a user's values into the user's credential is the user's credential.
LEMMA MergeIsOwn ==
    ASSUME NEW u \in UserID, NEW c \in Own(u), NEW body, BodyOf(u, body)
    PROVE  Merge(c, body) \in Own(u)
<1> DEFINE F == {"user", "collection", "label", "secret", "attributes"}
           m == Merge(c, body)
<1>1. DOMAIN c = F
    BY DEF Own
<1>2. /\ m["user"] = u /\ m["collection"] \in Collection
      /\ m["label"] \in Supplied({u}, Label) /\ m["secret"] \in Supplied({u}, Secret)
      /\ m["attributes"] \in Attributes
    BY <1>1 DEF Merge, Own, BodyOf, Field
<1>3. m = [user |-> m["user"], collection |-> m["collection"], label |-> m["label"],
           secret |-> m["secret"], attributes |-> m["attributes"]]
    BY <1>1 DEF Merge
<1> HIDE DEF m
<1>4. m \in Own(u)
    BY <1>2, <1>3 DEF Own
<1> QED BY <1>4 DEF m

----------------------------------------------------------------------------
(* The store *)

LEMMA CreateKeepsStore ==
    ASSUME StoreOK, NEW id \in CredentialID, NEW c, IsOwn(c), Create(id, c)
    PROVE  StoreOK'
<1>1. [c EXCEPT !.collection = "default"] \in Own(c.user)
    BY OwnIsCredential, DefaultAssumption DEF Own
<1>2. IsOwn(credentials'[id])
    BY <1>1, OwnIsCredential DEF Create, StoreOK, IsOwn
<1>3. \A i \in CredentialID : i # id => credentials'[i] = credentials[i]
    BY DEF Create, StoreOK
<1>4. credentials' = [i \in CredentialID |-> credentials'[i]]
    BY DEF Create, StoreOK
<1> QED BY <1>2, <1>3, <1>4 DEF Create, StoreOK

LEMMA UpdateKeepsStore ==
    ASSUME StoreOK, NEW id \in CredentialID, NEW c, IsOwn(c), Update(id, c)
    PROVE  StoreOK'
BY DEF Update, Has, Stored, StoreOK

LEMMA DeleteKeepsStore ==
    ASSUME StoreOK, NEW id \in CredentialID, NEW u, Delete(u, id)
    PROVE  StoreOK'
BY DEF Delete, StoreOK

LEMMA UntouchedStore ==
    ASSUME StoreOK, UNCHANGED <<credentials, drawn>>
    PROVE  StoreOK'
BY DEF StoreOK

\* What the store's test lets through is the user's own.
LEMMA HasOwn ==
    ASSUME StoreOK, NEW u, NEW id, Has(u, id)
    PROVE  id \in CredentialID /\ u \in UserID /\ credentials[id] \in Own(u)
BY OwnIsCredential DEF Has, Stored, StoreOK

----------------------------------------------------------------------------
(* The calls *)

LEMMA GotoKeepsCalls ==
    ASSUME CallsOK, NEW p \in Caller, NEW next, CallOK(next), Goto(p, next)
    PROVE  CallsOK'
<1>1. \A q \in Caller : call'[q] = IF q = p THEN next ELSE call[q]
    BY DEF Goto, CallsOK
<1>2. call' = [q \in Caller |-> call'[q]]
    BY DEF Goto, CallsOK
<1> QED BY <1>1, <1>2 DEF CallsOK

LEMMA UntouchedCalls ==
    ASSUME CallsOK, UNCHANGED call
    PROVE  CallsOK'
BY DEF CallsOK

\* A call is what its pc says.
LEMMA CallFields ==
    ASSUME CallsOK, NEW p \in Caller
    PROVE  /\ At(p, "put") => PuttingOK(call[p])
           /\ At(p, "copied") => CopiedOK(call[p])
           /\ At(p, "replace") => ReplacingOK(call[p])
           /\ At(p, "create") =>
                \E u \in UserID : \E item \in Item(u) : call[p] = Creating(u, item)
BY DEF CallsOK, CallOK, FallbackOK, CopiedOK, ReplacingOK, PuttingOK,
       At, Idle, Copied, Replacing, Creating, Putting

LEMMA CreatingFields ==
    ASSUME CallsOK, NEW p \in Caller, At(p, "create")
    PROVE  call[p].user \in UserID /\ call[p].item \in Item(call[p].user)
<1>1. PICK u \in UserID : \E item \in Item(u) : call[p] = Creating(u, item)
    BY CallFields
<1>2. PICK item \in Item(u) : call[p] = Creating(u, item)
    BY <1>1
<1> QED BY <1>2 DEF Creating

LEMMA IdleIsOK == FallbackOK(Idle) /\ CallOK(Idle)
BY DEF FallbackOK, CallOK

\* Values a user supplies fit any of the user's credentials.
LEMMA ValuesAreOf ==
    ASSUME NEW u \in UserID
    PROVE  /\ \A body \in Body(u) : BodyOf(u, body)
           /\ \A item \in Item(u) : BodyOf(u, item)
           /\ \A values \in Values(u), f \in Field : BodyOf(u, [x \in {f} |-> values[x]])
<1>1. ASSUME NEW body \in Body(u) PROVE BodyOf(u, body)
    <2>1. PICK F \in SUBSET Field, values \in Values(u) : body = [f \in F |-> values[f]]
        BY DEF Body
    <2>2. /\ values["collection"] \in Collection /\ values["label"] \in Supplied({u}, Label)
          /\ values["secret"] \in Supplied({u}, Secret) /\ values["attributes"] \in Attributes
        BY DEF Values
    <2> QED BY <2>1, <2>2 DEF BodyOf
<1>2. ASSUME NEW item \in Item(u) PROVE BodyOf(u, item)
    <2>1. DOMAIN item = {"label", "secret", "attributes"}
        BY DEF Item
    <2>2. item["label"] \in Supplied({u}, Label)
        BY DEF Item, Supplied
    <2>3. item["secret"] \in Supplied({u}, Secret) /\ item["attributes"] \in Attributes
        BY DEF Item
    <2> QED BY <2>1, <2>2, <2>3 DEF BodyOf, Field
<1>3. ASSUME NEW values \in Values(u), NEW f \in Field
      PROVE  BodyOf(u, [x \in {f} |-> values[x]])
    <2>1. /\ values["collection"] \in Collection /\ values["label"] \in Supplied({u}, Label)
          /\ values["secret"] \in Supplied({u}, Secret) /\ values["attributes"] \in Attributes
        BY DEF Values
    <2> QED BY <2>1 DEF BodyOf
<1> QED BY <1>1, <1>2, <1>3

LEMMA ReadKeepsCalls ==
    ASSUME CredentialInv, NEW p \in Caller, NEW u \in UserID, NEW id \in CredentialID,
           NEW body, BodyOf(u, body), NEW otherwise, FallbackOK(otherwise),
           ReadForUpdate(p, u, id, body, otherwise)
    PROVE  CallsOK'
<1>1. CASE Has(u, id)
    <2>1. PuttingOK(Putting(id, credentials[id], body, otherwise))
        BY <1>1, HasOwn DEF CredentialInv, PuttingOK, Putting
    <2> QED BY <1>1, <2>1, GotoKeepsCalls DEF ReadForUpdate, CallOK, CredentialInv
<1>2. CASE ~ Has(u, id)
    BY <1>2, GotoKeepsCalls DEF ReadForUpdate, CallOK, CredentialInv
<1> QED BY <1>1, <1>2

----------------------------------------------------------------------------
(* The steps *)

LEMMA UpdateCredentialKeeps ==
    ASSUME CredentialInv, NEW p \in Caller, NEW u \in UserID, NEW id \in CredentialID,
           NEW body \in Body(u), UpdateCredential(p, u, id, body)
    PROVE  CredentialInv'
<1>1. BodyOf(u, body)
    BY ValuesAreOf
<1>2. ReadForUpdate(p, u, id, body, Idle)
    BY DEF UpdateCredential
<1>3. CallsOK'
    BY <1>1, <1>2, IdleIsOK, ReadKeepsCalls
<1> QED BY <1>3, UntouchedStore DEF UpdateCredential, CredentialInv

LEMMA WriteUpdateKeeps ==
    ASSUME CredentialInv, NEW p \in Caller, WriteUpdate(p)
    PROVE  CredentialInv'
<1> DEFINE updated == Merge(call[p].existing, call[p].body)
<1>1. PuttingOK(call[p])
    BY CallFields DEF WriteUpdate, CredentialInv
<1>2. IsOwn(updated)
    BY <1>1, MergeIsOwn DEF PuttingOK, IsOwn
<1>3. Update(call[p].id, updated)
    BY DEF WriteUpdate
<1>4. PICK next \in {Idle, call[p].otherwise} : Goto(p, next)
    BY DEF WriteUpdate
<1> HIDE DEF updated
<1>5. StoreOK'
    BY <1>1, <1>2, <1>3, UpdateKeepsStore DEF CredentialInv, PuttingOK
<1>6. CallOK(next)
    BY <1>1, <1>4, IdleIsOK DEF PuttingOK, CallOK
<1>7. CallsOK'
    BY <1>4, <1>6, GotoKeepsCalls DEF CredentialInv
<1> QED BY <1>5, <1>7 DEF CredentialInv

LEMMA RejectBodyKeeps ==
    ASSUME CredentialInv, NEW p \in Caller, RejectBody(p)
    PROVE  CredentialInv'
<1>1. PuttingOK(call[p])
    BY CallFields DEF RejectBody, CredentialInv
<1>2. CallOK(call[p].otherwise)
    BY <1>1 DEF PuttingOK, CallOK
<1>3. CallsOK'
    BY <1>2, GotoKeepsCalls DEF RejectBody, CredentialInv
<1> QED BY <1>3, UntouchedStore DEF RejectBody, CredentialInv

LEMMA TimeOutKeeps ==
    ASSUME CredentialInv, NEW p \in Caller, NEW q \in Caller, TimeOut(p, q)
    PROVE  CredentialInv'
<1> DEFINE abandoned == [call[p] EXCEPT !.otherwise = Idle]
<1>1. PuttingOK(call[p])
    BY CallFields DEF TimeOut, CredentialInv
<1>2. abandoned = Putting(call[p].id, call[p].existing, call[p].body, Idle)
    BY <1>1 DEF PuttingOK, Putting
<1>3. PuttingOK(abandoned)
    BY <1>1, <1>2, IdleIsOK DEF PuttingOK, Putting
<1>4. CallOK(abandoned) /\ CallOK(call[p].otherwise)
    BY <1>1, <1>3 DEF PuttingOK, CallOK
<1>5. call' = [call EXCEPT ![p] = call[p].otherwise, ![q] = abandoned]
    BY DEF TimeOut
<1> HIDE DEF abandoned
<1>6. call' = [r \in Caller |-> call'[r]]
    BY <1>5 DEF CredentialInv, CallsOK
<1>7. ASSUME NEW r \in Caller PROVE CallOK(call'[r])
    <2>1. call'[r] \in {abandoned, call[p].otherwise, call[r]}
        BY <1>5 DEF CredentialInv, CallsOK
    <2> QED BY <2>1, <1>4 DEF CredentialInv, CallsOK
<1>8. CallsOK'
    BY <1>6, <1>7 DEF CallsOK
<1> QED BY <1>8, UntouchedStore DEF TimeOut, CredentialInv

LEMMA CreateCredentialKeeps ==
    ASSUME CredentialInv, NEW u \in UserID, CreateCredential(u)
    PROVE  CredentialInv'
<1>1. PICK id \in CredentialID, values \in Values(u) :
        Create(id, [user |-> u, collection |-> values.collection, label |-> values.label,
                    secret |-> values.secret, attributes |-> values.attributes])
    BY DEF CreateCredential
<1>2. IsOwn([user |-> u, collection |-> values.collection, label |-> values.label,
             secret |-> values.secret, attributes |-> values.attributes])
    BY DEF IsOwn, Own, Values
<1>3. StoreOK'
    BY <1>1, <1>2, CreateKeepsStore DEF CredentialInv
<1> QED BY <1>3, UntouchedCalls DEF CreateCredential, CredentialInv

LEMMA DeleteCredentialKeeps ==
    ASSUME CredentialInv, NEW u \in UserID, NEW id \in CredentialID, DeleteCredential(u, id)
    PROVE  CredentialInv'
BY DeleteKeepsStore, UntouchedCalls DEF DeleteCredential, CredentialInv

LEMMA CopyItemKeeps ==
    ASSUME CredentialInv, NEW p \in Caller, NEW u \in UserID, NEW id \in CredentialID,
           CopyItem(p, u, id)
    PROVE  CredentialInv'
<1>1. PICK f \in Field \ {"collection"}, values \in Values(u) :
        Goto(p, Copied(id, credentials[id], [x \in {f} |-> values[x]]))
    BY DEF CopyItem
<1>2. BodyOf(u, [x \in {f} |-> values[x]])
    BY ValuesAreOf
<1>3. credentials[id] \in Own(u)
    BY HasOwn DEF CopyItem, CredentialInv
<1>4. CopiedOK(Copied(id, credentials[id], [x \in {f} |-> values[x]]))
    BY <1>2, <1>3 DEF CopiedOK, Copied
<1>5. CallsOK'
    BY <1>1, <1>4, GotoKeepsCalls DEF CallOK, CredentialInv
<1> QED BY <1>5, UntouchedStore DEF CopyItem, CredentialInv

LEMMA SetItemKeeps ==
    ASSUME CredentialInv, NEW p \in Caller, SetItem(p)
    PROVE  CredentialInv'
<1> DEFINE item == Merge(call[p].copy, call[p].change)
           body == [f \in Field \ {"collection"} |-> item[f]]
<1>1. CopiedOK(call[p])
    BY CallFields DEF SetItem, CredentialInv
<1>2. PICK u \in UserID : item \in Own(u)
    BY <1>1, MergeIsOwn DEF CopiedOK
<1>3. ReadForUpdate(p, item.user, call[p].id, body, Idle)
    BY DEF SetItem
<1> HIDE DEF item
<1>4. /\ item.user = u /\ item["label"] \in Supplied({u}, Label)
      /\ item["secret"] \in Supplied({u}, Secret) /\ item["attributes"] \in Attributes
    BY <1>2 DEF Own
<1>5. BodyOf(u, body)
    BY <1>4 DEF BodyOf, Field
<1> HIDE DEF body
<1>6. CallsOK'
    BY <1>1, <1>3, <1>4, <1>5, IdleIsOK, ReadKeepsCalls DEF CopiedOK
<1> QED BY <1>6, UntouchedStore DEF SetItem, CredentialInv

LEMMA CreateItemKeeps ==
    ASSUME CredentialInv, NEW p \in Caller, NEW u \in UserID, CreateItem(p, u)
    PROVE  CredentialInv'
<1>1. PICK item \in Item(u) :
        \/ Goto(p, Creating(u, item))
        \/ \E id \in Found(u, item.attributes) : Goto(p, Replacing(u, id, item))
    BY DEF CreateItem
<1>2. CASE Goto(p, Creating(u, item))
    <2>1. CallOK(Creating(u, item))
        BY DEF CallOK, FallbackOK
    <2> QED BY <1>2, <2>1, GotoKeepsCalls, UntouchedStore DEF CreateItem, CredentialInv
<1>3. CASE \E id \in Found(u, item.attributes) : Goto(p, Replacing(u, id, item))
    <2>1. PICK id \in CredentialID : Goto(p, Replacing(u, id, item))
        BY <1>3 DEF Found, Search, Stored
    <2>2. CallOK(Replacing(u, id, item))
        BY DEF CallOK, ReplacingOK, Replacing
    <2> QED BY <2>1, <2>2, GotoKeepsCalls, UntouchedStore DEF CreateItem, CredentialInv
<1> QED BY <1>1, <1>2, <1>3

LEMMA ReplaceItemKeeps ==
    ASSUME CredentialInv, NEW p \in Caller, ReplaceItem(p)
    PROVE  CredentialInv'
<1>1. ReplacingOK(call[p])
    BY CallFields DEF ReplaceItem, CredentialInv
<1>2. BodyOf(call[p].user, call[p].item)
    BY <1>1, ValuesAreOf DEF ReplacingOK
<1>3. FallbackOK(Creating(call[p].user, call[p].item))
    BY <1>1 DEF ReplacingOK, FallbackOK
<1>4. ReadForUpdate(p, call[p].user, call[p].id, call[p].item,
                    Creating(call[p].user, call[p].item))
    BY DEF ReplaceItem
<1>5. CallsOK'
    BY <1>1, <1>2, <1>3, <1>4, ReadKeepsCalls DEF ReplacingOK
<1> QED BY <1>5, UntouchedStore DEF ReplaceItem, CredentialInv

LEMMA StoreItemKeeps ==
    ASSUME CredentialInv, NEW p \in Caller, StoreItem(p)
    PROVE  CredentialInv'
<1> DEFINE u    == call[p].user
           item == call[p].item
<1>1. u \in UserID /\ item \in Item(u)
    BY CreatingFields DEF StoreItem, CredentialInv
<1> DEFINE c == [user |-> u, collection |-> "default", label |-> item.label,
                 secret |-> item.secret, attributes |-> item.attributes]
<1>2. IsOwn(c)
    BY <1>1, DefaultAssumption DEF IsOwn, Own, Item, Supplied
<1>3. UNCHANGED <<credentials, drawn>> \/ \E id \in CredentialID : Create(id, c)
    BY DEF StoreItem
<1> HIDE DEF c, u, item
<1>4. StoreOK'
    BY <1>2, <1>3, CreateKeepsStore, UntouchedStore DEF CredentialInv
<1>5. CallsOK'
    BY IdleIsOK, GotoKeepsCalls DEF StoreItem, CredentialInv
<1> QED BY <1>4, <1>5 DEF CredentialInv

LEMMA CredentialInit == Init => CredentialInv
BY IdleIsOK DEF Init, StoreInit, CredentialInv, StoreOK, CallsOK

LEMMA CredentialStep == CredentialInv /\ [Next]_vars => CredentialInv'
<1> SUFFICES ASSUME CredentialInv, [Next]_vars PROVE CredentialInv'
    OBVIOUS
<1>1. CASE UNCHANGED vars
    BY <1>1, UntouchedStore, UntouchedCalls DEF vars, CredentialInv
<1>2. CASE Next
    BY <1>2, CreateCredentialKeeps, DeleteCredentialKeeps, CreateItemKeeps, CopyItemKeeps,
       UpdateCredentialKeeps, WriteUpdateKeeps, SetItemKeeps, ReplaceItemKeeps,
       StoreItemKeeps, RejectBodyKeeps, TimeOutKeeps DEF Next
<1> QED BY <1>1, <1>2

\* What a step stores was there before, or has just drawn a new uuid.
LEMMA NothingReturns ==
    ASSUME CredentialInv, [Next]_vars
    PROVE  \A id \in drawn : id \notin Stored => id \notin Stored'
<1> DEFINE Returns == \E id \in drawn : id \notin Stored /\ id \in Stored'
<1>1. ASSUME NEW i \in CredentialID, NEW c, Create(i, c) PROVE ~ Returns
    BY <1>1 DEF Create, Stored, CredentialInv, StoreOK
<1>2. ASSUME NEW i \in CredentialID, NEW c, Update(i, c) PROVE ~ Returns
    BY <1>2 DEF Update, Has, Stored, CredentialInv, StoreOK
<1>3. ASSUME NEW i \in CredentialID, NEW u, Delete(u, i) PROVE ~ Returns
    BY <1>3 DEF Delete, Stored, CredentialInv, StoreOK
<1>4. UNCHANGED credentials => ~ Returns
    BY DEF Stored
<1>5. CASE UNCHANGED vars
    BY <1>4, <1>5 DEF vars
<1>6. ASSUME NEW u \in UserID, CreateCredential(u) PROVE ~ Returns
    BY <1>1, <1>6 DEF CreateCredential
<1>7. ASSUME NEW p \in Caller, WriteUpdate(p) PROVE ~ Returns
    <2>1. call[p].id \in CredentialID
        BY <1>7, CallFields DEF WriteUpdate, CredentialInv, PuttingOK
    <2> QED BY <1>2, <1>7, <2>1 DEF WriteUpdate
<1>8. ASSUME NEW p \in Caller, StoreItem(p) PROVE ~ Returns
    BY <1>1, <1>4, <1>8 DEF StoreItem
<1>9. CASE Next
    BY <1>3, <1>4, <1>6, <1>7, <1>8, <1>9
       DEF Next, DeleteCredential, CreateItem, CopyItem, UpdateCredential, SetItem,
           ReplaceItem, RejectBody, TimeOut
<1> QED BY <1>5, <1>9

----------------------------------------------------------------------------
(* CreateItem *)

\* After the step, some credential holds what item holds.
Delivered(item) == \E id \in Stored' : \A f \in DOMAIN item : credentials'[id][f] = item[f]

\* A CreateItem whose PUT fails has something to go on with.
LEMMA FallbackGoesOn ==
    ASSUME NEW c, FallbackOK(c), c # Idle
    PROVE  c.pc = "create"
<1>1. PICK u \in UserID : \E item \in Item(u) : c = Creating(u, item)
    BY DEF FallbackOK
<1> QED BY <1>1 DEF Creating

\* A PUT that succeeds stores its body.
LEMMA WriteDelivers ==
    ASSUME CredentialInv, NEW p \in Caller, WriteUpdate(p), At(p, "idle")',
           call[p].otherwise # Idle
    PROVE  Delivered(call[p].body)
<1> DEFINE updated == Merge(call[p].existing, call[p].body)
           id == call[p].id
           body == call[p].body
<1>1. PuttingOK(call[p]) /\ id \in CredentialID
    BY CallFields DEF WriteUpdate, CredentialInv, PuttingOK
<1>2. call[p].otherwise.pc # "idle"
    BY <1>1, FallbackGoesOn DEF PuttingOK
<1>3. call'[p] = IF Has(updated.user, id) THEN Idle ELSE call[p].otherwise
    BY DEF WriteUpdate, Goto, CredentialInv, CallsOK
<1>4. Has(updated.user, id)
    BY <1>2, <1>3 DEF At
<1>5. PICK u \in UserID : call[p].existing \in Own(u) /\ BodyOf(u, body)
    BY <1>1 DEF PuttingOK
<1>6. \A f \in DOMAIN body : updated[f] = body[f]
    BY <1>5 DEF BodyOf, Field, Merge, Own
<1>7. updated # NoCredential
    BY <1>5, MergeIsOwn, OwnIsCredential DEF IsOwn
<1>8. credentials' = [credentials EXCEPT ![id] = updated]
    BY <1>4 DEF WriteUpdate, Update
<1> HIDE DEF updated
<1>9. credentials'[id] = updated
    BY <1>1, <1>8 DEF CredentialInv, StoreOK
<1> QED BY <1>1, <1>6, <1>7, <1>9 DEF Delivered, Stored

\* A POST stores the item.
LEMMA StoreDelivers ==
    ASSUME CredentialInv, NEW p \in Caller, StoreItem(p), call[p].item.secret.word # ""
    PROVE  Delivered(call[p].item)
<1> DEFINE u    == call[p].user
           item == call[p].item
           c    == [user |-> u, collection |-> "default", label |-> item.label,
                    secret |-> item.secret, attributes |-> item.attributes]
<1>1. u \in UserID /\ item \in Item(u)
    BY CreatingFields DEF StoreItem, CredentialInv
<1>2. PICK id \in CredentialID : Create(id, c)
    BY DEF StoreItem
<1>3. credentials'[id] = c
    <2>1. c.collection # ""
        OBVIOUS
    <2> HIDE DEF c
    <2> QED BY <1>2, <2>1 DEF Create, CredentialInv, StoreOK
<1>4. c # NoCredential
    <2>1. IsOwn(c)
        BY <1>1, DefaultAssumption DEF IsOwn, Own, Item, Supplied
    <2> HIDE DEF c
    <2> QED BY <2>1, OwnIsCredential
<1>5. \A f \in DOMAIN item : c[f] = item[f]
    <2>1. DOMAIN item = {"label", "secret", "attributes"}
        BY <1>1 DEF Item
    <2>2. /\ c["label"] = item["label"] /\ c["secret"] = item["secret"]
          /\ c["attributes"] = item["attributes"]
        OBVIOUS
    <2> HIDE DEF c, item
    <2> QED BY <2>1, <2>2
<1> QED BY <1>3, <1>4, <1>5 DEF Delivered, Stored

\* The other steps end no CreateItem.
LEMMA GotoEndsNone ==
    ASSUME CredentialInv, NEW p \in Caller, NEW q \in Caller, NEW next,
           Goto(q, next), At(p, "idle")', ~ At(p, "idle")
    PROVE  p = q /\ next.pc = "idle"
BY DEF Goto, At, CredentialInv, CallsOK

LEMMA ItemDelivered ==
    ASSUME CredentialInv, [Next]_vars, NEW p \in Caller, At(p, "idle")',
           NEW item \in ToStore(p), item.secret.word # ""
    PROVE  Delivered(item)
<1>1. /\ ~ At(p, "idle") /\ ~ At(p, "replace") /\ ~ At(p, "copied")
      /\ \/ At(p, "create") /\ item = call[p].item
         \/ At(p, "put") /\ call[p].otherwise # Idle /\ item = call[p].body
    BY DEF ToStore, At
<1>2. ~ UNCHANGED call
    BY <1>1 DEF At
<1>3. ASSUME NEW q \in Caller, WriteUpdate(q) PROVE Delivered(item)
    <2>1. p = q
        BY <1>1, <1>3, GotoEndsNone DEF WriteUpdate
    <2> QED BY <1>1, <1>3, <2>1, WriteDelivers DEF WriteUpdate, At
<1>4. ASSUME NEW q \in Caller, StoreItem(q) PROVE Delivered(item)
    <2>1. p = q
        BY <1>1, <1>4, GotoEndsNone DEF StoreItem
    <2> QED BY <1>1, <1>4, <2>1, StoreDelivers DEF StoreItem, At
<1>5. ASSUME NEW q \in Caller, NEW next, Goto(q, next), ~ At(q, "put"), ~ At(q, "create")
      PROVE  FALSE
    BY <1>1, <1>5, GotoEndsNone
<1>6. ASSUME NEW q \in Caller, NEW r \in Caller, TimeOut(q, r) PROVE FALSE
    <2>1. call'[p] = IF p = r THEN [call[q] EXCEPT !.otherwise = Idle]
                     ELSE IF p = q THEN call[q].otherwise ELSE call[p]
        BY <1>6 DEF TimeOut, CredentialInv, CallsOK
    <2>2. p # r
        BY <1>1, <1>6 DEF TimeOut
    <2>3. p = q /\ call'[p] = call[q].otherwise
        BY <1>1, <2>1, <2>2 DEF At
    <2>4. PuttingOK(call[q])
        BY <1>6, CallFields DEF TimeOut, CredentialInv
    <2>5. call[q].otherwise.pc = "create"
        BY <1>6, <2>4, FallbackGoesOn DEF TimeOut, PuttingOK
    <2> QED BY <2>3, <2>5 DEF At
<1>7. ~ \E q \in Caller, u \in UserID, id \in CredentialID :
            CopyItem(q, u, id) \/ \E body \in Body(u) : UpdateCredential(q, u, id, body)
    BY <1>5 DEF CopyItem, UpdateCredential, ReadForUpdate, At
<1>8. ~ \E q \in Caller, u \in UserID : CreateItem(q, u)
    BY <1>5 DEF CreateItem, At
<1>9. ~ \E q \in Caller : SetItem(q) \/ ReplaceItem(q)
    BY <1>5 DEF SetItem, ReplaceItem, ReadForUpdate, At
<1>10. ASSUME NEW q \in Caller, RejectBody(q) PROVE FALSE
    <2>1. p = q /\ call[q].otherwise.pc = "idle"
        BY <1>1, <1>10, GotoEndsNone DEF RejectBody
    <2>2. PuttingOK(call[q])
        BY <1>10, CallFields DEF RejectBody, CredentialInv
    <2>3. call[q].otherwise # Idle
        BY <1>1, <1>10, <2>1 DEF RejectBody, At
    <2> QED BY <2>1, <2>2, <2>3, FallbackGoesOn DEF PuttingOK
<1> QED BY <1>2, <1>3, <1>4, <1>6, <1>7, <1>8, <1>9, <1>10
        DEF Next, vars, CreateCredential, DeleteCredential

----------------------------------------------------------------------------
(* The theorems *)

LEMMA CredentialsCorrect == Spec => []CredentialInv
BY CredentialInit, CredentialStep, PTL DEF Spec

\* The credentials map keeps its types: every record has an owner, values for all of
\* its fields and a uuid that was drawn for it, through every merge of PUT.
THEOREM StoreTypeCorrect == Spec => []StoreTypeOK
<1>1. CredentialInv => StoreTypeOK
    BY StoreOKImplies DEF CredentialInv
<1> QED BY <1>1, CredentialsCorrect, PTL

\* No label and no secret ever ends up in a credential of a user who did not supply
\* it, however many reads, copies, time-outs and merges of any number of calls
\* interleave.
THEOREM ValuesNeverCross == Spec => []ValuesStayHome
<1>1. CredentialInv => ValuesStayHome
    BY StoreOKImplies DEF CredentialInv
<1> QED BY <1>1, CredentialsCorrect, PTL

\* A deletion is final: updates under way, and those the client has given up on,
\* find the credential missing when they come to write it.
THEOREM DeletionsAreFinal == Spec => DeletedStaysDeleted
<1>1. CredentialInv /\ [Next]_vars => [\A id \in drawn : id \notin Stored => id \notin Stored']_vars
    BY NothingReturns
<1> QED BY <1>1, CredentialsCorrect, PTL DEF Spec, DeletedStaysDeleted

\* CreateItem keeps its word: when a call ends, its item is stored, also when the item
\* it meant to replace was deleted or taken over by another call on the way, or when
\* the client gave up waiting.
THEOREM ItemsAreDelivered == Spec => CreateItemDelivers
<1>1. CredentialInv /\ [Next]_vars =>
        [\A p \in Caller : At(p, "idle")' =>
            \A item \in ToStore(p) : item.secret.word # "" =>
                \E id \in Stored' : \A f \in DOMAIN item : credentials'[id][f] = item[f]]_vars
    BY ItemDelivered DEF Delivered
<1> QED BY <1>1, CredentialsCorrect, PTL DEF Spec, CreateItemDelivers
=============================================================================
