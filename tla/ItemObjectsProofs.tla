------------------------- MODULE ItemObjectsProofs -------------------------
(***************************************************************************)
(* The record of exported items agrees with the bus, a path that was      *)
(* returned works while its credential is there, and sessions are         *)
(* distinct, whatever the users, the credentials and the calls.           *)
(*                                                                         *)
(* The invariant says what a deletion holds between its steps.  The WCM   *)
(* answers one DELETE of a uuid with success, and no uuid is drawn twice, *)
(* so that a deletion has its credential to itself from there on.          *)
(***************************************************************************)
EXTENDS ItemObjects, TLAPS

Deleting(p) == At(p, "unexport") \/ At(p, "forget")

\* A call that has deleted a credential and has not forgotten its object: the
\* credential is gone for good, and nobody else removes the object.
DeletionInv ==
    /\ \A p \in Call : Deleting(p) =>
        /\ call[p].id \in drawn /\ call[p].id \notin Stored
        /\ call[p].id \in exportedItems
        /\ call[p].id \in objects <=> At(p, "unexport")
    /\ \A p, q \in Call : Deleting(p) /\ Deleting(q) /\ call[p].id = call[q].id => p = q

ToldInv == told \cap Stored \subseteq exportedItems

\* Callers know of, and calls hold, credentials that have been drawn.
DrawnInv ==
    /\ told \subseteq drawn
    /\ \A p \in Call : At(p, "found") => call[p].ids \subseteq drawn

ItemInv ==
    ObjectsTypeOK /\ RecordMatchesBus /\ DeletionInv /\ ToldInv /\ DrawnInv /\ SessionsAreDistinct

----------------------------------------------------------------------------
(* The calls *)

LEMMA StepOK ==
    /\ Idle \in Step /\ Idle.pc = "idle"
    /\ \A ids \in SUBSET CredentialID :
        Found(ids) \in Step /\ Found(ids).pc = "found" /\ Found(ids).ids = ids
    /\ \A id \in CredentialID : \A pc \in {"unexport", "forget"} :
        Removing(pc, id) \in Step /\ Removing(pc, id).pc = pc /\ Removing(pc, id).id = id
    /\ \A n \in 1 .. MaxSessions :
        Opening(n) \in Step /\ Opening(n).pc = "opening" /\ Opening(n).number = n
BY DEF Idle, Found, Removing, Opening, Step

\* What a call in a given state holds.
LEMMA CallHolds ==
    ASSUME ObjectsTypeOK, NEW p \in Call
    PROVE  /\ call[p] \in Step
           /\ At(p, "found") => call[p].ids \in SUBSET CredentialID
           /\ At(p, "unexport") => call[p].id \in CredentialID /\ call[p] = Removing("unexport", call[p].id)
           /\ At(p, "forget") => call[p].id \in CredentialID /\ call[p] = Removing("forget", call[p].id)
           /\ At(p, "opening") => call[p].number \in 1 .. MaxSessions
BY DEF ObjectsTypeOK, Step, At, Idle, Removing

LEMMA GoesTo ==
    ASSUME ObjectsTypeOK, NEW p \in Call, NEW next \in Step, Goto(p, next)
    PROVE  /\ call' \in [Call -> Step] /\ call'[p] = next
           /\ \A q \in Call : q # p => call'[q] = call[q]
BY DEF ObjectsTypeOK, Goto

----------------------------------------------------------------------------
(* The store *)

\* What any call, the proxy's or a browser's, does to the store: a uuid that has been
\* drawn does not come back.
StoreMove ==
    /\ StoreTypeOK'
    /\ drawn \subseteq drawn'
    /\ Stored' \subseteq Stored \cup (drawn' \ drawn)

LEMMA StoreUnchanged ==
    ASSUME StoreTypeOK, UNCHANGED <<credentials, drawn>>
    PROVE  StoreMove
BY DEF StoreTypeOK, StoreMove, Stored

LEMMA CreateMoves ==
    ASSUME StoreTypeOK, NEW id \in CredentialID, NEW c \in Credential, Create(id, c)
    PROVE  StoreMove /\ id \in drawn'
<1>1. [c EXCEPT !.collection = "default"] \in Credential
    BY DefaultAssumption DEF Credential
<1>2. credentials' \in [CredentialID -> Credential \cup {NoCredential}]
    BY <1>1 DEF Create, StoreTypeOK
<1>3. \A i \in CredentialID : i # id => credentials'[i] = credentials[i]
    BY DEF Create, StoreTypeOK
<1> QED
    BY <1>2, <1>3 DEF Create, StoreTypeOK, StoreMove, Stored

LEMMA UpdateMoves ==
    ASSUME StoreTypeOK, NEW id \in CredentialID, NEW c \in Credential, Update(id, c)
    PROVE  StoreMove
BY DEF Update, Has, StoreTypeOK, StoreMove, Stored

LEMMA DeleteMoves ==
    ASSUME StoreTypeOK, NEW u, NEW id \in CredentialID, Delete(u, id)
    PROVE  StoreMove /\ (Has(u, id) => id \in Stored /\ id \notin Stored')
BY DEF Delete, Has, StoreTypeOK, StoreMove, Stored

----------------------------------------------------------------------------
(* The parts of the invariant *)

\* The types, and the parts that are about items.
ItemPart ==
    /\ StoreTypeOK
    /\ objects \subseteq CredentialID /\ exportedItems \subseteq CredentialID
    /\ told \subseteq CredentialID
    /\ call \in [Call -> Step]
    /\ RecordMatchesBus /\ DeletionInv /\ ToldInv /\ DrawnInv

\* The types, and the part that is about sessions.
SessionPart ==
    /\ sessionID \in 0 .. MaxSessions
    /\ dbSessions \subseteq 1 .. sessionID
    /\ SessionsAreDistinct

LEMMA Parts ==
    /\ ItemInv <=> ItemPart /\ SessionPart
    /\ ItemInv' <=> ItemPart' /\ SessionPart'
BY DEF ItemInv, ItemPart, SessionPart, ObjectsTypeOK

\* A step that exports some items, or none, and has nothing to do with deletions.
LEMMA ItemsKept ==
    ASSUME ItemPart, StoreMove, NEW ids \in SUBSET CredentialID, ids \subseteq drawn,
           EnsureItemsExported(ids), told' \subseteq told \cup ids,
           call' \in [Call -> Step],
           \A p \in Call : Deleting(p) \/ Deleting(p)' => call'[p] = call[p],
           \A p \in Call : At(p, "found")' => call'[p] = call[p] \/ call'[p].ids \subseteq drawn'
    PROVE  ItemPart'
<1>1. exportedItems' \ objects' = exportedItems \ objects /\ objects' \subseteq exportedItems'
    BY DEF EnsureItemsExported, ItemPart, RecordMatchesBus
<1>2. RecordMatchesBus'
    <2> SUFFICES ASSUME NEW id \in exportedItems \ objects
                 PROVE  \E p \in Call : call'[p] = Removing("forget", id)
        BY <1>1 DEF RecordMatchesBus
    <2>1. PICK p \in Call : call[p] = Removing("forget", id)
        BY DEF ItemPart, RecordMatchesBus
    <2>2. Deleting(p)
        BY <2>1 DEF Deleting, At, Removing
    <2> QED BY <2>1, <2>2
<1>3. \A p \in Call : Deleting(p)' =>
        /\ Deleting(p) /\ call'[p] = call[p]
        /\ At(p, "unexport")' <=> At(p, "unexport")
    BY DEF Deleting, At
<1>4. DeletionInv'
    <2> SUFFICES ASSUME NEW p \in Call, Deleting(p), call'[p] = call[p]
                 PROVE  /\ call[p].id \in drawn' /\ call[p].id \notin Stored'
                        /\ call[p].id \in exportedItems'
                        /\ call[p].id \in objects' <=> At(p, "unexport")
        BY <1>3 DEF DeletionInv, ItemPart
    <2>1. /\ call[p].id \in drawn /\ call[p].id \notin Stored
          /\ call[p].id \in exportedItems
          /\ call[p].id \in objects <=> At(p, "unexport")
        BY DEF ItemPart, DeletionInv
    <2> QED BY <2>1 DEF StoreMove, EnsureItemsExported
<1>5. told' \subseteq drawn' /\ ToldInv'
    BY DEF StoreMove, EnsureItemsExported, ItemPart, ToldInv, DrawnInv
<1>6. DrawnInv'
    BY <1>5 DEF DrawnInv, StoreMove, ItemPart, At
<1> QED
    BY <1>2, <1>4, <1>5, <1>6 DEF ItemPart, StoreMove, EnsureItemsExported

\* A step that draws no number and records no session.
LEMMA SessionsKept ==
    ASSUME SessionPart, UNCHANGED sessionID, dbSessions' \subseteq dbSessions,
           \A p \in Call : At(p, "opening")' => call'[p] = call[p]
    PROVE  SessionPart'
BY DEF SessionPart, SessionsAreDistinct, At

----------------------------------------------------------------------------
(* The steps *)

LEMMA SearchKeeps ==
    ASSUME ItemInv, NEW p \in Call, SearchItems(p)
    PROVE  ItemInv'
<1>1. PICK ids \in SUBSET CredentialID : ids \subseteq drawn /\ Goto(p, Found(ids))
    BY DEF SearchItems, Search, Stored, ItemInv, ObjectsTypeOK, StoreTypeOK
<1>2. /\ call' \in [Call -> Step] /\ call'[p] = Found(ids)
      /\ \A q \in Call : q # p => call'[q] = call[q]
    BY <1>1, StepOK, GoesTo DEF ItemInv
<1>3. call[p].pc = "idle" /\ call'[p].pc = "found" /\ call'[p].ids = ids
    BY <1>1, <1>2, StepOK DEF SearchItems, At
<1>4. EnsureItemsExported({}) /\ StoreMove /\ UNCHANGED told
    BY StoreUnchanged DEF SearchItems, itemVars, EnsureItemsExported, ItemInv, ObjectsTypeOK
<1>5. ItemPart'
    BY <1>1, <1>2, <1>3, <1>4, ItemsKept, Parts DEF Deleting, At, StoreMove
<1>6. SessionPart'
    BY <1>2, <1>3, SessionsKept, Parts DEF SearchItems, sessionVars, At
<1> QED BY <1>5, <1>6, Parts

LEMMA CreateKeeps ==
    ASSUME ItemInv, NEW p \in Call, CreateItem(p)
    PROVE  ItemInv'
<1>1. PICK id \in CredentialID, c \in Credential :
        /\ Create(id, c) \/ (Has(OwnerEmail, id) /\ Update(id, c))
        /\ Goto(p, Found({id})) \/ UNCHANGED call
    BY DEF CreateItem
<1>2. StoreTypeOK /\ call \in [Call -> Step]
    BY DEF ItemInv, ObjectsTypeOK
<1>3. StoreMove /\ id \in drawn'
    BY <1>1, <1>2, CreateMoves, UpdateMoves DEF Has, Stored, StoreTypeOK, StoreMove
<1>4. EnsureItemsExported({}) /\ UNCHANGED told /\ call[p].pc = "idle"
    BY DEF CreateItem, EnsureItemsExported, At
<1>5. /\ call' \in [Call -> Step]
      /\ \A q \in Call : q # p => call'[q] = call[q]
      /\ call'[p] = call[p] \/ (call'[p].pc = "found" /\ call'[p].ids = {id})
    <2>1. CASE UNCHANGED call
        BY <1>2, <2>1
    <2>2. CASE Goto(p, Found({id}))
        BY <2>2, StepOK, GoesTo DEF ItemInv
    <2> QED BY <1>1, <2>1, <2>2
<1>6. ItemPart'
    BY <1>3, <1>4, <1>5, ItemsKept, Parts DEF Deleting, At
<1>7. SessionPart'
    BY <1>4, <1>5, SessionsKept, Parts DEF CreateItem, sessionVars, At
<1> QED BY <1>6, <1>7, Parts

LEMMA ExportKeeps ==
    ASSUME ItemInv, NEW p \in Call, ExportFound(p)
    PROVE  ItemInv'
<1>1. call[p].pc = "found" /\ call[p].ids \in SUBSET CredentialID /\ call[p].ids \subseteq drawn
    BY CallHolds DEF ExportFound, At, ItemInv, DrawnInv
<1>2. /\ call' \in [Call -> Step] /\ call'[p].pc = "idle"
      /\ \A q \in Call : q # p => call'[q] = call[q]
    BY StepOK, GoesTo DEF ExportFound, ItemInv
<1>3. EnsureItemsExported(call[p].ids) /\ StoreMove /\ told' \subseteq told \cup call[p].ids
    BY StoreUnchanged DEF ExportFound, ItemInv, ObjectsTypeOK
<1>4. ItemPart'
    BY <1>1, <1>2, <1>3, ItemsKept, Parts DEF Deleting, At
<1>5. SessionPart'
    BY <1>2, SessionsKept, Parts DEF ExportFound, sessionVars, At
<1> QED BY <1>4, <1>5, Parts

\* One DELETE of a uuid succeeds: no other call has deleted this credential.
LEMMA DeleteKeeps ==
    ASSUME ItemInv, NEW p \in Call, NEW id \in CredentialID, DeleteItem(p, id)
    PROVE  ItemInv'
<1>1. StoreTypeOK /\ call \in [Call -> Step] /\ call[p].pc = "idle"
    BY DEF ItemInv, ObjectsTypeOK, DeleteItem, At
<1>2. StoreMove /\ (Has(OwnerEmail, id) => id \in Stored /\ id \notin Stored') /\ UNCHANGED drawn
    BY <1>1, DeleteMoves DEF DeleteItem, Delete
<1>3. CASE UNCHANGED call
    <2>1. EnsureItemsExported({})
        BY DEF DeleteItem, EnsureItemsExported
    <2>2. ItemPart'
        BY <1>1, <1>2, <1>3, <2>1, ItemsKept, Parts DEF DeleteItem
    <2>3. SessionPart'
        BY <1>3, SessionsKept, Parts DEF DeleteItem, sessionVars
    <2> QED BY <2>2, <2>3, Parts
<1>4. CASE Has(OwnerEmail, id) /\ Goto(p, Removing("unexport", id))
    <2>1. /\ call' \in [Call -> Step]
          /\ call'[p].pc = "unexport" /\ call'[p].id = id
          /\ \A q \in Call : q # p => call'[q] = call[q]
        BY <1>4, StepOK, GoesTo DEF ItemInv
    <2>2. id \in Stored /\ id \notin Stored' /\ id \in drawn /\ id \in objects
        BY <1>1, <1>2, <1>4 DEF Stored, StoreTypeOK, DeleteItem
    <2>3. UNCHANGED <<objects, exportedItems, told>> /\ Stored' \subseteq Stored
        BY <1>2 DEF DeleteItem, StoreMove
    <2>4. RecordMatchesBus'
        <3> SUFFICES ASSUME NEW i \in exportedItems \ objects
                     PROVE  \E q \in Call : call'[q] = Removing("forget", i)
            BY <2>3 DEF RecordMatchesBus, ItemInv
        <3>1. PICK q \in Call : call[q] = Removing("forget", i)
            BY DEF RecordMatchesBus, ItemInv
        <3>2. q # p
            BY <1>1, <3>1 DEF Removing
        <3> QED BY <2>1, <3>1, <3>2
    <2>5. \A q \in Call : Deleting(q) => call[q].id # id
        BY <2>2 DEF ItemInv, DeletionInv
    <2>6. \A q \in Call : Deleting(q)' => q = p \/ (Deleting(q) /\ call'[q] = call[q])
        BY <2>1 DEF Deleting, At
    <2>7. DeletionInv'
        <3> SUFFICES ASSUME NEW q \in Call, Deleting(q)'
                     PROVE  /\ call'[q].id \in drawn' /\ call'[q].id \notin Stored'
                            /\ call'[q].id \in exportedItems'
                            /\ call'[q].id \in objects' <=> At(q, "unexport")'
                            /\ \A r \in Call : Deleting(r)' /\ call'[q].id = call'[r].id => q = r
            BY DEF DeletionInv
        <3>1. CASE q = p
            BY <1>2, <2>1, <2>2, <2>3, <2>5, <2>6, <3>1 DEF At, ItemInv, RecordMatchesBus
        <3>2. CASE q # p
            BY <1>2, <2>1, <2>3, <2>5, <2>6, <3>2 DEF At, ItemInv, DeletionInv
        <3> QED BY <3>1, <3>2
    <2>8. ToldInv' /\ DrawnInv'
        BY <1>2, <2>1, <2>3 DEF ItemInv, ToldInv, DrawnInv, At
    <2>9. ItemPart'
        BY <1>2, <2>1, <2>3, <2>4, <2>7, <2>8 DEF ItemPart, StoreMove, ItemInv, ObjectsTypeOK
    <2>10. SessionPart'
        BY <2>1, SessionsKept, Parts DEF DeleteItem, sessionVars, At
    <2> QED BY <2>9, <2>10, Parts
<1> QED BY <1>3, <1>4 DEF DeleteItem

LEMMA UnexportKeeps ==
    ASSUME ItemInv, NEW p \in Call, Unexport(p)
    PROVE  ItemInv'
<1> DEFINE id == call[p].id
<1>1. /\ call[p].pc = "unexport" /\ id \in CredentialID /\ Deleting(p)
      /\ id \in drawn /\ id \notin Stored /\ id \in exportedItems
    BY CallHolds DEF Unexport, At, Deleting, ItemInv, DeletionInv
<1>2. /\ call' \in [Call -> Step] /\ call'[p] = Removing("forget", id)
      /\ call'[p].pc = "forget" /\ call'[p].id = id
      /\ \A q \in Call : q # p => call'[q] = call[q]
    BY <1>1, StepOK, GoesTo DEF Unexport, ItemInv
<1>3. objects' = objects \ {id} /\ UNCHANGED <<credentials, drawn, exportedItems, told>>
    BY DEF Unexport
<1>4. StoreTypeOK' /\ Stored' = Stored
    BY <1>3 DEF StoreTypeOK, Stored, ItemInv, ObjectsTypeOK
<1> HIDE DEF id
<1>5. RecordMatchesBus'
    <2> SUFFICES ASSUME NEW i \in exportedItems \ objects'
                 PROVE  \E q \in Call : call'[q] = Removing("forget", i)
        BY <1>3 DEF RecordMatchesBus, ItemInv
    <2>1. CASE i = id
        BY <1>2, <2>1
    <2>2. CASE i # id
        <3>1. PICK q \in Call : call[q] = Removing("forget", i)
            BY <1>3, <2>2 DEF RecordMatchesBus, ItemInv
        <3>2. q # p
            BY <1>1, <3>1 DEF Removing
        <3> QED BY <1>2, <3>1, <3>2
    <2> QED BY <2>1, <2>2
<1>6. \A q \in Call : Deleting(q) /\ q # p => call[q].id # id
    BY <1>1 DEF ItemInv, DeletionInv, id
<1>7. \A q \in Call : Deleting(q)' => q = p \/ (Deleting(q) /\ call'[q] = call[q])
    BY <1>2 DEF Deleting, At
<1>8. DeletionInv'
    <2> SUFFICES ASSUME NEW q \in Call, Deleting(q)'
                 PROVE  /\ call'[q].id \in drawn' /\ call'[q].id \notin Stored'
                        /\ call'[q].id \in exportedItems'
                        /\ call'[q].id \in objects' <=> At(q, "unexport")'
                        /\ \A r \in Call : Deleting(r)' /\ call'[q].id = call'[r].id => q = r
        BY DEF DeletionInv
    <2>1. CASE q = p
        BY <1>1, <1>2, <1>3, <1>4, <1>6, <1>7, <2>1 DEF At
    <2>2. CASE q # p
        BY <1>2, <1>3, <1>4, <1>6, <1>7, <2>2 DEF At, ItemInv, DeletionInv
    <2> QED BY <2>1, <2>2
<1>9. ToldInv' /\ DrawnInv'
    BY <1>2, <1>3, <1>4 DEF ItemInv, ToldInv, DrawnInv, At
<1>10. ItemPart'
    BY <1>2, <1>3, <1>4, <1>5, <1>8, <1>9 DEF ItemPart, ItemInv, ObjectsTypeOK
<1>11. SessionPart'
    BY <1>2, SessionsKept, Parts DEF Unexport, sessionVars, At
<1> QED BY <1>10, <1>11, Parts

LEMMA ForgetKeeps ==
    ASSUME ItemInv, NEW p \in Call, Forget(p)
    PROVE  ItemInv'
<1> DEFINE id == call[p].id
<1>1. /\ call[p] = Removing("forget", id) /\ id \in CredentialID /\ Deleting(p)
      /\ id \notin Stored /\ id \notin objects
    BY CallHolds, StepOK DEF Forget, At, Deleting, ItemInv, DeletionInv
<1>2. /\ call' \in [Call -> Step] /\ call'[p].pc = "idle"
      /\ \A q \in Call : q # p => call'[q] = call[q]
    BY StepOK, GoesTo DEF Forget, ItemInv
<1>3. exportedItems' = exportedItems \ {id} /\ UNCHANGED <<credentials, drawn, objects, told>>
    BY DEF Forget
<1>4. StoreTypeOK' /\ Stored' = Stored
    BY <1>3 DEF StoreTypeOK, Stored, ItemInv, ObjectsTypeOK
<1>5. \A q \in Call : Deleting(q) /\ q # p => call[q].id # id
    BY <1>1 DEF ItemInv, DeletionInv
<1> HIDE DEF id
<1>6. RecordMatchesBus'
    <2> SUFFICES ASSUME NEW i \in exportedItems' \ objects
                 PROVE  \E q \in Call : call'[q] = Removing("forget", i)
        BY <1>1, <1>3 DEF RecordMatchesBus, ItemInv
    <2>1. PICK q \in Call : call[q] = Removing("forget", i)
        BY <1>3 DEF RecordMatchesBus, ItemInv
    <2>2. q # p
        BY <1>1, <1>3, <2>1 DEF Removing
    <2> QED BY <1>2, <2>1, <2>2
<1>7. \A q \in Call : Deleting(q)' => q # p /\ Deleting(q) /\ call'[q] = call[q]
    BY <1>2 DEF Deleting, At
<1>8. DeletionInv'
    BY <1>3, <1>4, <1>5, <1>7 DEF ItemInv, DeletionInv, At
<1>9. ToldInv' /\ DrawnInv'
    BY <1>1, <1>2, <1>3, <1>4 DEF ItemInv, ToldInv, DrawnInv, At
<1>10. ItemPart'
    BY <1>2, <1>3, <1>4, <1>6, <1>8, <1>9 DEF ItemPart, ItemInv, ObjectsTypeOK
<1>11. SessionPart'
    BY <1>2, SessionsKept, Parts DEF Forget, sessionVars, At
<1> QED BY <1>10, <1>11, Parts

LEMMA OpenKeeps ==
    ASSUME ItemInv, NEW p \in Call, OpenSession(p) \/ RecordSession(p)
    PROVE  ItemInv'
<1>1. /\ sessionID \in 0 .. MaxSessions /\ dbSessions \subseteq 1 .. sessionID
      /\ MaxSessions \in Nat /\ ItemPart /\ SessionsAreDistinct
    BY Parts, SessionsAssumption DEF SessionPart
<1>2. CASE OpenSession(p)
    <2>1. sessionID + 1 \in 1 .. MaxSessions /\ sessionID' = sessionID + 1
        BY <1>1, <1>2 DEF OpenSession
    <2>2. /\ call' \in [Call -> Step] /\ call[p].pc = "idle"
          /\ call'[p].pc = "opening" /\ call'[p].number = sessionID + 1
          /\ \A q \in Call : q # p => call'[q] = call[q]
        BY <1>2, <2>1, StepOK, GoesTo DEF OpenSession, ItemInv, At
    <2>3. \A q \in Call : At(q, "opening") => call[q].number \in 1 .. sessionID
        BY <1>1 DEF SessionsAreDistinct
    <2>4. SessionsAreDistinct'
        BY <1>1, <1>2, <2>1, <2>2, <2>3 DEF OpenSession, SessionsAreDistinct, At
    <2>5. SessionPart'
        BY <1>1, <1>2, <2>1, <2>4 DEF SessionPart, OpenSession
    <2>6. StoreMove /\ EnsureItemsExported({}) /\ UNCHANGED told
        BY <1>2, StoreUnchanged DEF OpenSession, itemVars, EnsureItemsExported, ItemInv, ObjectsTypeOK
    <2>7. ItemPart'
        BY <1>1, <2>2, <2>6, ItemsKept DEF Deleting, At
    <2> QED BY <2>5, <2>7, Parts
<1>3. CASE RecordSession(p)
    <2>1. call[p].pc = "opening"
        BY <1>3 DEF RecordSession, At
    <2>2. /\ call' \in [Call -> Step] /\ call'[p].pc = "idle"
          /\ \A q \in Call : q # p => call'[q] = call[q]
        BY <1>3, StepOK, GoesTo DEF RecordSession, ItemInv
    <2>3. sessionID' = sessionID /\ dbSessions' = dbSessions \cup {call[p].number}
        BY <1>3 DEF RecordSession
    <2>4. call[p].number \in 1 .. sessionID
        BY <1>1, <2>1 DEF SessionsAreDistinct, At
    <2>5. SessionsAreDistinct'
        BY <1>1, <2>1, <2>2, <2>3 DEF SessionsAreDistinct, At
    <2>6. SessionPart'
        BY <1>1, <2>3, <2>4, <2>5 DEF SessionPart
    <2>7. StoreMove /\ EnsureItemsExported({}) /\ UNCHANGED told
        BY <1>3, StoreUnchanged DEF RecordSession, itemVars, EnsureItemsExported, ItemInv, ObjectsTypeOK
    <2>8. ItemPart'
        BY <1>1, <2>1, <2>2, <2>7, ItemsKept DEF Deleting, At
    <2> QED BY <2>6, <2>8, Parts
<1> QED BY <1>2, <1>3

\* What happens without a call of the proxy.
LEMMA OthersKeep ==
    ASSUME ItemInv, CloseSession \/ Browser \/ UNCHANGED vars
    PROVE  ItemInv'
<1>1. StoreTypeOK /\ call \in [Call -> Step]
    BY DEF ItemInv, ObjectsTypeOK
<1>2. StoreMove
    <2>1. CASE Browser
        <3>1. PICK u \in UserID, id \in CredentialID :
                Delete(u, id) \/ \E c \in Credential : Create(id, c) \/ Update(id, c)
            BY <2>1 DEF Browser
        <3> QED BY <1>1, <3>1, DeleteMoves, CreateMoves, UpdateMoves
    <2>2. CASE CloseSession \/ UNCHANGED vars
        BY <1>1, <2>2, StoreUnchanged DEF CloseSession, itemVars, vars
    <2> QED BY <2>1, <2>2
<1>3. UNCHANGED <<objects, exportedItems, told, call, sessionID>> /\ dbSessions' \subseteq dbSessions
    BY DEF CloseSession, Browser, itemVars, sessionVars, vars
<1>4. EnsureItemsExported({})
    BY <1>3 DEF EnsureItemsExported
<1>5. ItemPart'
    BY <1>1, <1>2, <1>3, <1>4, ItemsKept, Parts
<1>6. SessionPart'
    BY <1>3, SessionsKept, Parts
<1> QED BY <1>5, <1>6, Parts

----------------------------------------------------------------------------
(* The theorems *)

LEMMA ItemInitOK == Init => ItemInv
<1> SUFFICES ASSUME Init PROVE ItemInv
    OBVIOUS
<1>1. \A p \in Call : call[p].pc = "idle"
    BY StepOK DEF Init
<1>2. ObjectsTypeOK
    <2>1. StoreTypeOK
        BY DEF Init, StoreInit, StoreTypeOK
    <2>2. call \in [Call -> Step]
        BY StepOK DEF Init
    <2> QED BY <2>1, <2>2, SessionsAssumption DEF Init, ObjectsTypeOK
<1>3. DeletionInv /\ SessionsAreDistinct /\ DrawnInv
    BY <1>1 DEF Init, DeletionInv, Deleting, At, DrawnInv, SessionsAreDistinct
<1>4. RecordMatchesBus /\ ToldInv
    BY DEF Init, RecordMatchesBus, ToldInv
<1> QED BY <1>2, <1>3, <1>4 DEF ItemInv

LEMMA ItemInvariant == Spec => []ItemInv
<1>1. ItemInv /\ [Next]_vars => ItemInv'
    BY SearchKeeps, CreateKeeps, ExportKeeps, DeleteKeeps, UnexportKeeps, ForgetKeeps,
        OpenKeeps, OthersKeep
    DEF Next
<1> QED BY ItemInitOK, <1>1, PTL DEF Spec

\* The bus, the record and the calls keep their types.
THEOREM ObjectsTypes == Spec => []ObjectsTypeOK
<1>1. ItemInv => ObjectsTypeOK
    BY DEF ItemInv
<1> QED BY ItemInvariant, <1>1, PTL

\* The record agrees with the bus, but for a deletion between its two steps.
THEOREM RecordIsRight == Spec => []RecordMatchesBus
<1>1. ItemInv => RecordMatchesBus
    BY DEF ItemInv
<1> QED BY ItemInvariant, <1>1, PTL

\* A path a caller has got leads to an object while the credential is there: the object
\* is missing only where a deletion waits for the mutex, and what that deleted is gone.
THEOREM PathsWork == Spec => []ReturnedPathsWork
<1>1. ItemInv => ReturnedPathsWork
    <2> SUFFICES ASSUME ItemInv, NEW id \in told \cap Stored, id \notin objects
                 PROVE  FALSE
        BY DEF ReturnedPathsWork
    <2>1. PICK p \in Call : call[p] = Removing("forget", id)
        BY DEF ItemInv, ToldInv, RecordMatchesBus
    <2>2. Deleting(p) /\ call[p].id = id
        BY <2>1 DEF Deleting, At, Removing
    <2> QED BY <2>2 DEF ItemInv, DeletionInv
<1> QED BY ItemInvariant, <1>1, PTL

\* No two sessions share a path.
THEOREM DistinctSessions == Spec => []SessionsAreDistinct
<1>1. ItemInv => SessionsAreDistinct
    BY DEF ItemInv
<1> QED BY ItemInvariant, <1>1, PTL
=============================================================================
