---------------------------- MODULE ItemObjects ----------------------------
(***************************************************************************)
(* The items and the sessions the proxy shows on the bus                  *)
(* (proxy/internal/dbus: proxy.go, service.go, collection.go, item.go,    *)
(* session.go).  Every search exports what it found and a deletion        *)
(* un-exports; Proxy.exportedItems records what is exported.  A session   *)
(* is an object that stays, and a key in Proxy.dbSessions until Close.    *)
(*                                                                         *)
(* The record is kept under a mutex.  The credentials are in the WCM,     *)
(* where a browser changes them too, and the objects are on the bus: a    *)
(* call is a request to the WCM, a change of the bus and a change of the  *)
(* record, and anything may happen between them.  Requests get lost, on   *)
(* the way there or on the way back.                                       *)
(***************************************************************************)
EXTENDS CredentialStore, Naturals

CONSTANTS
    OwnerEmail,     \* OWNER_EMAIL, the user whose proxy this is
    Call,           \* D-Bus calls that may be under way at once
    MaxSessions     \* bound of the model: how often OpenSession is called

ASSUME OwnerAssumption    == OwnerEmail \in UserID
ASSUME SessionsAssumption == MaxSessions \in Nat

VARIABLES
    objects,        \* the items that are objects on the bus
    exportedItems,  \* Proxy.exportedItems
    sessionID,      \* Proxy.sessionID, the number of the last session
    dbSessions,     \* Proxy.dbSessions
    call,           \* where each call is, with its local variables
    told            \* history: the items whose paths have been returned to a caller

itemVars    == <<credentials, drawn, objects, exportedItems, told>>
sessionVars == <<sessionID, dbSessions>>
vars        == <<credentials, drawn, objects, exportedItems, told, sessionID, dbSessions, call>>

----------------------------------------------------------------------------
Idle == [pc |-> "idle"]

\* Having heard from the WCM of the credentials with these ids.
Found(ids) == [pc |-> "found", ids |-> ids]

\* Delete, before it un-exports the object and before it changes the record.
Removing(pc, id) == [pc |-> pc, id |-> id]

\* OpenSession, with the number it has drawn.
Opening(n) == [pc |-> "opening", number |-> n]

Step ==
    {Idle}
        \cup [pc : {"found"}, ids : SUBSET CredentialID]
        \cup [pc : {"unexport", "forget"}, id : CredentialID]
        \cup [pc : {"opening"}, number : 1 .. MaxSessions]

At(p, pc)     == call[p].pc = pc
Goto(p, next) == call' = [call EXCEPT ![p] = next]

----------------------------------------------------------------------------
(* Searches, and the Items property of the collection *)

\* SearchCredentials.  A failure ends the call; GetAll takes it for an empty result.
SearchItems(p) ==
    /\ At(p, "idle")
    /\ \/ \E wanted \in Attributes : Goto(p, Found(Search(OwnerEmail, "default", wanted)))
       \/ Goto(p, Found({}))
    /\ UNCHANGED <<itemVars, sessionVars>>

\* CreateCredential, or UpdateCredential of an item that is to be replaced.  The answer
\* may be lost.
CreateItem(p) ==
    /\ At(p, "idle")
    /\ \E id \in CredentialID, credential \in Credential :
        /\ credential.user = OwnerEmail
        /\ Create(id, credential) \/ (Has(OwnerEmail, id) /\ Update(id, credential))
        /\ Goto(p, Found({id})) \/ UNCHANGED call
    /\ UNCHANGED <<objects, exportedItems, told, sessionVars>>

\* Under the mutex: what is recorded is taken to be exported.
EnsureItemsExported(ids) ==
    /\ objects' = objects \cup (ids \ exportedItems)
    /\ exportedItems' = exportedItems \cup ids

\* ... and the paths are returned, if Service.SearchItems can still check the lock.
ExportFound(p) ==
    /\ At(p, "found")
    /\ EnsureItemsExported(call[p].ids)
    /\ told' = told \cup call[p].ids \/ UNCHANGED told
    /\ Goto(p, Idle)
    /\ UNCHANGED <<credentials, drawn, sessionVars>>

----------------------------------------------------------------------------
(* Item.Delete *)

\* Mutations: 404 is as good as 204; a failed request is.
DeleteItem_Idempotent(p, id) ==
    /\ At(p, "idle") /\ id \in objects
    /\ Delete(OwnerEmail, id)
    /\ Goto(p, Removing("unexport", id))
    /\ UNCHANGED <<objects, exportedItems, told, sessionVars>>

DeleteItem_IgnoresFailure(p, id) ==
    /\ At(p, "idle") /\ id \in objects
    /\ Delete(OwnerEmail, id) \/ UNCHANGED <<credentials, drawn>>
    /\ Goto(p, Removing("unexport", id))
    /\ UNCHANGED <<objects, exportedItems, told, sessionVars>>

\* DeleteCredential.  An error, also a lost answer, ends the call.
DeleteItem(p, id) ==
    /\ At(p, "idle") /\ id \in objects
    /\ Delete(OwnerEmail, id)
    /\ \/ Has(OwnerEmail, id) /\ Goto(p, Removing("unexport", id))
       \/ UNCHANGED call
    /\ UNCHANGED <<objects, exportedItems, told, sessionVars>>

\* removeExportedItem, outside the mutex ...
Unexport(p) ==
    /\ At(p, "unexport")
    /\ objects' = objects \ {call[p].id}
    /\ Goto(p, Removing("forget", call[p].id))
    /\ UNCHANGED <<credentials, drawn, exportedItems, told, sessionVars>>

\* ... and under it.
Forget(p) ==
    /\ At(p, "forget")
    /\ exportedItems' = exportedItems \ {call[p].id}
    /\ Goto(p, Idle)
    /\ UNCHANGED <<credentials, drawn, objects, told, sessionVars>>

----------------------------------------------------------------------------
(* Sessions of D-Bus clients *)

\* Mutation: the counter is read, and written when the session is recorded.
OpenSession_ReadsCounter(p) ==
    /\ At(p, "idle")
    /\ sessionID < MaxSessions
    /\ Goto(p, Opening(sessionID + 1))
    /\ \/ UNCHANGED sessionID
       \/ sessionID' = sessionID + 1
    /\ UNCHANGED <<itemVars, dbSessions>>

\* An atomic counter gives the path, which is exported.
OpenSession(p) ==
    /\ At(p, "idle")
    /\ sessionID < MaxSessions
    /\ sessionID' = sessionID + 1
    /\ Goto(p, Opening(sessionID + 1))
    /\ UNCHANGED <<itemVars, dbSessions>>

RecordSession(p) ==
    /\ At(p, "opening")
    /\ dbSessions' = dbSessions \cup {call[p].number}
    /\ Goto(p, Idle)
    /\ UNCHANGED <<itemVars, sessionID>>

\* Close, on any path that is exported: also before it is recorded, and again.
CloseSession ==
    /\ \E n \in 1 .. sessionID : dbSessions' = dbSessions \ {n}
    /\ UNCHANGED <<itemVars, sessionID, call>>

----------------------------------------------------------------------------
\* A browser deletes, creates or edits; the proxy is not told.
Browser ==
    /\ \E u \in UserID, id \in CredentialID :
        \/ Delete(u, id)
        \/ \E credential \in Credential :
            credential.user = u /\ (Create(id, credential) \/ Update(id, credential))
    /\ UNCHANGED <<objects, exportedItems, told, sessionVars, call>>

Init ==
    /\ StoreInit
    /\ objects = {}
    /\ exportedItems = {}
    /\ sessionID = 0
    /\ dbSessions = {}
    /\ call = [p \in Call |-> Idle]
    /\ told = {}

Next ==
    \/ \E p \in Call :
        \/ SearchItems(p)
        \/ CreateItem(p)
        \/ ExportFound(p)
        \/ Unexport(p)
        \/ Forget(p)
        \/ OpenSession(p)
        \/ RecordSession(p)
        \/ \E id \in CredentialID : DeleteItem(p, id)
    \/ CloseSession
    \/ Browser

Spec == Init /\ [][Next]_vars

----------------------------------------------------------------------------
(* Properties *)

\* Every variable holds a value the code's types allow.
ObjectsTypeOK ==
    /\ StoreTypeOK
    /\ objects \subseteq CredentialID
    /\ exportedItems \subseteq CredentialID
    /\ sessionID \in 0 .. MaxSessions
    /\ dbSessions \subseteq 1 .. sessionID
    /\ call \in [Call -> Step]
    /\ told \subseteq CredentialID

\* A path that was returned to a caller leads to an object on the bus for as long as
\* the credential is there, whichever searches and deletions have met since: the caller
\* never gets UnknownObject for an item that exists.
ReturnedPathsWork == \A id \in told \cap Stored : id \in objects

\* The record agrees with the bus, but for the deletion that has un-exported its object
\* and waits for the mutex.  An object that is not in the record would never be
\* removed; one that is only in the record would never be exported again.
RecordMatchesBus ==
    /\ objects \subseteq exportedItems
    /\ \A id \in exportedItems \ objects : \E p \in Call : call[p] = Removing("forget", id)

\* Two clients that open a session at once never get the same path, so that neither
\* can close the other's.
SessionsAreDistinct ==
    \A p \in Call : At(p, "opening") =>
        /\ call[p].number \in (1 .. sessionID) \ dbSessions
        /\ \A q \in Call : At(q, "opening") /\ call[q].number = call[p].number => p = q
=============================================================================
