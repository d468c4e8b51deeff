-------------------------- MODULE ApprovalManager --------------------------
(***************************************************************************)
(* The approval requests of the WCM (wcm/internal/approval/manager.go).   *)
(*                                                                         *)
(* Every method of approval.Manager runs under its mutex, so every method *)
(* is one action (GetOrCreate is two, one for each of its results).       *)
(* Requests are never deleted: an id that was resolved keeps its record.  *)
(* The application name and the workspace are labels and are left out.    *)
(***************************************************************************)
EXTENDS WCMData

CONSTANTS
    ApprovalTimeout,    \* WCM_APPROVAL_TIMEOUT
    NoRequest           \* a key the requests map does not hold

ASSUME ApprovalTimeoutAssumption == ApprovalTimeout \in Int

VARIABLE requests       \* Manager.requests

Status == {"pending", "approved", "denied", "expired"}

ApprovalRequest ==
    [user : UserID, session : SessionID, status : Status, expires : Int]

ASSUME NoRequestAssumption == NoRequest \notin ApprovalRequest

ApprovalTypeOK == requests \in [ApprovalID -> ApprovalRequest \cup {NoRequest}]

----------------------------------------------------------------------------
Issued   == {id \in ApprovalID : requests[id] # NoRequest}
FreshIDs == ApprovalID \ Issued
Pending  == {id \in Issued : requests[id].status = "pending"}

PendingFor(u, s) == {id \in Pending : requests[id].user = u /\ requests[id].session = s}

\* requests with the given ids marked expired.
MarkExpired(ids) ==
    [id \in ApprovalID |->
        IF id \in ids THEN [requests[id] EXCEPT !.status = "expired"] ELSE requests[id]]

\* GetOrCreate tests Before(ExpiresAt); the other methods test After(ExpiresAt).
Live(id)    == Ahead(requests[id].expires)
Overdue(id) == Passed(requests[id].expires)

\* GetOrCreate returns a live pending request (created = false).  The loop
\* ranges over a Go map: any of the stale ones may be met, and marked, first.
FindPending(u, s) ==
    /\ \E id \in PendingFor(u, s) : Live(id)
    /\ \E met \in SUBSET {id \in PendingFor(u, s) : ~ Live(id)} :
            requests' = MarkExpired(met)

\* Mutation: stale requests are skipped but not marked.
CreatePending_KeepsStale(id, u, s) ==
    /\ id \in FreshIDs
    /\ \A other \in PendingFor(u, s) : ~ Live(other)
    /\ requests' = [requests EXCEPT ![id] =
                        [user |-> u, session |-> s,
                         status |-> "pending", expires |-> ApprovalTimeout]]

\* GetOrCreate finds none, marks every stale one and stores a new request.
CreatePending(id, u, s) ==
    /\ id \in FreshIDs
    /\ \A other \in PendingFor(u, s) : ~ Live(other)
    /\ requests' = [MarkExpired(PendingFor(u, s)) EXCEPT ![id] =
                        [user |-> u, session |-> s,
                         status |-> "pending", expires |-> ApprovalTimeout]]

\* Mutation: the status is not tested.
Stale_AnyStatus == {id \in Issued : Overdue(id)}

\* The lazy expiry of Get; also what one round of ExpireOld does to a request.
Stale == {id \in Pending : Overdue(id)}

Get(id) == id \in Issued /\ requests' = MarkExpired({id} \cap Stale)

\* Mutation: "already_resolved" is not tested.
Resolvable_Twice(id) == id \in Issued /\ ~ Overdue(id)

\* Approve and Deny differ in the verdict only.  "expired" is tested first,
\* and written, whatever the status was; then "already_resolved".
Resolvable(id) == id \in Pending /\ ~ Overdue(id)

Resolve(id, verdict) ==
    /\ id \in Issued
    /\ requests' =
        [requests EXCEPT ![id].status =
            IF Overdue(id) THEN "expired" ELSE IF @ = "pending" THEN verdict ELSE @]

\* Mutation: a status the model package does not define.
Deny_Misspelt(id) == Resolve(id, "rejected")

Approve(id) == Resolve(id, "approved")
Deny(id)    == Resolve(id, "denied")

\* Mutation: the status is set on the copies that are returned.
ExpireOld_MarksCopies == UNCHANGED requests

\* Returns the requests it marked: Stale, in the state before.
ExpireOld == requests' = MarkExpired(Stale)

AgeRequests ==
    requests' = [id \in ApprovalID |->
                    IF id \in Issued THEN [requests[id] EXCEPT !.expires = Aged(@)]
                    ELSE NoRequest]

----------------------------------------------------------------------------
ApprovalInit == requests = [id \in ApprovalID |-> NoRequest]

ApprovalNext ==
    \/ AgeRequests
    \/ ExpireOld
    \/ \E id \in ApprovalID : Get(id) \/ Approve(id) \/ Deny(id)
    \/ \E u \in UserID, s \in SessionID :
        FindPending(u, s) \/ \E id \in ApprovalID : CreatePending(id, u, s)

ApprovalSpec == ApprovalInit /\ [][ApprovalNext]_requests

----------------------------------------------------------------------------
\* A session never has two pending requests: the second caller gets the first
\* one's id (409), whatever the order in which callers, the sweeper, the
\* approver and the clock reach the map.
OnePending ==
    \A i, j \in Pending :
        (requests[i].user = requests[j].user /\ requests[i].session = requests[j].session)
            => i = j

\* The documented meaning of a verdict (410 approval_resolved, "already approved
\* or denied"): once approved or denied, a request stays what it was.
VerdictIsFinal ==
    [][\A id \in ApprovalID :
        id \in Issued /\ requests[id].status \in {"approved", "denied"}
            => requests'[id].status = requests[id].status]_requests
=============================================================================
