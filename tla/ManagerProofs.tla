------------------------------- MODULE ManagerProofs -------------------------------
(***************************************************************************)
(* The two managers, each alone, whatever the users, the sessions and the *)
(* timeouts.  The lock manager keeps its types and its window bound.  The *)
(* approval manager keeps its types, never has two pending requests for a *)
(* session, and never revives or relabels a request.                      *)
(***************************************************************************)
EXTENDS LockManager, ApprovalManager, TLAPS

----------------------------------------------------------------------------
(* The lock manager *)

LockInv == LockTypeOK /\ WindowBounded

\* What every method returns to the map is a session with a proper window.
BoundedSession(x) ==
    IF x.locked THEN x.expires = NoTime
    ELSE x.expires # NoTime /\ x.expires <= LockTimeout

\* An instant that ages stays one, and never moves away.
LEMMA AgedInstant ==
    ASSUME NEW t \in Int
    PROVE  Aged(t) \in Int /\ Aged(t) <= t
BY NoTimeAssumption DEF Aged, Passed

\* A freshly locked session is a well-formed one.
LEMMA LockedSessionOK ==
    ASSUME NEW u \in UserID
    PROVE  LockedSession(u) \in Session /\ BoundedSession(LockedSession(u))
BY DEF LockedSession, Session, BoundedSession

\* So is a freshly unlocked one.
LEMMA UnlockedSessionOK ==
    ASSUME NEW u \in UserID
    PROVE  UnlockedSession(u) \in Session /\ BoundedSession(UnlockedSession(u))
BY NoTimeAssumption, LockTimeoutAssumption DEF UnlockedSession, Session, BoundedSession

\* The lazy re-lock keeps a session well-formed.
LEMMA RelockedOK ==
    ASSUME NEW x \in Session, BoundedSession(x)
    PROVE  Relocked(x) \in Session /\ BoundedSession(Relocked(x))
BY LockedSessionOK DEF Relocked, Session

\* LockInv, one session at a time.
LEMMA LockInvPointwise ==
    LockInv <=>
        /\ LockTypeOK
        /\ \A s \in SessionID : sessions[s] # NoSession => BoundedSession(sessions[s])
BY DEF LockInv, WindowBounded, BoundedSession

\* Every method of the lock manager, and the clock, preserve LockInv.
LEMMA LockNextPreserves ==
    ASSUME LockInv, [LockNext]_sessions
    PROVE  LockInv'
<1> DEFINE Good(x) == x \in Session /\ BoundedSession(x)
           GoodMap(f) == /\ f \in [SessionID -> Session \cup {NoSession}]
                         /\ \A s \in SessionID : f[s] # NoSession => Good(f[s])
<1>1. GoodMap(sessions)
    BY LockInvPointwise DEF LockTypeOK
<1>2. GoodMap(sessions') => LockInv'
    BY DEF LockInv, LockTypeOK, WindowBounded, BoundedSession
<1> HIDE DEF Good, GoodMap
<1>3. SUFFICES GoodMap(sessions')
    BY <1>2
<1>4. CASE UNCHANGED sessions
    BY <1>1, <1>4
<1>5. CASE AgeSessions
    <2> SUFFICES ASSUME NEW s \in SessionID, sessions[s] # NoSession
                 PROVE  Good([sessions[s] EXCEPT !.expires = Aged(@)])
        BY <1>5 DEF AgeSessions, GoodMap, Good
    <2>1. Good(sessions[s])
        BY <1>1 DEF GoodMap
    <2>2. CASE sessions[s].locked
        BY <2>1, <2>2, NoTimeAssumption DEF Good, Session, BoundedSession, Aged
    <2>3. CASE ~ sessions[s].locked
        <3>1. sessions[s].expires \in Int /\ sessions[s].expires <= LockTimeout
            BY <2>1, <2>3 DEF Good, Session, BoundedSession
        <3>2. Aged(sessions[s].expires) \in Int /\ Aged(sessions[s].expires) <= sessions[s].expires
            BY <3>1, AgedInstant
        <3> QED
            BY <2>1, <2>3, <3>1, <3>2, NoTimeAssumption, LockTimeoutAssumption
            DEF Good, Session, BoundedSession
    <2> QED BY <2>2, <2>3
<1>6. ASSUME NEW u \in UserID, List(u)
      PROVE  GoodMap(sessions')
    BY <1>1, <1>6, RelockedOK DEF List, GoodMap, Good, Owns
<1>7. ASSUME NEW u \in UserID, NEW s \in SessionID, Register(u, s)
      PROVE  GoodMap(sessions')
    BY <1>1, <1>7, LockedSessionOK DEF Register, GoodMap, Good
<1>8. ASSUME NEW u \in UserID, NEW s \in SessionID, GetSession(u, s)
      PROVE  GoodMap(sessions')
    BY <1>1, <1>8, RelockedOK DEF GetSession, GoodMap, Good, Owns
<1>9. ASSUME NEW u \in UserID, NEW s \in SessionID, Unlock(u, s)
      PROVE  GoodMap(sessions')
    BY <1>1, <1>9, UnlockedSessionOK DEF Unlock, GoodMap, Good
<1>10. ASSUME NEW u \in UserID, NEW s \in SessionID, Lock(u, s)
       PROVE  GoodMap(sessions')
    BY <1>1, <1>10, LockedSessionOK DEF Lock, GoodMap, Good
<1>11. ASSUME NEW u \in UserID, NEW s \in SessionID, Unregister(u, s)
       PROVE  GoodMap(sessions')
    BY <1>1, <1>11 DEF Unregister, GoodMap, Good
<1> QED
    BY <1>4, <1>5, <1>6, <1>7, <1>8, <1>9, <1>10, <1>11 DEF LockNext

\* What is unlocked after a step was unlocked before it, for the same user.
OpensNothing ==
    \A s \in SessionID :
        sessions'[s] # NoSession /\ ~ sessions'[s].locked =>
            /\ sessions[s] # NoSession /\ ~ sessions[s].locked
            /\ sessions[s].user = sessions'[s].user

\* Unlock is the only method that can unlock a session.
LEMMA OnlyUnlockOpens ==
    ASSUME LockTypeOK,
           \/ AgeSessions
           \/ UNCHANGED sessions
           \/ \E u \in UserID, s \in SessionID :
                Register(u, s) \/ GetSession(u, s) \/ List(u) \/ Lock(u, s) \/ Unregister(u, s)
    PROVE  OpensNothing
<1>1. CASE UNCHANGED sessions
    BY <1>1 DEF OpensNothing
<1>2. CASE AgeSessions
    <2> SUFFICES ASSUME NEW s \in SessionID, sessions[s] # NoSession
                 PROVE  /\ sessions'[s].locked = sessions[s].locked
                        /\ sessions'[s].user = sessions[s].user
        BY <1>2 DEF OpensNothing, AgeSessions
    <2>1. sessions[s] \in Session
        BY DEF LockTypeOK
    <2>2. sessions'[s] = [sessions[s] EXCEPT !.expires = Aged(@)]
        BY <1>2 DEF AgeSessions
    <2> QED BY <2>1, <2>2 DEF Session
<1>3. ASSUME NEW u \in UserID, NEW s \in SessionID, Register(u, s) \/ Lock(u, s) \/ Unregister(u, s)
      PROVE  OpensNothing
    BY <1>3 DEF OpensNothing, LockTypeOK, Register, Lock, Unregister, LockedSession
<1>4. ASSUME NEW u \in UserID, NEW s \in SessionID, GetSession(u, s) \/ List(u)
      PROVE  OpensNothing
    BY <1>4 DEF OpensNothing, LockTypeOK, GetSession, List, Relocked, LockedSession
<1> QED BY <1>1, <1>2, <1>3, <1>4

\* No call but Unlock opens a window or moves its end away.
ExtendsNothing ==
    \A s \in SessionID : UnlockedNow(s)' =>
        UnlockedNow(s) /\ sessions'[s].expires <= sessions[s].expires

LEMMA OnlyUnlockExtends ==
    ASSUME LockInv,
           \/ AgeSessions
           \/ UNCHANGED sessions
           \/ \E u \in UserID, s \in SessionID :
                Register(u, s) \/ GetSession(u, s) \/ List(u) \/ Lock(u, s) \/ Unregister(u, s)
    PROVE  ExtendsNothing
<1> SUFFICES ASSUME NEW s \in SessionID, UnlockedNow(s)'
             PROVE  UnlockedNow(s) /\ sessions'[s].expires <= sessions[s].expires
    BY DEF ExtendsNothing
<1>1. LockTypeOK /\ OpensNothing
    BY OnlyUnlockOpens DEF LockInv
<1>2. /\ sessions'[s] # NoSession /\ ~ sessions'[s].locked
      /\ sessions[s] # NoSession /\ ~ sessions[s].locked
    BY <1>1 DEF UnlockedNow, OpensNothing
<1>3. /\ sessions[s] \in Session
      /\ sessions[s].expires \in Int
      /\ sessions[s].expires # NoTime
    BY <1>1, <1>2, NoTimeAssumption DEF LockTypeOK, LockInv, WindowBounded, Session
<1>4. CASE AgeSessions
    <2>1. sessions'[s] = [sessions[s] EXCEPT !.expires = Aged(@)]
        BY <1>2, <1>4 DEF AgeSessions
    <2>2. sessions'[s].expires = Aged(sessions[s].expires)
        BY <1>3, <2>1 DEF Session
    <2>3. /\ Aged(sessions[s].expires) \in Int
          /\ Aged(sessions[s].expires) <= sessions[s].expires
        BY <1>3, AgedInstant
    <2>4. ~ Passed(sessions'[s].expires)
        BY <1>2, <2>2, <2>3, NoTimeAssumption DEF UnlockedNow, WindowPassed
    <2>5. ~ Passed(sessions[s].expires)
        BY <1>3, <2>2, <2>3, <2>4 DEF Passed
    <2> QED BY <1>2, <2>2, <2>3, <2>5 DEF UnlockedNow, WindowPassed
<1>5. CASE ~ AgeSessions
    <2>1. sessions'[s] = sessions[s]
        <3>1. LockedSession(sessions[s].user).locked
            BY DEF LockedSession
        <3>2. ASSUME NEW u \in UserID
              PROVE  LockedSession(u).locked
            BY DEF LockedSession
        <3> QED BY <1>1, <1>2, <1>5, <3>1, <3>2
                DEF LockTypeOK, Register, GetSession, List, Lock, Unregister, Relocked
    <2>2. UnlockedNow(s)
        BY <2>1 DEF UnlockedNow, WindowPassed, Passed
    <2> QED BY <1>3, <2>1, <2>2
<1> QED BY <1>4, <1>5

\* The lock manager alone, under any sequence of calls: its types hold, and no
\* session is unlocked without a deadline inside the configured timeout.
THEOREM LockManagerCorrect == LockSpec => []LockInv
<1>1. LockInit => LockInv
    BY DEF LockInit, LockInv, LockTypeOK, WindowBounded
<1>2. LockInv /\ [LockNext]_sessions => LockInv'
    BY LockNextPreserves
<1> QED
    BY <1>1, <1>2, PTL DEF LockSpec

----------------------------------------------------------------------------
(* The approval manager *)

ApprovalInv == ApprovalTypeOK /\ OnePending

\* What no call may do to a request that is on record: forget it, give it to
\* another user or session, put off its deadline, or make it pending again.
KeepsRecord ==
    \A id \in ApprovalID : id \in Issued =>
        /\ id \in Issued'
        /\ requests'[id].user = requests[id].user
        /\ requests'[id].session = requests[id].session
        /\ requests'[id].expires <= requests[id].expires
        /\ id \in Pending' => id \in Pending

\* Two requests for the same user and session.
SameSession(r, q) == r.user = q.user /\ r.session = q.session

IsPending(r) == r # NoRequest /\ r.status = "pending"

\* OnePending, without the sets.
LEMMA OnePendingPointwise ==
    OnePending <=>
        \A i, j \in ApprovalID :
            /\ IsPending(requests[i]) /\ IsPending(requests[j])
            /\ SameSession(requests[i], requests[j])
            => i = j
BY DEF OnePending, Pending, Issued, IsPending, SameSession

\* r may replace q in the map, as far as a request on record is concerned.
Succeeds(r, q) ==
    /\ r \in ApprovalRequest
    /\ SameSession(r, q)
    /\ r.expires <= q.expires
    /\ r.status = "pending" => q.status = "pending"

\* A step that only replaces requests by their successors preserves everything.
LEMMA SuccessorsPreserve ==
    ASSUME ApprovalInv,
           requests' \in [ApprovalID -> ApprovalRequest \cup {NoRequest}],
           \A id \in ApprovalID :
              IF requests[id] = NoRequest THEN requests'[id] = NoRequest
              ELSE Succeeds(requests'[id], requests[id])
    PROVE  ApprovalInv' /\ KeepsRecord
<1>1. ApprovalTypeOK'
    BY DEF ApprovalTypeOK
<1>2. \A id \in ApprovalID :
        requests[id] # NoRequest =>
            /\ requests'[id] # NoRequest
            /\ SameSession(requests'[id], requests[id])
            /\ requests'[id].expires <= requests[id].expires
            /\ IsPending(requests'[id]) => IsPending(requests[id])
    BY NoRequestAssumption DEF Succeeds, IsPending
<1>3. OnePending'
    <2> SUFFICES ASSUME NEW i \in ApprovalID, NEW j \in ApprovalID,
                        IsPending(requests'[i]), IsPending(requests'[j]),
                        SameSession(requests'[i], requests'[j])
                 PROVE  i = j
        BY DEF OnePending, Pending, Issued, IsPending, SameSession
    <2>1. IsPending(requests[i]) /\ IsPending(requests[j])
        BY <1>2 DEF IsPending
    <2>2. SameSession(requests[i], requests[j])
        BY <1>2, <2>1 DEF SameSession, IsPending
    <2> QED BY <2>1, <2>2, OnePendingPointwise DEF ApprovalInv
<1>4. KeepsRecord
    BY <1>2 DEF KeepsRecord, Issued, Pending, SameSession, IsPending
<1> QED BY <1>1, <1>3, <1>4 DEF ApprovalInv

\* Marking any requests expired is such a step.
LEMMA MarkExpiredPreserves ==
    ASSUME ApprovalInv, NEW ids \in SUBSET Issued, requests' = MarkExpired(ids)
    PROVE  ApprovalInv' /\ KeepsRecord
<1>1. ASSUME NEW id \in ApprovalID
      PROVE  IF requests[id] = NoRequest THEN requests'[id] = NoRequest
             ELSE Succeeds(requests'[id], requests[id])
    BY DEF ApprovalInv, ApprovalTypeOK, MarkExpired, Issued, Succeeds, SameSession,
           ApprovalRequest, Status
<1>2. requests' \in [ApprovalID -> ApprovalRequest \cup {NoRequest}]
    BY <1>1 DEF MarkExpired, Succeeds
<1> QED BY <1>1, <1>2, SuccessorsPreserve

\* So is a verdict.
LEMMA ResolvePreserves ==
    ASSUME ApprovalInv, NEW id \in ApprovalID, NEW verdict \in Status \ {"pending"},
           Resolve(id, verdict)
    PROVE  ApprovalInv' /\ KeepsRecord
<1> DEFINE outcome == IF Overdue(id) THEN "expired"
                      ELSE IF requests[id].status = "pending" THEN verdict
                           ELSE requests[id].status
<1>1. requests[id] \in ApprovalRequest
    BY DEF ApprovalInv, ApprovalTypeOK, Resolve, Issued
<1>2. outcome \in Status /\ (outcome = "pending" => requests[id].status = "pending")
    BY <1>1 DEF Status, ApprovalRequest
<1>3. requests' = [requests EXCEPT ![id] = [@ EXCEPT !.status = outcome]]
    BY DEF Resolve
<1> HIDE DEF outcome
<1>4. Succeeds([requests[id] EXCEPT !.status = outcome], requests[id])
    BY <1>1, <1>2 DEF Succeeds, SameSession, ApprovalRequest
<1>5. ASSUME NEW x \in ApprovalID
      PROVE  IF requests[x] = NoRequest THEN requests'[x] = NoRequest
             ELSE Succeeds(requests'[x], requests[x])
    <2>1. CASE x = id
        BY <1>1, <1>3, <1>4, <2>1, NoRequestAssumption DEF ApprovalInv, ApprovalTypeOK
    <2>2. CASE x # id
        <3>1. requests'[x] = requests[x]
            BY <1>3, <2>2 DEF ApprovalInv, ApprovalTypeOK
        <3>2. requests[x] \in ApprovalRequest => Succeeds(requests[x], requests[x])
            BY DEF Succeeds, SameSession, ApprovalRequest
        <3> QED BY <3>1, <3>2 DEF ApprovalInv, ApprovalTypeOK
    <2> QED BY <2>1, <2>2
<1>6. requests' \in [ApprovalID -> ApprovalRequest \cup {NoRequest}]
    BY <1>3, <1>4 DEF ApprovalInv, ApprovalTypeOK, Succeeds
<1> QED BY <1>5, <1>6, SuccessorsPreserve

\* Ageing is.
LEMMA AgeRequestsPreserves ==
    ASSUME ApprovalInv, AgeRequests
    PROVE  ApprovalInv' /\ KeepsRecord
<1>1. ASSUME NEW id \in ApprovalID
      PROVE  IF requests[id] = NoRequest THEN requests'[id] = NoRequest
             ELSE Succeeds(requests'[id], requests[id])
    <2>1. CASE requests[id] = NoRequest
        BY <2>1 DEF AgeRequests, Issued
    <2>2. CASE requests[id] # NoRequest
        <3>1. requests[id] \in ApprovalRequest
            BY <2>2 DEF ApprovalInv, ApprovalTypeOK
        <3>2. Aged(requests[id].expires) \in Int /\ Aged(requests[id].expires) <= requests[id].expires
            BY <3>1, NoTimeAssumption DEF Aged, Passed, ApprovalRequest
        <3>3. requests'[id] = [requests[id] EXCEPT !.expires = Aged(@)]
            BY <2>2 DEF AgeRequests, Issued
        <3> QED BY <2>2, <3>1, <3>2, <3>3 DEF Succeeds, SameSession, ApprovalRequest
    <2> QED BY <2>1, <2>2
<1>2. requests' \in [ApprovalID -> ApprovalRequest \cup {NoRequest}]
    BY <1>1 DEF AgeRequests, Succeeds
<1> QED BY <1>1, <1>2, SuccessorsPreserve

\* The step that could break OnePending: a new request is only made pending when
\* every other one of its session has been marked.
LEMMA CreatePendingPreserves ==
    ASSUME ApprovalInv, NEW id \in ApprovalID, NEW u \in UserID, NEW s \in SessionID,
           CreatePending(id, u, s)
    PROVE  ApprovalInv' /\ KeepsRecord
<1> DEFINE new == [user |-> u, session |-> s, status |-> "pending", expires |-> ApprovalTimeout]
           marked == MarkExpired(PendingFor(u, s))
<1>1. new \in ApprovalRequest
    BY ApprovalTimeoutAssumption DEF ApprovalRequest, Status
<1>2. requests[id] = NoRequest
    BY DEF CreatePending, FreshIDs, Issued
<1>3. requests' = [marked EXCEPT ![id] = new]
    BY DEF CreatePending
<1>4. \A x \in ApprovalID : requests[x] = NoRequest => marked[x] = NoRequest
    BY DEF MarkExpired, PendingFor, Pending, Issued
<1>5. \A x \in ApprovalID : requests[x] # NoRequest =>
        /\ Succeeds(marked[x], requests[x])
        /\ ~ (marked[x].status = "pending" /\ SameSession(marked[x], new))
    BY DEF ApprovalInv, ApprovalTypeOK, MarkExpired, PendingFor, Pending, Issued,
           Succeeds, SameSession, ApprovalRequest, Status
<1>6. marked \in [ApprovalID -> ApprovalRequest \cup {NoRequest}]
    BY <1>4, <1>5 DEF MarkExpired, Succeeds
<1> HIDE DEF marked
<1>7. ApprovalTypeOK'
    BY <1>1, <1>3, <1>6 DEF ApprovalTypeOK
<1>8. requests'[id] = new /\ \A x \in ApprovalID \ {id} : requests'[x] = marked[x]
    BY <1>3, <1>6
<1> HIDE DEF new
<1>9. OnePending'
    <2> SUFFICES ASSUME NEW i \in ApprovalID, NEW j \in ApprovalID,
                        IsPending(requests'[i]), IsPending(requests'[j]),
                        SameSession(requests'[i], requests'[j]),
                        i # j
                 PROVE  FALSE
        BY DEF OnePending, Pending, Issued, IsPending, SameSession
    <2>1. CASE i = id
        <3>1. SameSession(marked[j], new) /\ IsPending(marked[j])
            BY <1>8, <2>1 DEF SameSession, IsPending
        <3> QED BY <1>4, <1>5, <3>1 DEF IsPending
    <2>2. CASE j = id
        <3>1. SameSession(marked[i], new) /\ IsPending(marked[i])
            BY <1>8, <2>2 DEF SameSession, IsPending
        <3> QED BY <1>4, <1>5, <3>1 DEF IsPending
    <2>3. CASE i # id /\ j # id
        <3>1. /\ IsPending(marked[i]) /\ IsPending(marked[j])
              /\ SameSession(marked[i], marked[j])
            BY <1>8, <2>3
        <3>2. /\ IsPending(requests[i]) /\ IsPending(requests[j])
              /\ SameSession(requests[i], requests[j])
            BY <1>4, <1>5, <3>1 DEF IsPending, SameSession, Succeeds
        <3> QED BY <3>2, OnePendingPointwise DEF ApprovalInv
    <2> QED BY <2>1, <2>2, <2>3
<1>10. KeepsRecord
    <2> SUFFICES ASSUME NEW x \in ApprovalID, requests[x] # NoRequest
                 PROVE  /\ requests'[x] # NoRequest
                        /\ SameSession(requests'[x], requests[x])
                        /\ requests'[x].expires <= requests[x].expires
                        /\ requests'[x].status = "pending" => requests[x].status = "pending"
        BY DEF KeepsRecord, Issued, Pending, SameSession
    <2> QED BY <1>2, <1>5, <1>8, NoRequestAssumption DEF Succeeds
<1> QED BY <1>7, <1>9, <1>10 DEF ApprovalInv

\* Every method of the approval manager, and the clock.
LEMMA ApprovalNextPreserves ==
    ASSUME ApprovalInv, [ApprovalNext]_requests
    PROVE  ApprovalInv' /\ KeepsRecord
<1>1. CASE UNCHANGED requests
    BY <1>1 DEF ApprovalInv, ApprovalTypeOK, ApprovalRequest, OnePending, Pending, Issued, KeepsRecord
<1>2. CASE AgeRequests
    BY <1>2, AgeRequestsPreserves
<1>3. CASE ExpireOld
    BY <1>3, MarkExpiredPreserves DEF ExpireOld, Stale, Pending
<1>4. ASSUME NEW id \in ApprovalID, Get(id)
      PROVE  ApprovalInv' /\ KeepsRecord
    BY <1>4, MarkExpiredPreserves DEF Get, Stale, Pending
<1>5. ASSUME NEW id \in ApprovalID, Approve(id) \/ Deny(id)
      PROVE  ApprovalInv' /\ KeepsRecord
    BY <1>5, ResolvePreserves DEF Approve, Deny, Status
<1>6. ASSUME NEW u \in UserID, NEW s \in SessionID, FindPending(u, s)
      PROVE  ApprovalInv' /\ KeepsRecord
    <2>1. PICK met \in SUBSET PendingFor(u, s) : requests' = MarkExpired(met)
        BY <1>6 DEF FindPending
    <2>2. met \in SUBSET Issued
        BY DEF PendingFor, Pending
    <2> QED BY <2>1, <2>2, MarkExpiredPreserves
<1>7. ASSUME NEW u \in UserID, NEW s \in SessionID, NEW id \in ApprovalID,
             CreatePending(id, u, s)
      PROVE  ApprovalInv' /\ KeepsRecord
    BY <1>7, CreatePendingPreserves
<1> QED
    BY <1>1, <1>2, <1>3, <1>4, <1>5, <1>6, <1>7 DEF ApprovalNext

\* A request that can be resolved is on record and pending; approved, it is still on
\* record and not pending any more.
LEMMA ApprovedNotPending ==
    ASSUME ApprovalTypeOK, NEW id, Resolvable(id), Approve(id)
    PROVE  id \in ApprovalID /\ id \in Pending /\ id \in Issued' /\ id \notin Pending'
<1>1. id \in ApprovalID /\ id \in Pending /\ ~ Overdue(id)
    BY DEF Resolvable, Pending, Issued
<1>2. requests[id] \in ApprovalRequest
    BY <1>1 DEF Pending, Issued, ApprovalTypeOK
<1>3. requests'[id] = [requests[id] EXCEPT !.status = "approved"]
    BY <1>1, <1>2 DEF Approve, Resolve, Pending, ApprovalTypeOK
<1>4. requests'[id] \in ApprovalRequest /\ requests'[id].status = "approved"
    BY <1>2, <1>3 DEF ApprovalRequest, Status
<1> QED BY <1>1, <1>4, NoRequestAssumption DEF Issued, Pending

Verdict == {"approved", "denied"}

\* Whatever has a verdict after the step had it before.
NoVerdictGiven ==
    \A id \in Issued' : \A v \in Verdict :
        requests'[id].status = v => id \in Issued /\ requests[id].status = v

\* Only Approve and Deny give a verdict: what is found stale is marked expired, and a
\* new request is pending.
LEMMA OthersGiveNone ==
    ASSUME ApprovalTypeOK,
           \/ UNCHANGED requests
           \/ AgeRequests
           \/ ExpireOld
           \/ \E id \in ApprovalID : Get(id)
           \/ \E u \in UserID, s \in SessionID :
                FindPending(u, s) \/ \E id \in ApprovalID : CreatePending(id, u, s)
    PROVE  NoVerdictGiven
<1>1. CASE UNCHANGED requests
    BY <1>1 DEF NoVerdictGiven, Issued
<1>2. CASE AgeRequests
    BY <1>2 DEF NoVerdictGiven, AgeRequests, Issued, ApprovalTypeOK, ApprovalRequest
<1>3. ASSUME NEW ids \in SUBSET Issued, NEW id \in ids
      PROVE  MarkExpired(ids)[id].status = "expired"
    BY <1>3 DEF MarkExpired, Issued, ApprovalTypeOK, ApprovalRequest
<1>4. ASSUME NEW ids \in SUBSET Issued, requests' = MarkExpired(ids)
      PROVE  NoVerdictGiven
    <2> SUFFICES ASSUME NEW id \in Issued', NEW v \in Verdict, requests'[id].status = v
                 PROVE  id \in Issued /\ requests[id].status = v
        BY DEF NoVerdictGiven
    <2>1. id \notin ids
        BY <1>3, <1>4 DEF Verdict
    <2> QED BY <1>4, <2>1 DEF MarkExpired, Issued
<1>5. CASE ExpireOld \/ \E id \in ApprovalID : Get(id)
    <2>1. PICK ids \in SUBSET Stale : requests' = MarkExpired(ids)
        BY <1>5 DEF ExpireOld, Get
    <2> QED BY <1>4, <2>1 DEF Stale, Pending
<1>6. ASSUME NEW u \in UserID, NEW s \in SessionID, FindPending(u, s)
      PROVE  NoVerdictGiven
    <2>1. PICK ids \in SUBSET PendingFor(u, s) : requests' = MarkExpired(ids)
        BY <1>6 DEF FindPending
    <2> QED BY <1>4, <2>1 DEF PendingFor, Pending
<1>7. ASSUME NEW u \in UserID, NEW s \in SessionID, NEW new \in ApprovalID, CreatePending(new, u, s)
      PROVE  NoVerdictGiven
    <2> DEFINE ids == PendingFor(u, s)
    <2>1. ids \in SUBSET Issued
        BY DEF PendingFor, Pending
    <2>2. /\ requests'[new].status = "pending"
          /\ \A id \in ApprovalID \ {new} : requests'[id] = MarkExpired(ids)[id]
        BY <1>7 DEF CreatePending, MarkExpired
    <2> HIDE DEF ids
    <2> SUFFICES ASSUME NEW id \in Issued', NEW v \in Verdict, requests'[id].status = v
                 PROVE  id \in Issued /\ requests[id].status = v
        BY DEF NoVerdictGiven
    <2>3. id \in ApprovalID \ {new}
        BY <2>2 DEF Issued, Verdict
    <2>4. id \notin ids
        BY <1>3, <2>1, <2>2, <2>3 DEF Verdict
    <2> QED BY <2>2, <2>3, <2>4 DEF MarkExpired, Issued
<1> QED BY <1>1, <1>2, <1>5, <1>6, <1>7

\* A call of Approve or Deny gives its own verdict, to the request it is about, and
\* only if that can be resolved.
LEMMA ResolveGivesOne ==
    ASSUME ApprovalTypeOK, NEW id, NEW verdict, Resolve(id, verdict),
           NEW other \in Issued', NEW v \in Verdict, requests'[other].status = v
    PROVE  \/ other \in Issued /\ requests[other].status = v
           \/ other = id /\ v = verdict /\ Resolvable(id)
<1> DEFINE outcome == IF Overdue(id) THEN "expired"
                      ELSE IF requests[id].status = "pending" THEN verdict
                           ELSE requests[id].status
<1>1. id \in Issued /\ id \in ApprovalID /\ requests[id] \in ApprovalRequest
    BY DEF Resolve, Issued, ApprovalTypeOK
<1>2. /\ requests'[id].status = outcome
      /\ \A x \in ApprovalID \ {id} : requests'[x] = requests[x]
    BY <1>1 DEF Resolve, ApprovalTypeOK, ApprovalRequest
<1>3. CASE other = id
    BY <1>1, <1>2, <1>3 DEF Resolvable, Pending, Verdict
<1>4. CASE other # id
    BY <1>2, <1>4 DEF Issued
<1> QED BY <1>3, <1>4

LEMMA ApprovalInitOK == ApprovalInit => ApprovalInv
BY DEF ApprovalInit, ApprovalInv, ApprovalTypeOK, OnePending, Pending, Issued

\* The approval manager alone, under any sequence of calls: its types hold and a
\* session has at most one pending request.
THEOREM ApprovalManagerCorrect == ApprovalSpec => []ApprovalInv
<1>1. ApprovalInv /\ [ApprovalNext]_requests => ApprovalInv'
    BY ApprovalNextPreserves
<1> QED
    BY ApprovalInitOK, <1>1, PTL DEF ApprovalSpec

\* A settled request never becomes pending again, and no request changes user or
\* session, has its deadline put off, or is forgotten.
THEOREM RecordsAreKept == ApprovalSpec => [][KeepsRecord]_requests
<1>1. ApprovalInv /\ [ApprovalNext]_requests => [KeepsRecord]_requests
    BY ApprovalNextPreserves
<1> QED
    BY ApprovalManagerCorrect, <1>1, PTL DEF ApprovalSpec
=============================================================================
