---------------------------- MODULE BackedProofs ----------------------------
(***************************************************************************)
(* What is open, or being read, goes back to an approval a person gave.   *)
(*                                                                         *)
(* Approvals are never taken back and never change hands, so what is      *)
(* backed stays so; the one step that opens a session is the unlock of an *)
(* approve handler, whose request is granted (Settled).                    *)
(***************************************************************************)
EXTENDS ApprovalFlowProofs

Backed == UnlockBacked /\ ReadBacked

\* Once a user has been granted a session, that stays on record.
Remembers ==
    \A u \in UserID, s \in SessionID : GrantedFor(u, s) # {} => GrantedFor(u, s)' # {}

LEMMA GrantsRemain ==
    ASSUME FlowTypes, KeepsRecord, granted \subseteq granted'
    PROVE  Remembers
BY StaysSettled DEF FlowTypes, GrantedFor, Remembers

\* Handlers that read after the step did so before it, for the same session.
StartsNoRead == \A p \in Handler : At(p, "read")' => call'[p] = call[p]

LEMMA GotoStartsNoRead ==
    ASSUME FlowTypes, NEW p \in Handler, NEW next, Goto(p, next), next.pc # "read"
    PROVE  StartsNoRead
BY DEF StartsNoRead, At, Goto, FlowTypes

LEMMA ReadsRemainBacked ==
    ASSUME FlowTypes, ReadBacked, Remembers, StartsNoRead
    PROVE  ReadBacked'
<1> SUFFICES ASSUME NEW p \in Handler, At(p, "read")'
             PROVE  GrantedFor(call[p].user, call[p].session)' # {}
    BY DEF ReadBacked
<1>1. call'[p] = call[p] /\ At(p, "read")
    BY DEF StartsNoRead, At
<1>2. PICK u \in UserID, s \in SessionID : u = call[p].user /\ s = call[p].session
    BY <1>1, CallFields DEF FlowTypes, At, SessionStep
<1>3. GrantedFor(u, s) # {}
    BY <1>1, <1>2 DEF ReadBacked
<1>4. GrantedFor(u, s)' # {}
    BY <1>3 DEF Remembers
<1> QED BY <1>1, <1>2, <1>4

LEMMA SessionsRemainBacked ==
    ASSUME FlowTypes, UnlockBacked, Remembers, OpensNothing
    PROVE  UnlockBacked'
<1> SUFFICES ASSUME NEW s \in SessionID, sessions'[s] # NoSession, ~ sessions'[s].locked
             PROVE  GrantedFor(sessions[s].user, s)' # {}
    BY DEF UnlockBacked
<1>1. /\ sessions[s] # NoSession /\ ~ sessions[s].locked
      /\ sessions[s].user = sessions'[s].user
    BY DEF OpensNothing
<1>2. PICK u \in UserID : u = sessions[s].user
    BY <1>1 DEF FlowTypes, LockInv, LockTypeOK, Session
<1>3. GrantedFor(u, s) # {}
    BY <1>1, <1>2 DEF UnlockBacked
<1>4. GrantedFor(u, s)' # {}
    BY <1>3 DEF Remembers
<1> QED BY <1>1, <1>2, <1>4

\* A credential read starts when the lock check saw the session unlocked, and
\* the lock check opens nothing.
LEMMA CheckBacked ==
    ASSUME FlowTypes, Backed, KeepsRecord,
           NEW p \in Handler, NEW u \in UserID, NEW s \in SessionID, CheckCredentials(p, u, s)
    PROVE  Backed'
<1>1. OpensNothing
    BY OnlyUnlockOpens DEF CheckCredentials, FlowTypes, LockInv
<1>2. Remembers
    BY GrantsRemain DEF CheckCredentials
<1>3. UnlockBacked'
    BY <1>1, <1>2, SessionsRemainBacked DEF Backed
<1>4. CASE UNCHANGED call
    BY <1>2, <1>3, <1>4, ReadsRemainBacked DEF Backed, StartsNoRead
<1>5. CASE ~ UNCHANGED call
    <2>1. Owns(u, s) /\ ~ sessions'[s].locked /\ Goto(p, AtSession("read", u, s))
        BY <1>5 DEF CheckCredentials
    <2>2. sessions[s] # NoSession /\ sessions[s].user = u
        BY <2>1 DEF Owns
    <2>3. sessions'[s] # NoSession
        <3>1. sessions[s] \in Session /\ sessions[s].user \in UserID
            BY <2>2 DEF FlowTypes, LockInv, LockTypeOK, Session
        <3>2. Relocked(sessions[s]) \in Session
            BY <3>1, LockedSessionOK DEF Relocked
        <3>3. sessions'[s] = Relocked(sessions[s])
            BY <2>1 DEF CheckCredentials, GetSession, FlowTypes, LockInv, LockTypeOK
        <3> QED BY <3>2, <3>3, NoSessionAssumption
    <2>4. GrantedFor(u, s)' # {}
        BY <1>1, <1>2, <2>1, <2>2, <2>3 DEF OpensNothing, Backed, UnlockBacked, Remembers
    <2>5. ASSUME NEW q \in Handler \ {p}, At(q, "read")'
          PROVE  GrantedFor(call[q].user, call[q].session)' # {}
        <3>1. call'[q] = call[q] /\ At(q, "read")
            BY <2>1, <2>5 DEF Goto, At, FlowTypes
        <3>2. PICK v \in UserID, t \in SessionID : v = call[q].user /\ t = call[q].session
            BY <3>1, CallFields DEF FlowTypes, At, SessionStep
        <3>3. GrantedFor(v, t)' # {}
            BY <1>2, <3>1, <3>2 DEF Backed, ReadBacked, Remembers
        <3> QED BY <3>1, <3>2, <3>3
    <2>6. call'[p] = [pc |-> "read", user |-> u, session |-> s]
        BY <2>1 DEF Goto, AtSession, FlowTypes
    <2> QED BY <1>3, <2>4, <2>5, <2>6 DEF Backed, ReadBacked
<1> QED BY <1>3, <1>4, <1>5

\* The unlock itself: the request is granted, for this session and this user.
LEMMA UnlockIsBacked ==
    ASSUME FlowTypes, Settled, Backed, KeepsRecord, NEW p \in Handler, UnlockSession(p)
    PROVE  Backed'
<1>1. PICK id \in granted : id = call[p].id
    BY DEF UnlockSession, At, Settled, Outcomes, Approving, ApproveStep
<1>2. PICK u \in UserID, s \in SessionID : u = UserOf(id) /\ s = SessionOf(id)
    BY <1>1, IssuedFields DEF FlowTypes, ApprovalInv
<1>3. Unlock(u, s)
    BY <1>1, <1>2 DEF UnlockSession
<1>4. Remembers
    BY GrantsRemain DEF UnlockSession
<1>5. id \in GrantedFor(u, s)
    BY <1>1, <1>2 DEF GrantedFor
<1>6. UnlockBacked'
    <2> SUFFICES ASSUME NEW t \in SessionID, sessions'[t] # NoSession, ~ sessions'[t].locked
                 PROVE  GrantedFor(sessions[t].user, t)' # {}
        BY DEF UnlockBacked
    <2>1. PICK v \in UserID :
            v = sessions'[t].user /\ (GrantedFor(v, t) # {})
        <3>1. CASE Owns(u, s) /\ t = s
            BY <1>3, <1>5, <3>1 DEF Unlock, UnlockedSession, FlowTypes, LockInv, LockTypeOK
        <3>2. CASE ~ (Owns(u, s) /\ t = s)
            <4>1. sessions'[t] = sessions[t]
                BY <1>3, <3>2 DEF Unlock, FlowTypes, LockInv, LockTypeOK
            <4>2. sessions[t].user \in UserID
                BY <4>1 DEF FlowTypes, LockInv, LockTypeOK, Session
            <4> QED BY <4>1, <4>2 DEF Backed, UnlockBacked
        <3> QED BY <3>1, <3>2
    <2>2. GrantedFor(v, t)' # {}
        BY <1>4, <2>1 DEF Remembers
    <2> QED BY <2>1, <2>2
<1>7. StartsNoRead
    BY DEF UnlockSession, Goto, AtRequest, StartsNoRead, At, FlowTypes
<1> QED BY <1>4, <1>6, <1>7, ReadsRemainBacked DEF Backed

\* Every other step opens nothing and starts no read.
LEMMA OthersOpenNothing ==
    ASSUME FlowTypes,
           \/ \E p \in Handler :
                \/ FindOrCreate(p) \/ AnnounceRequest(p) \/ RefetchSession(p)
                \/ AnnounceApproval(p) \/ AnnounceUnlock(p) \/ AnnounceDenial(p)
                \/ ReadCredentials(p)
                \/ \E u \in UserID, s \in SessionID : RequestUnlock(p, u, s)
                \/ \E id \in ApprovalID : ApproveRequest(p, id) \/ DenyRequest(p, id)
           \/ \E u \in UserID, s \in SessionID : SessionCall(u, s)
           \/ \E id \in ApprovalID : GetApproval(id) \/ AnnounceExpiry(id)
           \/ \E c \in Client : Stream(c)
           \/ Sweep
           \/ Tick
           \/ UNCHANGED vars
    PROVE  OpensNothing /\ StartsNoRead /\ granted \subseteq granted'
<1>1. LockTypeOK
    BY DEF FlowTypes, LockInv
<1>2. ASSUME NEW p \in Handler,
             \/ FindOrCreate(p) \/ AnnounceRequest(p) \/ AnnounceApproval(p)
             \/ AnnounceUnlock(p) \/ AnnounceDenial(p) \/ ReadCredentials(p)
             \/ \E id \in ApprovalID : ApproveRequest(p, id) \/ DenyRequest(p, id)
      PROVE  OpensNothing /\ StartsNoRead /\ granted \subseteq granted'
    <2>1. UNCHANGED sessions /\ granted \subseteq granted'
        BY <1>2 DEF FindOrCreate, AnnounceRequest, AnnounceApproval, AnnounceUnlock,
            AnnounceDenial, ReadCredentials, ApproveRequest, DenyRequest
    <2>2. CASE AnnounceApproval(p)
        <3>1. call[p] \in [pc : SeenStep, id : ApprovalID, seen : Seen]
            BY <2>2 DEF AnnounceApproval, At, FlowTypes, Call, Idle, SessionStep, RequestStep
        <3> DEFINE next == [call[p] EXCEPT !.pc = "lockChanged"]
        <3>2. next.pc # "read"
            BY <3>1
        <3>3. Goto(p, Idle) \/ Goto(p, next)
            BY <2>2 DEF AnnounceApproval
        <3> HIDE DEF next
        <3>4. StartsNoRead
            BY <3>2, <3>3, GotoStartsNoRead DEF Idle
        <3> QED BY <1>1, <2>1, <3>4, OnlyUnlockOpens
    <2>3. CASE ~ AnnounceApproval(p)
        <3>1. \/ UNCHANGED call
              \/ Goto(p, Idle)
              \/ \E id \in ApprovalID, pc \in RequestStep : Goto(p, AtRequest(pc, id))
            BY <1>2, <2>3 DEF FindOrCreate, AnnounceRequest, AnnounceUnlock,
                AnnounceDenial, ReadCredentials, ApproveRequest, DenyRequest, RequestStep
        <3>2. StartsNoRead
            BY <3>1 DEF StartsNoRead, At, Goto, FlowTypes, Idle, AtRequest, RequestStep
        <3> QED BY <1>1, <2>1, <3>2, OnlyUnlockOpens
    <2> QED BY <2>2, <2>3
<1>3. ASSUME NEW p \in Handler, RefetchSession(p)
      PROVE  OpensNothing /\ StartsNoRead /\ granted \subseteq granted'
    <2>1. PICK u \in UserID, s \in SessionID : GetSession(u, s)
        <3>1. call[p].id \in Issued
            BY <1>3 DEF RefetchSession, At, FlowTypes, CallsOnRecord, HoldsRequest, RequestStep
        <3> QED BY <1>3, <3>1, IssuedFields DEF RefetchSession, FlowTypes, ApprovalInv
    <2>2. \E seen : Goto(p, AtSeen("resolved", call[p].id, seen))
        BY <1>3 DEF RefetchSession
    <2>3. StartsNoRead
        BY <2>2 DEF StartsNoRead, At, Goto, AtSeen, FlowTypes
    <2> QED BY <1>1, <1>3, <2>1, <2>3, OnlyUnlockOpens DEF RefetchSession
<1>4. ASSUME NEW p \in Handler, NEW u \in UserID, NEW s \in SessionID, RequestUnlock(p, u, s)
      PROVE  OpensNothing /\ StartsNoRead /\ granted \subseteq granted'
    <2>1. UNCHANGED call \/ Goto(p, AtSession("create", u, s))
        BY <1>4 DEF RequestUnlock
    <2>2. StartsNoRead
        BY <2>1 DEF StartsNoRead, At, Goto, AtSession, FlowTypes
    <2> QED BY <1>1, <1>4, <2>2, OnlyUnlockOpens DEF RequestUnlock
<1>5. CASE \E u \in UserID, s \in SessionID : SessionCall(u, s)
    BY <1>1, <1>5, OnlyUnlockOpens DEF SessionCall, StartsNoRead
<1>6. CASE \/ \E id \in ApprovalID : GetApproval(id) \/ AnnounceExpiry(id)
           \/ \E c \in Client : Stream(c)
           \/ Sweep
           \/ Tick
           \/ UNCHANGED vars
    BY <1>1, <1>6, OnlyUnlockOpens
    DEF GetApproval, AnnounceExpiry, Stream, Sweep, Tick, vars, StartsNoRead
<1> QED BY <1>2, <1>3, <1>4, <1>5, <1>6

LEMMA BackedPreserved ==
    ASSUME FlowTypes, Settled, Backed, [Next]_vars
    PROVE  Backed'
<1>1. KeepsRecord
    BY ManagersPreserve
<1>2. CASE OpensNothing /\ StartsNoRead /\ granted \subseteq granted'
    BY <1>1, <1>2, GrantsRemain, SessionsRemainBacked, ReadsRemainBacked DEF Backed
<1>3. ASSUME NEW p \in Handler, UnlockSession(p)
      PROVE  Backed'
    BY <1>1, <1>3, UnlockIsBacked
<1>4. ASSUME NEW p \in Handler, NEW u \in UserID, NEW s \in SessionID, CheckCredentials(p, u, s)
      PROVE  Backed'
    BY <1>1, <1>4, CheckBacked
<1> QED
    BY <1>2, <1>3, <1>4, OthersOpenNothing DEF Next, Arrival, Continue

LEMMA BackedHolds == Spec => []Backed
<1>1. Init => Backed
    BY DEF Init, LockInit, Idle, Backed, UnlockBacked, ReadBacked, At
<1>2. FlowTypes /\ Settled /\ Backed /\ [Next]_vars => Backed'
    BY BackedPreserved
<1> QED BY FlowTypesHold, SettledHolds, <1>1, <1>2, PTL DEF Spec

\* A session is unlocked only if its owner approved a request for that session.
THEOREM UnlocksAreBacked == Spec => []UnlockBacked
<1>1. Backed => UnlockBacked
    BY DEF Backed
<1> QED BY BackedHolds, <1>1, PTL

\* Credentials are read for a session only if its owner has approved its unlock,
\* however the read races with locks, unregistrations and takeovers.
THEOREM ReadsAreBacked == Spec => []ReadBacked
<1>1. Backed => ReadBacked
    BY DEF Backed
<1> QED BY BackedHolds, <1>1, PTL

----------------------------------------------------------------------------
(* The flow implements ApprovalGate: every step of the handlers, the       *)
(* sweeper, the streams and the clock is one step of the gate.  Looking at *)
(* sessions shuts gates, settling or expiring requests without granting    *)
(* them lets tickets lapse, steps the gate does not see are a Lapse of no  *)
(* ticket, and only the unlock of an approve handler opens anything.       *)


\* Whose session s is.
OwnerOf(s) == IF sessions[s] = NoSession THEN NoSession ELSE sessions[s].user

OpenSessions == {s \in SessionID : sessions[s] # NoSession /\ ~ sessions[s].locked}

\* The tickets that handlers are about to spend stay the same.
SameUnlocking == \A id \in ApprovalID : Unlocking(id)' = Unlocking(id)

SameOwners == \A s \in SessionID : OwnerOf(s)' = OwnerOf(s)

LEMMA GotoKeepsUnlocking ==
    ASSUME FlowTypes, NEW p \in Handler, NEW next, Goto(p, next),
           call[p].pc # "unlock", next.pc # "unlock"
    PROVE  SameUnlocking
BY DEF SameUnlocking, Unlocking, At, Goto, FlowTypes

LEMMA StayKeepsUnlocking ==
    ASSUME UNCHANGED call
    PROVE  SameUnlocking
BY DEF SameUnlocking, Unlocking, At

----------------------------------------------------------------------------
(* From a change of the flow's state to a step of the gate *)

\* Requests may stop being pending; nothing else happens.
LEMMA LapseStep ==
    ASSUME FlowTypes, Settled, KeepsRecord, Issued' = Issued,
           SameUnlocking, SameOwners, OpenSessions' = OpenSessions, granted' = granted
    PROVE  Gate!Lapse
<1> DEFINE lapsed == Pending \ Pending'
<1>1. ASSUME NEW id \in ApprovalID
      PROVE  TicketStateOf(id)' = IF id \in lapsed THEN "void" ELSE TicketStateOf(id)
    <2>1. Unlocking(id)' = Unlocking(id)
        BY DEF SameUnlocking
    <2>2. id \in granted => id \notin Pending
        BY DEF Settled, Outcomes
    <2>3. id \in Issued /\ id \notin Pending => id \notin Pending'
        BY StaysSettled
    <2>4. id \notin Issued => id \notin Pending
        BY DEF Pending
    <2> QED BY <2>1, <2>2, <2>3, <2>4 DEF TicketStateOf
<1>2. ASSUME NEW id \in lapsed
      PROVE  id \in ApprovalID /\ TicketStateOf(id) = "pending"
    BY DEF TicketStateOf, Pending, Issued, Settled, Outcomes
<1>3. ASSUME NEW id \in Issued
      PROVE  UserOf(id)' = UserOf(id) /\ SessionOf(id)' = SessionOf(id)
    BY StaysSettled
<1> HIDE DEF lapsed
<1>4. lapsed \in SUBSET Gate!PendingTickets
    BY <1>2 DEF Gate!PendingTickets
<1>5. [id \in ApprovalID |-> TicketStateOf(id)]' = Gate!Void(lapsed)
    BY <1>1 DEF Gate!Void
<1>6. [id \in ApprovalID |-> IF id \in Issued THEN <<SessionOf(id), UserOf(id)>> ELSE NoSession]'
        = [id \in ApprovalID |-> IF id \in Issued THEN <<SessionOf(id), UserOf(id)>> ELSE NoSession]
    BY <1>3
<1>7. [s \in SessionID |-> IF sessions[s] = NoSession THEN NoSession ELSE sessions[s].user]'
        = [s \in SessionID |-> IF sessions[s] = NoSession THEN NoSession ELSE sessions[s].user]
    BY DEF SameOwners, OwnerOf
<1> QED BY <1>4, <1>5, <1>6, <1>7 DEF Gate!Lapse, OpenSessions

\* Sessions may be found locked; requests and handlers at "unlock" stay.
LEMMA ShutStep ==
    ASSUME UNCHANGED <<requests, granted>>, SameUnlocking, SameOwners, OpensNothing
    PROVE  Gate!Shut
<1>1. ASSUME NEW id \in ApprovalID
      PROVE  TicketStateOf(id)' = TicketStateOf(id)
    BY DEF SameUnlocking, TicketStateOf, Issued, Pending
<1>2. OpenSessions' \subseteq OpenSessions
    BY DEF OpenSessions, OpensNothing
<1>3. [id \in ApprovalID |-> IF id \in Issued THEN <<SessionOf(id), UserOf(id)>> ELSE NoSession]'
        = [id \in ApprovalID |-> IF id \in Issued THEN <<SessionOf(id), UserOf(id)>> ELSE NoSession]
    BY DEF Issued, SessionOf, UserOf
<1>4. [s \in SessionID |-> IF sessions[s] = NoSession THEN NoSession ELSE sessions[s].user]'
        = [s \in SessionID |-> IF sessions[s] = NoSession THEN NoSession ELSE sessions[s].user]
    BY DEF SameOwners, OwnerOf
<1>5. [id \in ApprovalID |-> TicketStateOf(id)]' = [id \in ApprovalID |-> TicketStateOf(id)]
    BY <1>1
<1> QED BY <1>2, <1>3, <1>4, <1>5 DEF Gate!Shut, OpenSessions

\* What the gate sees of requests, when neither they nor their handlers change.
LEMMA TicketsStay ==
    ASSUME UNCHANGED <<requests, granted>>, SameUnlocking
    PROVE  /\ [id \in ApprovalID |-> TicketStateOf(id)]' = [id \in ApprovalID |-> TicketStateOf(id)]
           /\ [id \in ApprovalID |-> IF id \in Issued THEN <<SessionOf(id), UserOf(id)>> ELSE NoSession]'
                = [id \in ApprovalID |-> IF id \in Issued THEN <<SessionOf(id), UserOf(id)>> ELSE NoSession]
<1>1. ASSUME NEW id \in ApprovalID
      PROVE  TicketStateOf(id)' = TicketStateOf(id)
    BY DEF SameUnlocking, TicketStateOf, Issued, Pending
<1> QED BY <1>1 DEF Issued, SessionOf, UserOf

LEMMA EnterStep ==
    ASSUME LockTypeOK, UNCHANGED <<requests, granted>>, SameUnlocking,
           NEW u \in UserID, NEW s \in SessionID, Register(u, s)
    PROVE  Gate!Enter(s, u)
<1>1. LockedSession(u) # NoSession
    BY LockedSessionOK, NoSessionAssumption
<1>2. [t \in SessionID |-> IF sessions[t] = NoSession THEN NoSession ELSE sessions[t].user]'
        = [[t \in SessionID |-> IF sessions[t] = NoSession THEN NoSession ELSE sessions[t].user]
            EXCEPT ![s] = u]
    BY <1>1 DEF Register, LockTypeOK, LockedSession
<1>3. OpenSessions' = OpenSessions \ {s}
    BY DEF OpenSessions, Register, LockTypeOK, LockedSession
<1> QED BY <1>2, <1>3, TicketsStay DEF Gate!Enter, OpenSessions

LEMMA LeaveStep ==
    ASSUME LockTypeOK, UNCHANGED <<requests, granted>>, SameUnlocking,
           NEW u \in UserID, NEW s \in SessionID, Unregister(u, s)
    PROVE  Gate!Leave(s)
<1>1. [t \in SessionID |-> IF sessions[t] = NoSession THEN NoSession ELSE sessions[t].user]'
        = [[t \in SessionID |-> IF sessions[t] = NoSession THEN NoSession ELSE sessions[t].user]
            EXCEPT ![s] = NoSession]
    BY DEF Unregister, LockTypeOK
<1>2. OpenSessions' = OpenSessions \ {s}
    BY DEF OpenSessions, Unregister, LockTypeOK
<1> QED BY <1>1, <1>2, TicketsStay DEF Gate!Leave, OpenSessions

\* GetOrCreate, when it creates.
LEMMA IssueStep ==
    ASSUME FlowTypes, Settled, KeepsRecord, UNCHANGED <<sessions, granted>>, SameUnlocking,
           NEW id \in ApprovalID, NEW u \in UserID, NEW s \in SessionID, CreatePending(id, u, s)
    PROVE  Gate!Issue(id, s, u)
<1> DEFINE new == [user |-> u, session |-> s, status |-> "pending", expires |-> ApprovalTimeout]
           replaced == PendingFor(u, s)
<1>1. /\ id \notin Issued /\ id \notin granted
      /\ requests'[id] = new
      /\ new # NoRequest
    <2>1. new \in ApprovalRequest
        BY ApprovalTimeoutAssumption DEF ApprovalRequest, Status
    <2> QED BY <2>1, NoRequestAssumption DEF CreatePending, FreshIDs, FlowTypes, MarkExpired
<1>2. ASSUME NEW x \in ApprovalID, x # id
      PROVE  /\ requests'[x] = IF x \in replaced THEN [requests[x] EXCEPT !.status = "expired"]
                               ELSE requests[x]
             /\ x \in Issued => requests[x] \in ApprovalRequest
    BY <1>2 DEF CreatePending, MarkExpired, FlowTypes, ApprovalInv, ApprovalTypeOK, Issued
<1>3. ASSUME NEW x \in ApprovalID, x # id
      PROVE  /\ x \in Issued' <=> x \in Issued
             /\ x \in Pending' <=> x \in Pending \ replaced
    <2>1. CASE x \in replaced
        <3>1. x \in Issued /\ requests[x] \in ApprovalRequest
            BY <1>2, <1>3, <2>1 DEF PendingFor, Pending
        <3>2. requests'[x] \in ApprovalRequest /\ requests'[x].status = "expired"
            BY <1>2, <1>3, <2>1, <3>1 DEF ApprovalRequest, Status
        <3> QED BY <2>1, <3>1, <3>2, NoRequestAssumption DEF Issued, Pending
    <2>2. CASE x \notin replaced
        BY <1>2, <1>3, <2>2 DEF Issued, Pending
    <2> QED BY <2>1, <2>2
<1>4. id \in Issued' /\ id \in Pending'
    BY <1>1 DEF Issued, Pending
<1>5. ASSUME NEW x \in ApprovalID, x # id
      PROVE  TicketStateOf(x)' = IF x \in replaced THEN "void" ELSE TicketStateOf(x)
    <2>1. Unlocking(x)' = Unlocking(x)
        BY DEF SameUnlocking
    <2>2. x \in replaced => x \in Issued /\ x \in Pending /\ x \notin granted
        BY DEF PendingFor, Pending, Settled, Outcomes
    <2> QED BY <1>3, <1>5, <2>1, <2>2 DEF TicketStateOf
<1>6. TicketStateOf(id) = "unissued" /\ TicketStateOf(id)' = "pending"
    BY <1>1, <1>4 DEF TicketStateOf
<1>7. ASSUME NEW x \in Issued
      PROVE  x \in Issued' /\ UserOf(x)' = UserOf(x) /\ SessionOf(x)' = SessionOf(x)
    BY StaysSettled
<1>8. UserOf(id)' = u /\ SessionOf(id)' = s
    BY <1>1 DEF UserOf, SessionOf
<1> DEFINE for == [x \in ApprovalID |-> IF x \in Issued THEN <<SessionOf(x), UserOf(x)>> ELSE NoSession]
<1>9. for' = [for EXCEPT ![id] = <<s, u>>]
    <2>1. ASSUME NEW x \in ApprovalID, x # id
          PROVE  (IF x \in Issued THEN <<SessionOf(x), UserOf(x)>> ELSE NoSession)'
                    = IF x \in Issued THEN <<SessionOf(x), UserOf(x)>> ELSE NoSession
        BY <1>3, <1>7, <2>1
    <2>2. (IF id \in Issued THEN <<SessionOf(id), UserOf(id)>> ELSE NoSession)' = <<s, u>>
        BY <1>4, <1>8
    <2> QED BY <2>1, <2>2
<1>10. {x \in Gate!PendingTickets : for[x] = <<s, u>>} = replaced
    <2>1. ASSUME NEW x \in ApprovalID
          PROVE  TicketStateOf(x) = "pending" <=> x \in Pending
        BY DEF TicketStateOf, Pending, Settled, Outcomes
    <2>2. ASSUME NEW x \in Pending
          PROVE  x \in Issued /\ x \in ApprovalID
        BY DEF Pending, Issued
    <2> QED BY <2>1, <2>2 DEF Gate!PendingTickets, PendingFor, UserOf, SessionOf, Pending, Issued
<1>11. [x \in ApprovalID |-> TicketStateOf(x)]' = [Gate!Void(replaced) EXCEPT ![id] = "pending"]
    BY <1>5, <1>6 DEF Gate!Void
<1> HIDE DEF replaced
<1>12. UNCHANGED [t \in SessionID |-> IF sessions[t] = NoSession THEN NoSession ELSE sessions[t].user]
    OBVIOUS
<1> QED BY <1>6, <1>9, <1>10, <1>11, <1>12 DEF Gate!Issue

\* Approve, when it accepts.
LEMMA GrantStep ==
    ASSUME FlowTypes, Settled, KeepsRecord, NEW p \in Handler, NEW id \in ApprovalID,
           ApproveRequest(p, id), Resolvable(id)
    PROVE  Gate!Grant(id)
<1>1. /\ id \in Pending /\ id \notin Pending'
      /\ id \notin granted \cup sweep
    BY ResolvedNow DEF ApproveRequest, Approve
<1>2. granted' = granted \cup {id} /\ Goto(p, AtRequest("unlock", id)) /\ At(p, "idle")
    BY DEF ApproveRequest
<1>3. p \in Unlocking(id)'
    BY <1>2 DEF Unlocking, At, Goto, AtRequest, FlowTypes
<1>4. ASSUME NEW x \in ApprovalID, x # id
      PROVE  Unlocking(x)' = Unlocking(x)
    BY <1>2, <1>4 DEF Unlocking, At, Goto, AtRequest, FlowTypes
<1>5. ASSUME NEW x \in ApprovalID, x # id
      PROVE  /\ requests'[x] = requests[x]
             /\ TicketStateOf(x)' = TicketStateOf(x)
    <2>1. requests'[x] = requests[x]
        BY <1>5 DEF ApproveRequest, Approve, Resolve, FlowTypes, ApprovalInv, ApprovalTypeOK
    <2> QED BY <1>2, <1>4, <1>5, <2>1 DEF TicketStateOf, Issued, Pending
<1>6. id \in Issued /\ id \in Issued'
    BY <1>1, StaysSettled DEF Pending
<1>7. TicketStateOf(id) = "pending" /\ TicketStateOf(id)' = "granted"
    BY <1>1, <1>2, <1>3, <1>6 DEF TicketStateOf
<1>8. [x \in ApprovalID |-> TicketStateOf(x)]'
        = [[x \in ApprovalID |-> TicketStateOf(x)] EXCEPT ![id] = "granted"]
    BY <1>5, <1>7
<1>9. UserOf(id)' = UserOf(id) /\ SessionOf(id)' = SessionOf(id)
    BY <1>6, StaysSettled
<1>10. UNCHANGED [x \in ApprovalID |-> IF x \in Issued THEN <<SessionOf(x), UserOf(x)>> ELSE NoSession]
    <2> SUFFICES ASSUME NEW x \in ApprovalID
                 PROVE  (IF x \in Issued THEN <<SessionOf(x), UserOf(x)>> ELSE NoSession)'
                            = IF x \in Issued THEN <<SessionOf(x), UserOf(x)>> ELSE NoSession
        OBVIOUS
    <2>1. CASE x = id
        BY <1>6, <1>9, <2>1
    <2>2. CASE x # id
        BY <1>5, <2>2 DEF Issued, UserOf, SessionOf
    <2> QED BY <2>1, <2>2
<1>11. UNCHANGED sessions
    BY DEF ApproveRequest
<1> QED BY <1>7, <1>8, <1>10, <1>11 DEF Gate!Grant

\* The unlock of an approve handler.  Only its own handler was about to spend the
\* request, and the request's session opens if its user still owns it.
LEMMA SpendStep ==
    ASSUME FlowTypes, Settled, NEW p \in Handler, UnlockSession(p)
    PROVE  \E id \in ApprovalID : Gate!Spend(id)
<1>1. PICK id \in granted : id = call[p].id
    BY DEF UnlockSession, At, Settled, Outcomes, Approving, ApproveStep
<1>2. id \in Issued /\ id \in ApprovalID /\ UserOf(id) \in UserID /\ SessionOf(id) \in SessionID
    BY <1>1, IssuedFields DEF FlowTypes, ApprovalInv
<1> DEFINE u == UserOf(id)
           s == SessionOf(id)
<1>3. Unlock(u, s) /\ At(p, "unlock") /\ Goto(p, AtRequest("refetch", id))
    BY <1>1 DEF UnlockSession
<1>4. UNCHANGED <<requests, granted>>
    BY DEF UnlockSession
<1>5. p \in Unlocking(id) /\ Unlocking(id)' = {}
    <2>1. \A q \in Handler : At(q, "unlock") /\ call[q].id = id => q = p
        BY <1>1, <1>3 DEF Settled, Outcomes, Approving, At, ApproveStep
    <2> QED BY <1>1, <1>3, <2>1 DEF Unlocking, At, Goto, AtRequest, FlowTypes
<1>6. ASSUME NEW x \in ApprovalID, x # id
      PROVE  TicketStateOf(x)' = TicketStateOf(x)
    <2>1. Unlocking(x)' = Unlocking(x)
        BY <1>1, <1>3, <1>6 DEF Unlocking, At, Goto, AtRequest, FlowTypes
    <2> QED BY <1>4, <2>1 DEF TicketStateOf, Issued, Pending
<1>7. TicketStateOf(id) = "granted" /\ TicketStateOf(id)' = "spent"
    BY <1>1, <1>2, <1>4, <1>5 DEF TicketStateOf, Issued
<1>8. [x \in ApprovalID |-> TicketStateOf(x)]'
        = [[x \in ApprovalID |-> TicketStateOf(x)] EXCEPT ![id] = "spent"]
    BY <1>6, <1>7
<1>9. UNCHANGED [x \in ApprovalID |-> IF x \in Issued THEN <<SessionOf(x), UserOf(x)>> ELSE NoSession]
    BY <1>4 DEF Issued, SessionOf, UserOf
<1> DEFINE owner == [t \in SessionID |-> IF sessions[t] = NoSession THEN NoSession ELSE sessions[t].user]
           for == [x \in ApprovalID |-> IF x \in Issued THEN <<SessionOf(x), UserOf(x)>> ELSE NoSession]
<1>10. for[id] = <<s, u>>
    BY <1>2
<1>11. UnlockedSession(u) # NoSession
    BY <1>2, UnlockedSessionOK, NoSessionAssumption
<1>12. UNCHANGED owner
    BY <1>2, <1>3, <1>11 DEF Unlock, Owns, UnlockedSession, FlowTypes, LockInv, LockTypeOK
<1>13. OpenSessions' = OpenSessions \cup {g \in SessionID : owner[g] # NoSession /\ for[id] = <<g, owner[g]>>}
    <2>1. ASSUME NEW g \in SessionID
          PROVE  g \in OpenSessions' <=>
                    g \in OpenSessions \/ (owner[g] # NoSession /\ <<s, u>> = <<g, owner[g]>>)
        <3>1. CASE Owns(u, s) /\ g = s
            BY <1>2, <1>3, <1>11, <3>1, NobodyAssumption
            DEF OpenSessions, Unlock, Owns, UnlockedSession, FlowTypes, LockInv, LockTypeOK
        <3>2. CASE ~ (Owns(u, s) /\ g = s)
            <4>1. sessions'[g] = sessions[g]
                BY <1>2, <1>3, <3>2 DEF Unlock, FlowTypes, LockInv, LockTypeOK
            <4>2. ~ (owner[g] # NoSession /\ <<s, u>> = <<g, owner[g]>>)
                BY <3>2 DEF Owns
            <4> QED BY <4>1, <4>2 DEF OpenSessions
        <3> QED BY <3>1, <3>2
    <2> QED BY <1>10, <2>1 DEF OpenSessions
<1> QED BY <1>2, <1>7, <1>8, <1>9, <1>12, <1>13 DEF Gate!Spend, OpenSessions

----------------------------------------------------------------------------
(* Which step of the flow is which step of the gate *)

\* Every method but GetOrCreate leaves the ids that are on record as they are.
LEMMA IssuedStays ==
    ASSUME ApprovalTypeOK, KeepsRecord,
           \/ \E u \in UserID, s \in SessionID : FindPending(u, s)
           \/ \E id \in ApprovalID : Approve(id) \/ Deny(id) \/ Get(id)
           \/ ExpireOld
           \/ AgeRequests
           \/ UNCHANGED requests
    PROVE  Issued' = Issued
<1>1. Issued \subseteq Issued'
    BY StaysSettled
<1>2. ASSUME NEW id \in ApprovalID, id \notin Issued
      PROVE  requests'[id] = NoRequest
    BY <1>2 DEF FindPending, Approve, Deny, Resolve, Get, ExpireOld, AgeRequests, MarkExpired,
        Stale, PendingFor, Pending, Issued, ApprovalTypeOK
<1> QED BY <1>1, <1>2 DEF Issued

\* Looking at sessions, and time, leave them with their owners.
LEMMA OwnersStay ==
    ASSUME LockTypeOK,
           \/ AgeSessions
           \/ UNCHANGED sessions
           \/ \E u \in UserID, s \in SessionID : GetSession(u, s) \/ List(u) \/ Lock(u, s)
    PROVE  SameOwners
<1> SUFFICES ASSUME NEW s \in SessionID
             PROVE  OwnerOf(s)' = OwnerOf(s)
    BY DEF SameOwners
<1>1. CASE sessions[s] = NoSession
    BY <1>1 DEF OwnerOf, AgeSessions, GetSession, List, Lock, Owns, LockTypeOK
<1>2. CASE sessions[s] # NoSession
    <2>1. sessions[s] \in Session /\ sessions[s].user \in UserID
        BY <1>2 DEF LockTypeOK, Session
    <2> DEFINE locked == LockedSession(sessions[s].user)
               aged   == [sessions[s] EXCEPT !.expires = Aged(@)]
    <2>2. locked \in Session /\ locked.user = sessions[s].user
        BY <2>1, LockedSessionOK DEF LockedSession
    <2>3. aged \in Session /\ aged.user = sessions[s].user
        BY <2>1, AgedInstant DEF Session, Aged
    <2>4. sessions'[s] \in {sessions[s], locked, aged}
        BY <1>2 DEF AgeSessions, GetSession, List, Lock, Owns, Relocked, LockTypeOK
    <2>5. sessions'[s] # NoSession /\ sessions'[s].user = sessions[s].user
        BY <2>1, <2>2, <2>3, <2>4, NoSessionAssumption
    <2> QED BY <1>2, <2>5 DEF OwnerOf
<1> QED BY <1>1, <1>2

\* Time neither opens a session nor closes one: a window that has passed is
\* noticed by the next look.
LEMMA AgingKeepsOpen ==
    ASSUME LockTypeOK, AgeSessions
    PROVE  OpenSessions' = OpenSessions
<1> SUFFICES ASSUME NEW s \in SessionID
             PROVE  s \in OpenSessions' <=> s \in OpenSessions
    BY DEF OpenSessions
<1>1. CASE sessions[s] = NoSession
    BY <1>1 DEF AgeSessions, OpenSessions
<1>2. CASE sessions[s] # NoSession
    <2> DEFINE aged == [sessions[s] EXCEPT !.expires = Aged(@)]
    <2>1. sessions[s] \in Session
        BY <1>2 DEF LockTypeOK
    <2>2. aged \in Session /\ aged.locked = sessions[s].locked
        BY <2>1, AgedInstant DEF Session, Aged
    <2>3. sessions'[s] = aged
        BY <1>2 DEF AgeSessions
    <2> QED BY <1>2, <2>2, <2>3, NoSessionAssumption DEF OpenSessions
<1> QED BY <1>1, <1>2

\* A call that ends without settling a request lets at most stale ones lapse.
LEMMA AnswersLapse ==
    ASSUME FlowTypes, Settled, KeepsRecord, NEW p \in Handler,
           \/ FindOrCreate(p) /\ \E u \in UserID, s \in SessionID : FindPending(u, s) /\ Goto(p, Idle)
           \/ \E id \in ApprovalID : ApproveRequest(p, id) /\ ~ Resolvable(id)
           \/ \E id \in ApprovalID : DenyRequest(p, id)
    PROVE  Gate!Lapse
<1>1. Issued' = Issued
    <2>1. ApprovalTypeOK
        BY DEF FlowTypes, ApprovalInv
    <2> QED BY <2>1, IssuedStays DEF ApproveRequest, DenyRequest
<1>2. SameUnlocking
    <2>1. \/ UNCHANGED call
          \/ (At(p, "create") \/ At(p, "idle")) /\ Goto(p, Idle)
          \/ At(p, "idle") /\ \E id \in ApprovalID : Goto(p, AtRequest("denied", id))
        BY DEF FindOrCreate, ApproveRequest, DenyRequest
    <2> QED BY <2>1, StayKeepsUnlocking DEF SameUnlocking, Unlocking, At, Goto, Idle, AtRequest, FlowTypes
<1>3. UNCHANGED <<sessions, granted>>
    BY DEF FindOrCreate, ApproveRequest, DenyRequest
<1> QED BY <1>1, <1>2, <1>3, LapseStep DEF SameOwners, OwnerOf, OpenSessions

\* So does whatever touches neither sessions nor what has been granted.
LEMMA QuietLapses ==
    ASSUME FlowTypes, Settled, KeepsRecord,
           \/ \E p \in Handler :
                \/ AnnounceRequest(p) \/ AnnounceApproval(p) \/ AnnounceUnlock(p)
                \/ AnnounceDenial(p) \/ ReadCredentials(p)
           \/ \E id \in ApprovalID : GetApproval(id) \/ AnnounceExpiry(id)
           \/ \E c \in Client : Stream(c)
           \/ Sweep
           \/ Tick
           \/ UNCHANGED vars
    PROVE  Gate!Lapse
<1>1. LockTypeOK /\ ApprovalTypeOK
    BY DEF FlowTypes, LockInv, ApprovalInv
<1>2. Issued' = Issued
    BY <1>1, IssuedStays DEF AnnounceRequest, AnnounceApproval, AnnounceUnlock, AnnounceDenial,
        ReadCredentials, GetApproval, AnnounceExpiry, Stream, Sweep, Tick, vars
<1>3. SameOwners /\ OpenSessions' = OpenSessions
    <2>1. CASE Tick
        BY <1>1, <2>1, OwnersStay, AgingKeepsOpen DEF Tick
    <2>2. CASE ~ Tick
        <3>1. UNCHANGED sessions
            BY <2>2 DEF AnnounceRequest, AnnounceApproval, AnnounceUnlock, AnnounceDenial,
                ReadCredentials, GetApproval, AnnounceExpiry, Stream, Sweep, vars
        <3> QED BY <3>1 DEF SameOwners, OwnerOf, OpenSessions
    <2> QED BY <2>1, <2>2
<1>4. granted' = granted
    BY DEF AnnounceRequest, AnnounceApproval, AnnounceUnlock, AnnounceDenial,
        ReadCredentials, GetApproval, AnnounceExpiry, Stream, Sweep, Tick, vars
<1>5. SameUnlocking
    <2>1. CASE UNCHANGED call
        BY <2>1, StayKeepsUnlocking
    <2>2. ASSUME NEW p \in Handler,
                 \/ AnnounceRequest(p) \/ AnnounceUnlock(p) \/ AnnounceDenial(p) \/ ReadCredentials(p)
          PROVE  SameUnlocking
        <3>1. Goto(p, Idle) /\ call[p].pc # "unlock"
            BY <2>2 DEF AnnounceRequest, AnnounceUnlock, AnnounceDenial, ReadCredentials, At
        <3> QED BY <3>1, GotoKeepsUnlocking DEF Idle
    <2>3. ASSUME NEW p \in Handler, AnnounceApproval(p)
          PROVE  SameUnlocking
        <3> DEFINE next == IF call[p].seen = "gone" THEN Idle ELSE [call[p] EXCEPT !.pc = "lockChanged"]
        <3>1. call[p] \in [pc : SeenStep, id : ApprovalID, seen : Seen]
            BY <2>3 DEF AnnounceApproval, At, FlowTypes, Call, Idle, SessionStep, RequestStep
        <3>2. Goto(p, next) /\ call[p].pc # "unlock"
            BY <2>3 DEF AnnounceApproval, At
        <3>3. next.pc # "unlock"
            BY <3>1 DEF Idle
        <3> HIDE DEF next
        <3> QED BY <3>2, <3>3, GotoKeepsUnlocking
    <2> QED BY <2>1, <2>2, <2>3 DEF GetApproval, AnnounceExpiry, Stream, Sweep, Tick, vars
<1> QED BY <1>2, <1>3, <1>4, <1>5, LapseStep

\* Looking at sessions: the lazy re-lock shuts gates.
LEMMA LooksShut ==
    ASSUME FlowTypes,
           \/ \E p \in Handler : RefetchSession(p)
           \/ \E p \in Handler, u \in UserID, s \in SessionID :
                RequestUnlock(p, u, s) \/ CheckCredentials(p, u, s)
           \/ \E u \in UserID, s \in SessionID :
                /\ GetSession(u, s) \/ List(u) \/ Lock(u, s)
                /\ UNCHANGED <<requests, call, granted>>
    PROVE  Gate!Shut
<1>1. LockTypeOK
    BY DEF FlowTypes, LockInv
<1>2. UNCHANGED <<requests, granted>>
    BY DEF RefetchSession, RequestUnlock, CheckCredentials
<1>3. \E u \in UserID, s \in SessionID : GetSession(u, s) \/ List(u) \/ Lock(u, s)
    <2>1. ASSUME NEW p \in Handler, RefetchSession(p)
          PROVE  \E u \in UserID, s \in SessionID : GetSession(u, s)
        <3>1. call[p].id \in Issued
            BY <2>1 DEF RefetchSession, At, FlowTypes, CallsOnRecord, HoldsRequest, RequestStep
        <3> QED BY <2>1, <3>1, IssuedFields DEF RefetchSession, FlowTypes, ApprovalInv
    <2> QED BY <2>1 DEF RequestUnlock, CheckCredentials
<1>4. SameOwners /\ OpensNothing
    BY <1>1, <1>3, OwnersStay, OnlyUnlockOpens
<1>5. SameUnlocking
    <2>1. ASSUME NEW p \in Handler, RefetchSession(p)
          PROVE  SameUnlocking
        <3>1. PICK seen : Goto(p, AtSeen("resolved", call[p].id, seen))
            BY <2>1 DEF RefetchSession
        <3>2. call[p].pc # "unlock"
            BY <2>1 DEF RefetchSession, At
        <3> QED BY <3>1, <3>2, GotoKeepsUnlocking DEF AtSeen
    <2>2. ASSUME NEW p \in Handler, NEW u \in UserID, NEW s \in SessionID,
                 RequestUnlock(p, u, s) \/ CheckCredentials(p, u, s)
          PROVE  SameUnlocking
        <3>1. /\ call[p].pc # "unlock"
              /\ UNCHANGED call \/ \E pc \in SessionStep : Goto(p, AtSession(pc, u, s))
            BY <2>2 DEF RequestUnlock, CheckCredentials, At, SessionStep
        <3> QED BY <3>1, StayKeepsUnlocking, GotoKeepsUnlocking DEF AtSession, SessionStep
    <2> QED BY <2>1, <2>2, StayKeepsUnlocking
<1> QED BY <1>2, <1>4, <1>5, ShutStep

\* GetOrCreate: an answer of 409, or a new ticket.
LEMMA FindOrCreateSteps ==
    ASSUME FlowTypes, Settled, KeepsRecord, NEW p \in Handler, FindOrCreate(p)
    PROVE  Gate!Next
<1>1. PICK u \in UserID, s \in SessionID : u = call[p].user /\ s = call[p].session
    BY CallFields DEF FindOrCreate, At, FlowTypes, SessionStep
<1>2. CASE FindPending(u, s) /\ Goto(p, Idle)
    BY <1>1, <1>2, AnswersLapse DEF Gate!Next
<1>3. ASSUME NEW id \in ApprovalID, CreatePending(id, u, s), Goto(p, AtRequest("announce", id))
      PROVE  Gate!Next
    <2>1. UNCHANGED <<sessions, granted>> /\ SameUnlocking
        BY <1>3, GotoKeepsUnlocking DEF FindOrCreate, At, AtRequest
    <2>2. Gate!Issue(id, s, u)
        BY <1>3, <2>1, IssueStep
    <2> QED BY <2>2 DEF Gate!Next
<1> QED BY <1>1, <1>2, <1>3 DEF FindOrCreate

LEMMA SessionCallSteps ==
    ASSUME FlowTypes, NEW u \in UserID, NEW s \in SessionID, SessionCall(u, s)
    PROVE  Gate!Next
<1>1. LockTypeOK /\ UNCHANGED <<requests, call, granted>> /\ SameUnlocking
    BY StayKeepsUnlocking DEF FlowTypes, LockInv, SessionCall
<1>2. CASE Register(u, s)
    BY <1>1, <1>2, EnterStep DEF Gate!Next
<1>3. CASE Unregister(u, s)
    BY <1>1, <1>3, LeaveStep DEF Gate!Next
<1>4. CASE GetSession(u, s) \/ List(u) \/ Lock(u, s)
    BY <1>1, <1>4, LooksShut DEF Gate!Next
<1> QED BY <1>2, <1>3, <1>4 DEF SessionCall

LEMMA EveryStepIsTheGates ==
    ASSUME FlowTypes, Settled, [Next]_vars
    PROVE  Gate!Next
<1>1. KeepsRecord
    BY ManagersPreserve
<1>2. ASSUME NEW p \in Handler, Arrival(p)
      PROVE  Gate!Next
    <2>1. CASE \E u \in UserID, s \in SessionID : RequestUnlock(p, u, s) \/ CheckCredentials(p, u, s)
        BY <2>1, LooksShut DEF Gate!Next
    <2>2. ASSUME NEW id \in ApprovalID, ApproveRequest(p, id)
          PROVE  Gate!Next
        BY <1>1, <2>2, GrantStep, AnswersLapse DEF Gate!Next
    <2>3. CASE \E id \in ApprovalID : DenyRequest(p, id)
        BY <1>1, <2>3, AnswersLapse DEF Gate!Next
    <2> QED BY <1>2, <2>1, <2>2, <2>3 DEF Arrival
<1>3. ASSUME NEW p \in Handler, Continue(p)
      PROVE  Gate!Next
    <2>1. CASE FindOrCreate(p)
        BY <1>1, <2>1, FindOrCreateSteps
    <2>2. CASE UnlockSession(p)
        BY <2>2, SpendStep DEF Gate!Next
    <2>3. CASE RefetchSession(p)
        BY <2>3, LooksShut DEF Gate!Next
    <2>4. CASE \/ AnnounceRequest(p) \/ AnnounceApproval(p) \/ AnnounceUnlock(p)
               \/ AnnounceDenial(p) \/ ReadCredentials(p)
        BY <1>1, <2>4, QuietLapses DEF Gate!Next
    <2> QED BY <1>3, <2>1, <2>2, <2>3, <2>4 DEF Continue
<1>4. CASE \E u \in UserID, s \in SessionID : SessionCall(u, s)
    BY <1>4, SessionCallSteps
<1>5. CASE \/ \E id \in ApprovalID : GetApproval(id) \/ AnnounceExpiry(id)
           \/ \E c \in Client : Stream(c)
           \/ Sweep
           \/ Tick
           \/ UNCHANGED vars
    BY <1>1, <1>5, QuietLapses DEF Gate!Next
<1> QED BY <1>2, <1>3, <1>4, <1>5 DEF Next

LEMMA StartsAsTheGate == Init => Gate!Init
BY DEF Init, LockInit, ApprovalInit, Gate!Init, TicketStateOf, Issued

\* The flow implements the gate: for any number of handlers, sessions, users and
\* requests, sessions open by spending granted approvals and by nothing else.
THEOREM FlowImplementsGate == Spec => GateSpec
<1>1. FlowTypes /\ Settled /\ [Next]_vars => [Gate!Next]_Gate!vars
    BY EveryStepIsTheGates
<1> QED
    BY FlowTypesHold, SettledHolds, StartsAsTheGate, <1>1, PTL DEF Spec, GateSpec, Gate!Spec

----------------------------------------------------------------------------
(* Unlock windows *)

\* One step of the flow, session by session.
WindowStep ==
    \A s \in SessionID :
        /\ UnlockedNow(s)'
        /\ UnlockedNow(s) => sessions'[s].expires > sessions[s].expires
        => \E p \in Handler :
            /\ At(p, "unlock") /\ call'[p] # call[p]
            /\ UserOf(call[p].id) = sessions'[s].user
            /\ SessionOf(call[p].id) = s

LEMMA UnlockOpensItsOwn ==
    ASSUME FlowTypes, NEW p \in Handler, UnlockSession(p)
    PROVE  WindowStep
<1> SUFFICES ASSUME NEW s \in SessionID, UnlockedNow(s)',
                    UnlockedNow(s) => sessions'[s].expires > sessions[s].expires
             PROVE  /\ At(p, "unlock") /\ call'[p] # call[p]
                    /\ UserOf(call[p].id) = sessions'[s].user
                    /\ SessionOf(call[p].id) = s
    BY DEF WindowStep
<1> DEFINE u == UserOf(call[p].id)
           t == SessionOf(call[p].id)
<1>1. At(p, "unlock") /\ call'[p] # call[p]
    BY DEF UnlockSession, At, Goto, AtRequest, FlowTypes
<1>2. Owns(u, t) /\ s = t
    <2> SUFFICES ASSUME ~ (Owns(u, t) /\ s = t)
                 PROVE  FALSE
        OBVIOUS
    <2>1. sessions'[s] = sessions[s]
        BY DEF UnlockSession, Unlock, FlowTypes, LockInv, LockTypeOK
    <2>2. UnlockedNow(s)
        BY <2>1 DEF UnlockedNow, WindowPassed, Passed
    <2>3. sessions[s].expires \in Int
        BY <2>2, NoTimeAssumption
        DEF UnlockedNow, FlowTypes, LockInv, LockTypeOK, WindowBounded, Session
    <2> QED BY <2>1, <2>2, <2>3
<1>3. sessions'[s].user = u
    BY <1>2 DEF UnlockSession, Unlock, UnlockedSession, FlowTypes, LockInv, LockTypeOK
<1> QED BY <1>1, <1>2, <1>3

LEMMA WindowStepTaken ==
    ASSUME FlowTypes, [Next]_vars
    PROVE  WindowStep
<1>1. ASSUME NEW p \in Handler, UnlockSession(p)
      PROVE  WindowStep
    BY <1>1, UnlockOpensItsOwn
<1>2. CASE ~ \E p \in Handler : UnlockSession(p)
    <2>1. \/ AgeSessions
          \/ UNCHANGED sessions
          \/ \E u \in UserID, s \in SessionID :
                Register(u, s) \/ GetSession(u, s) \/ List(u) \/ Lock(u, s) \/ Unregister(u, s)
        <3>1. ASSUME NEW p \in Handler, RefetchSession(p)
              PROVE  \E u \in UserID, s \in SessionID : GetSession(u, s)
            <4>1. call[p].id \in Issued
                BY <3>1 DEF RefetchSession, At, FlowTypes, CallsOnRecord, HoldsRequest, RequestStep
            <4> QED BY <3>1, <4>1, IssuedFields DEF RefetchSession, FlowTypes, ApprovalInv
        <3>2. ASSUME NEW p \in Handler, NEW u \in UserID, NEW s \in SessionID,
                     RequestUnlock(p, u, s) \/ CheckCredentials(p, u, s)
              PROVE  GetSession(u, s)
            BY <3>2 DEF RequestUnlock, CheckCredentials
        <3> QED BY <1>2, <3>1, <3>2 DEF Next, Arrival, Continue, ApproveRequest, DenyRequest,
                FindOrCreate, AnnounceRequest, AnnounceApproval, AnnounceUnlock, AnnounceDenial,
                ReadCredentials, SessionCall, GetApproval, AnnounceExpiry, Stream, Sweep, Tick, vars
    <2>2. ExtendsNothing
        BY <2>1, OnlyUnlockExtends DEF FlowTypes
    <2>3. ASSUME NEW s \in SessionID, UnlockedNow(s)'
          PROVE  UnlockedNow(s) /\ ~ (sessions'[s].expires > sessions[s].expires)
        <3>1. UnlockedNow(s) /\ sessions'[s].expires <= sessions[s].expires
            BY <2>2, <2>3 DEF ExtendsNothing
        <3>2. sessions[s].expires \in Int
            BY <3>1, NoTimeAssumption
            DEF UnlockedNow, FlowTypes, LockInv, LockTypeOK, WindowBounded, Session
        <3>3. sessions'[s].expires \in Int
            BY <2>3, ManagersPreserve, NoTimeAssumption
            DEF UnlockedNow, LockInv, LockTypeOK, WindowBounded, Session
        <3> QED BY <3>1, <3>2, <3>3
    <2> QED BY <2>3 DEF WindowStep
<1> QED BY <1>1, <1>2

\* A session becomes usable, or stays so for longer, only by the unlock of an
\* approve handler that holds a request for that session and its owner.
THEOREM WindowsOpenByApproval == Spec => WindowOpensByApproval
<1>1. FlowTypes /\ [Next]_vars => [WindowStep]_vars
    BY WindowStepTaken
<1> QED BY FlowTypesHold, <1>1, PTL DEF Spec, WindowOpensByApproval, WindowStep
=============================================================================
