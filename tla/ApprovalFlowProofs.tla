------------------------- MODULE ApprovalFlowProofs -------------------------
(***************************************************************************)
(* Safety of the unlock flow, for any users, sessions, approval ids,      *)
(* handlers, event streams and timeouts.                                   *)
(*                                                                         *)
(* FlowTypes is type correctness, with what the handlers' local variables *)
(* refer to.  Settled says how a request's outcome, the handler that      *)
(* settles it and the event about it fit together.  Backed adds that what *)
(* is open, or being read, goes back to a granted request.  Each is       *)
(* inductive relative to the ones before it.                               *)
(***************************************************************************)
EXTENDS ApprovalFlow, ManagerProofs

----------------------------------------------------------------------------
(* Types *)

HoldsRequest(p) == call[p].pc \in RequestStep \cup SeenStep

CallsOnRecord == \A p \in Handler : HoldsRequest(p) => call[p].id \in Issued

FlowTypes ==
    /\ LockInv
    /\ ApprovalInv
    /\ BrokerTypeOK
    /\ call \in [Handler -> Call]
    /\ CallsOnRecord
    /\ sweep \subseteq Issued
    /\ granted \subseteq Issued

\* The local variables of a handler, by where it is.
LEMMA CallFields ==
    ASSUME NEW c \in Call
    PROVE  /\ c.pc \in SessionStep => c.user \in UserID /\ c.session \in SessionID
           /\ c.pc \in RequestStep \cup SeenStep => c.id \in ApprovalID
           /\ c.pc \in SeenStep => c.seen \in Seen
BY DEF Call, Idle, SessionStep, RequestStep, SeenStep, Seen

\* The constructors build well-formed calls.
LEMMA CallsBuilt ==
    /\ Idle \in Call
    /\ \A pc \in SessionStep, u \in UserID, s \in SessionID : AtSession(pc, u, s) \in Call
    /\ \A pc \in RequestStep, id \in ApprovalID : AtRequest(pc, id) \in Call
    /\ \A pc \in SeenStep, id \in ApprovalID, seen \in Seen : AtSeen(pc, id, seen) \in Call
BY DEF Call, AtSession, AtRequest, AtSeen

\* A request on record has a user and a session.
LEMMA IssuedFields ==
    ASSUME ApprovalTypeOK, NEW id \in Issued
    PROVE  /\ id \in ApprovalID
           /\ requests[id] \in ApprovalRequest
           /\ UserOf(id) \in UserID
           /\ SessionOf(id) \in SessionID
BY DEF ApprovalTypeOK, Issued, UserOf, SessionOf, ApprovalRequest

\* Publish keeps every buffer well-typed and within its capacity.
LEMMA PublishOK ==
    ASSUME BrokerTypeOK, NEW u \in UserID, NEW event \in Event, Publish(u, event)
    PROVE  BrokerTypeOK'
<1>1. ASSUME NEW c \in Client
      PROVE  /\ channels'[c] \in Channel \cup {NoChannel}
             /\ channels'[c] # NoChannel => Len(channels'[c].buffer) <= BufferSize
    <2>1. CASE c \in Subscribed(u) /\ HasRoom(c)
        <3>1. channels[c] \in Channel /\ channels'[c] = [channels[c] EXCEPT !.buffer = Append(@, event)]
            BY <2>1 DEF BrokerTypeOK, Subscribed, Publish
        <3>2. Len(channels[c].buffer) < BufferSize
            BY <2>1 DEF HasRoom
        <3>3. channels[c].buffer \in Seq(Event)
            BY <3>1 DEF Channel
        <3>4. /\ Append(channels[c].buffer, event) \in Seq(Event)
              /\ Len(Append(channels[c].buffer, event)) = Len(channels[c].buffer) + 1
            BY <3>3
        <3>5. Len(channels[c].buffer) \in Nat
            BY <3>3
        <3>6. channels'[c].buffer = Append(channels[c].buffer, event)
            BY <3>1 DEF Channel
        <3>7. Len(channels'[c].buffer) <= BufferSize
            BY <3>2, <3>4, <3>5, <3>6, BufferSizeAssumption
        <3>8. channels'[c] \in Channel
            BY <3>1, <3>4 DEF Channel
        <3> QED BY <3>7, <3>8
    <2>2. CASE ~ (c \in Subscribed(u) /\ HasRoom(c))
        BY <2>2 DEF BrokerTypeOK, Publish
    <2> QED BY <2>1, <2>2
<1>2. channels' \in [Client -> Channel \cup {NoChannel}]
    BY <1>1 DEF Publish
<1>3. published' \subseteq [user : UserID, event : Event]
    BY DEF Publish, BrokerTypeOK
<1> QED BY <1>1, <1>2, <1>3 DEF BrokerTypeOK

\* So do the streams.
LEMMA StreamOK ==
    ASSUME BrokerTypeOK, NEW c \in Client, Stream(c)
    PROVE  BrokerTypeOK'
<1>1. CASE Unsubscribe(c)
    BY <1>1 DEF Unsubscribe, BrokerTypeOK
<1>2. ASSUME NEW u \in UserID, Subscribe(c, u)
      PROVE  BrokerTypeOK'
    <2>1. [user |-> u, buffer |-> <<>>] \in Channel
        BY DEF Channel
    <2> QED BY <1>2, <2>1, BufferSizeAssumption DEF Subscribe, BrokerTypeOK
<1>3. CASE Deliver(c)
    <2> DEFINE rest == [channels[c] EXCEPT !.buffer = Tail(channels[c].buffer)]
    <2>1. channels[c] \in Channel /\ Len(channels[c].buffer) <= BufferSize
        BY <1>3 DEF Deliver, BrokerTypeOK
    <2>2. channels' = [channels EXCEPT ![c] = rest]
        BY <1>3 DEF Deliver
    <2>3. channels[c].buffer \in Seq(Event) /\ channels[c].buffer # <<>>
        BY <1>3, <2>1 DEF Deliver, Channel
    <2>4. /\ Tail(channels[c].buffer) \in Seq(Event)
          /\ Len(Tail(channels[c].buffer)) = Len(channels[c].buffer) - 1
          /\ Len(channels[c].buffer) \in Nat
        BY <2>3
    <2>5. rest \in Channel /\ rest.buffer = Tail(channels[c].buffer)
        BY <2>1, <2>4 DEF Channel
    <2>6. Len(Tail(channels[c].buffer)) <= BufferSize
        BY <2>1, <2>4, BufferSizeAssumption
    <2> HIDE DEF rest
    <2> QED BY <1>3, <2>2, <2>5, <2>6 DEF BrokerTypeOK, Deliver
<1> QED BY <1>1, <1>2, <1>3 DEF Stream

\* Every step of the flow is a step of the lock manager, or leaves it alone.
LEMMA FlowStepsLock ==
    ASSUME FlowTypes, [Next]_vars
    PROVE  [LockNext]_sessions
<1>1. ASSUME NEW p \in Handler, Arrival(p)
      PROVE  [LockNext]_sessions
    BY <1>1 DEF Arrival, RequestUnlock, CheckCredentials, ApproveRequest, DenyRequest, LockNext
<1>2. ASSUME NEW p \in Handler, Continue(p)
      PROVE  [LockNext]_sessions
    <2>1. CASE UnlockSession(p) \/ RefetchSession(p)
        <3>1. HoldsRequest(p)
            BY <2>1 DEF UnlockSession, RefetchSession, At, HoldsRequest, RequestStep
        <3>2. UserOf(call[p].id) \in UserID /\ SessionOf(call[p].id) \in SessionID
            BY <3>1, IssuedFields DEF FlowTypes, ApprovalInv, CallsOnRecord
        <3> QED BY <2>1, <3>2 DEF UnlockSession, RefetchSession, LockNext
    <2>2. CASE ~ (UnlockSession(p) \/ RefetchSession(p))
        BY <1>2, <2>2 DEF Continue, FindOrCreate, AnnounceRequest, AnnounceApproval,
            AnnounceUnlock, AnnounceDenial, ReadCredentials
    <2> QED BY <2>1, <2>2
<1>3. ASSUME NEW u \in UserID, NEW s \in SessionID, SessionCall(u, s)
      PROVE  [LockNext]_sessions
    BY <1>3 DEF SessionCall, LockNext
<1>4. CASE \/ \E id \in ApprovalID : GetApproval(id) \/ AnnounceExpiry(id)
           \/ \E c \in Client : Stream(c)
           \/ Sweep
           \/ Tick
           \/ UNCHANGED vars
    BY <1>4 DEF GetApproval, AnnounceExpiry, Stream, Sweep, Tick, vars, LockNext
<1> QED BY <1>1, <1>2, <1>3, <1>4 DEF Next

\* ... and a step of the approval manager, or leaves that alone.
LEMMA FlowStepsApproval ==
    ASSUME FlowTypes, [Next]_vars
    PROVE  [ApprovalNext]_requests
<1>1. ASSUME NEW p \in Handler, Arrival(p)
      PROVE  [ApprovalNext]_requests
    BY <1>1 DEF Arrival, RequestUnlock, CheckCredentials, ApproveRequest, DenyRequest, ApprovalNext
<1>2. ASSUME NEW p \in Handler, Continue(p)
      PROVE  [ApprovalNext]_requests
    <2>1. CASE FindOrCreate(p)
        <3>1. call[p].user \in UserID /\ call[p].session \in SessionID
            BY <2>1, CallFields DEF FindOrCreate, At, FlowTypes, SessionStep
        <3> QED BY <2>1, <3>1 DEF FindOrCreate, ApprovalNext
    <2>2. CASE ~ FindOrCreate(p)
        BY <1>2, <2>2 DEF Continue, UnlockSession, RefetchSession, AnnounceRequest,
            AnnounceApproval, AnnounceUnlock, AnnounceDenial, ReadCredentials
    <2> QED BY <2>1, <2>2
<1>3. CASE \/ \E u \in UserID, s \in SessionID : SessionCall(u, s)
           \/ \E id \in ApprovalID : GetApproval(id) \/ AnnounceExpiry(id)
           \/ \E c \in Client : Stream(c)
           \/ Sweep
           \/ Tick
           \/ UNCHANGED vars
    BY <1>3 DEF SessionCall, GetApproval, AnnounceExpiry, Stream, Sweep, Tick, vars, ApprovalNext
<1> QED BY <1>1, <1>2, <1>3 DEF Next

\* So the managers' own invariants carry over, and requests keep their records.
LEMMA ManagersPreserve ==
    ASSUME FlowTypes, [Next]_vars
    PROVE  LockInv' /\ ApprovalInv' /\ KeepsRecord /\ Issued \subseteq Issued'
<1>1. LockInv' /\ ApprovalInv' /\ KeepsRecord
    BY FlowStepsLock, FlowStepsApproval, LockNextPreserves, ApprovalNextPreserves DEF FlowTypes
<1> QED BY <1>1 DEF KeepsRecord, Issued

\* What is left of FlowTypes.
CallTypes ==
    /\ call \in [Handler -> Call]
    /\ CallsOnRecord

\* A handler that moves on to a well-formed place.
LEMMA GotoOK ==
    ASSUME CallTypes, Issued \subseteq Issued', NEW p \in Handler, NEW next \in Call,
           next.pc \in RequestStep \cup SeenStep => next.id \in Issued',
           Goto(p, next)
    PROVE  CallTypes'
BY DEF CallTypes, CallsOnRecord, HoldsRequest, Goto

\* Nobody moves.
LEMMA StayOK ==
    ASSUME CallTypes, Issued \subseteq Issued', UNCHANGED call
    PROVE  CallTypes'
BY DEF CallTypes, CallsOnRecord, HoldsRequest

\* One step per action.
LEMMA FlowTypesPreserved ==
    ASSUME FlowTypes, [Next]_vars
    PROVE  FlowTypes'
<1> DEFINE Rest == /\ CallTypes'
                   /\ BrokerTypeOK'
                   /\ sweep' \subseteq Issued'
                   /\ granted' \subseteq Issued'
<1>1. LockInv' /\ ApprovalInv' /\ KeepsRecord /\ Issued \subseteq Issued'
    BY ManagersPreserve
<1>2. CallTypes /\ BrokerTypeOK /\ sweep \subseteq Issued /\ granted \subseteq Issued
    BY DEF FlowTypes, CallTypes
<1>3. SUFFICES Rest
    BY <1>1 DEF FlowTypes, CallTypes
<1>4. UNCHANGED <<channels, published>> => BrokerTypeOK'
    BY <1>2 DEF BrokerTypeOK
<1>5. ASSUME NEW id \in Issued
      PROVE  id \in ApprovalID /\ id \in Issued' /\ UserOf(id) \in UserID /\ SessionOf(id) \in SessionID
    BY <1>1, IssuedFields DEF FlowTypes, ApprovalInv
<1>6. ASSUME NEW p \in Handler, Arrival(p)
      PROVE  Rest
    <2>1. ASSUME NEW u \in UserID, NEW s \in SessionID, RequestUnlock(p, u, s)
          PROVE  Rest
        <3>1. AtSession("create", u, s) \in Call
            BY CallsBuilt DEF SessionStep
        <3> QED BY <1>1, <1>2, <1>4, <2>1, <3>1, GotoOK, StayOK
                DEF RequestUnlock, AtSession, RequestStep, SeenStep
    <2>2. ASSUME NEW u \in UserID, NEW s \in SessionID, CheckCredentials(p, u, s)
          PROVE  Rest
        <3>1. AtSession("read", u, s) \in Call
            BY CallsBuilt DEF SessionStep
        <3> QED BY <1>1, <1>2, <1>4, <2>2, <3>1, GotoOK, StayOK
                DEF CheckCredentials, AtSession, RequestStep, SeenStep
    <2>3. ASSUME NEW id \in ApprovalID, ApproveRequest(p, id)
          PROVE  Rest
        <3>1. id \in Issued /\ AtRequest("unlock", id) \in Call
            BY <2>3, CallsBuilt DEF ApproveRequest, Approve, Resolve, RequestStep
        <3> QED BY <1>1, <1>2, <1>4, <2>3, <3>1, GotoOK, StayOK DEF ApproveRequest, AtRequest
    <2>4. ASSUME NEW id \in ApprovalID, DenyRequest(p, id)
          PROVE  Rest
        <3>1. id \in Issued /\ AtRequest("denied", id) \in Call
            BY <2>4, CallsBuilt DEF DenyRequest, Deny, Resolve, RequestStep
        <3> QED BY <1>1, <1>2, <1>4, <2>4, <3>1, GotoOK, StayOK DEF DenyRequest, AtRequest
    <2> QED BY <1>6, <2>1, <2>2, <2>3, <2>4 DEF Arrival
<1>7. ASSUME NEW p \in Handler, Continue(p)
      PROVE  Rest
    <2>1. HoldsRequest(p) => call[p].id \in Issued
        BY <1>2 DEF CallTypes, CallsOnRecord
    <2>2. Idle \in Call /\ Idle.pc \notin RequestStep \cup SeenStep
        BY CallsBuilt DEF Idle, RequestStep, SeenStep
    <2>3. CASE FindOrCreate(p)
        <3>1. ASSUME NEW id \in ApprovalID, CreatePending(id, call[p].user, call[p].session)
              PROVE  id \in Issued'
            <4>1. requests'[id] = [user |-> call[p].user, session |-> call[p].session,
                                   status |-> "pending", expires |-> ApprovalTimeout]
                BY <3>1 DEF CreatePending, MarkExpired
            <4>2. call[p].user \in UserID /\ call[p].session \in SessionID
                BY <2>3, CallFields DEF FindOrCreate, At, FlowTypes, SessionStep
            <4>3. requests'[id] \in ApprovalRequest
                BY <4>1, <4>2, ApprovalTimeoutAssumption DEF ApprovalRequest, Status
            <4> QED BY <4>3, NoRequestAssumption DEF Issued
        <3>2. \A id \in ApprovalID : AtRequest("announce", id) \in Call
            BY CallsBuilt DEF RequestStep
        <3> QED BY <1>1, <1>2, <1>4, <2>2, <2>3, <3>1, <3>2, GotoOK DEF FindOrCreate, AtRequest
    <2>4. CASE AnnounceRequest(p)
        <3>1. call[p].id \in Issued
            BY <2>1, <2>4 DEF AnnounceRequest, At, HoldsRequest, RequestStep
        <3>2. Requested(call[p].id) \in Event
            BY <1>5, <3>1 DEF Event
        <3> QED BY <1>1, <1>2, <1>5, <2>2, <2>4, <3>1, <3>2, PublishOK, GotoOK DEF AnnounceRequest
    <2>5. CASE UnlockSession(p)
        <3>1. call[p].id \in Issued
            BY <2>1, <2>5 DEF UnlockSession, At, HoldsRequest, RequestStep
        <3>2. AtRequest("refetch", call[p].id) \in Call
            BY <1>5, <3>1, CallsBuilt DEF RequestStep
        <3> QED BY <1>1, <1>2, <1>4, <2>5, <3>1, <3>2, GotoOK DEF UnlockSession, AtRequest
    <2>6. CASE RefetchSession(p)
        <3>1. call[p].id \in Issued
            BY <2>1, <2>6 DEF RefetchSession, At, HoldsRequest, RequestStep
        <3>2. PICK seen \in Seen : Goto(p, AtSeen("resolved", call[p].id, seen))
            BY <2>6 DEF RefetchSession, Seen
        <3>3. AtSeen("resolved", call[p].id, seen) \in Call
            BY <1>5, <3>1, CallsBuilt DEF SeenStep
        <3> QED BY <1>1, <1>2, <1>4, <2>6, <3>1, <3>2, <3>3, GotoOK DEF RefetchSession, AtSeen
    <2>7. CASE AnnounceApproval(p)
        <3>1. call[p].id \in Issued
            BY <2>1, <2>7 DEF AnnounceApproval, At, HoldsRequest, SeenStep
        <3>2. Resolved(call[p].id, "approved") \in Event
            BY <1>5, <3>1 DEF Event
        <3>3. call[p] \in Call /\ call[p].pc = "resolved"
            BY <2>7 DEF AnnounceApproval, At, FlowTypes
        <3>4. call[p] \in [pc : SeenStep, id : ApprovalID, seen : Seen]
            BY <3>3 DEF Call, Idle, SessionStep, RequestStep
        <3>5. /\ [call[p] EXCEPT !.pc = "lockChanged"] \in Call
              /\ [call[p] EXCEPT !.pc = "lockChanged"].id = call[p].id
            BY <3>4 DEF Call, SeenStep
        <3> QED BY <1>1, <1>2, <1>5, <2>2, <2>7, <3>1, <3>2, <3>5, PublishOK, GotoOK DEF AnnounceApproval
    <2>8. CASE AnnounceUnlock(p)
        <3>1. call[p].id \in Issued
            BY <2>1, <2>8 DEF AnnounceUnlock, At, HoldsRequest, SeenStep
        <3>2. LockChanged(SessionOf(call[p].id), call[p].seen = "unlocked") \in Event
            <4>1. (call[p].seen = "unlocked") \in BOOLEAN
                OBVIOUS
            <4>2. \A s \in SessionID, set \in BOOLEAN : LockChanged(s, set) \in Event
                BY DEF Event
            <4>3. SessionOf(call[p].id) \in SessionID
                BY <1>5, <3>1
            <4> QED BY <4>1, <4>2, <4>3, Zenon
        <3> QED BY <1>1, <1>2, <1>5, <2>2, <2>8, <3>1, <3>2, PublishOK, GotoOK DEF AnnounceUnlock
    <2>9. CASE AnnounceDenial(p)
        <3>1. call[p].id \in Issued
            BY <2>1, <2>9 DEF AnnounceDenial, At, HoldsRequest, RequestStep
        <3>2. Resolved(call[p].id, "denied") \in Event
            BY <1>5, <3>1 DEF Event
        <3> QED BY <1>1, <1>2, <1>5, <2>2, <2>9, <3>1, <3>2, PublishOK, GotoOK DEF AnnounceDenial
    <2>10. CASE ReadCredentials(p)
        BY <1>1, <1>2, <1>4, <2>2, <2>10, GotoOK DEF ReadCredentials
    <2> QED BY <1>7, <2>3, <2>4, <2>5, <2>6, <2>7, <2>8, <2>9, <2>10 DEF Continue
<1>8. ASSUME NEW u \in UserID, NEW s \in SessionID, SessionCall(u, s)
      PROVE  Rest
    BY <1>1, <1>2, <1>4, <1>8, StayOK DEF SessionCall
<1>9. ASSUME NEW id \in ApprovalID, GetApproval(id)
      PROVE  Rest
    BY <1>1, <1>2, <1>4, <1>9, StayOK DEF GetApproval
<1>10. ASSUME NEW id \in ApprovalID, AnnounceExpiry(id)
       PROVE  Rest
    <2>1. id \in Issued /\ Resolved(id, "expired") \in Event
        BY <1>2, <1>10 DEF AnnounceExpiry, Event
    <2> QED BY <1>1, <1>2, <1>5, <1>10, <2>1, PublishOK, StayOK DEF AnnounceExpiry
<1>11. ASSUME NEW c \in Client, Stream(c)
       PROVE  Rest
    BY <1>1, <1>2, <1>11, StreamOK, StayOK DEF Stream
<1>12. CASE Sweep
    BY <1>1, <1>2, <1>4, <1>12, StayOK DEF Sweep, Stale, Pending
<1>13. CASE Tick \/ UNCHANGED vars
    BY <1>1, <1>2, <1>4, <1>13, StayOK DEF Tick, vars
<1> QED
    BY <1>6, <1>7, <1>8, <1>9, <1>10, <1>11, <1>12, <1>13 DEF Next

LEMMA FlowTypesInit == Init => FlowTypes
<1> SUFFICES ASSUME Init PROVE FlowTypes
    OBVIOUS
<1>1. LockInv
    BY DEF Init, LockInit, LockInv, LockTypeOK, WindowBounded
<1>2. ApprovalInv
    BY ApprovalInitOK DEF Init
<1>3. BrokerTypeOK
    BY DEF Init, BrokerInit, BrokerTypeOK
<1>4. call \in [Handler -> Call] /\ CallsOnRecord
    BY CallsBuilt DEF Init, CallsOnRecord, HoldsRequest, Idle, RequestStep, SeenStep
<1> QED BY <1>1, <1>2, <1>3, <1>4 DEF Init, FlowTypes

LEMMA FlowTypesHold == Spec => []FlowTypes
<1>1. FlowTypes /\ [Next]_vars => FlowTypes'
    BY FlowTypesPreserved
<1> QED BY FlowTypesInit, <1>1, PTL DEF Spec

\* Whatever the handlers, the sweeper, the streams and the clock do, every variable
\* keeps the type the code gives it.
THEOREM TypeCorrect == Spec => []TypeOK
<1>1. FlowTypes => TypeOK
    BY DEF FlowTypes, TypeOK, LockInv, ApprovalInv, Issued
<1> QED BY FlowTypesHold, <1>1, PTL

\* A session never has two pending requests.
THEOREM AtMostOnePending == Spec => []OnePending
<1>1. FlowTypes => OnePending
    BY DEF FlowTypes, ApprovalInv
<1> QED BY FlowTypesHold, <1>1, PTL

\* Every unlock has a deadline, inside the configured timeout.
THEOREM WindowsAreBounded == Spec => []WindowBounded
<1>1. FlowTypes => WindowBounded
    BY DEF FlowTypes, LockInv
<1> QED BY FlowTypesHold, <1>1, PTL

----------------------------------------------------------------------------
(* Verdicts: what becomes of a request.  It is granted, denied or swept,   *)
(* once; one handler acts on it; and the events tell that outcome and no   *)
(* other.  A request's status does not say how it was settled (a late      *)
(* click overwrites it), so the invariant speaks of granted, sweep, the    *)
(* handlers under way and the events told.                                 *)

ApproveStep == {"unlock", "refetch", "resolved", "lockChanged"}

Approving(p) == call[p].pc \in ApproveStep
Denying(p)   == At(p, "denied")

\* The three ways to settle exclude each other, and what is settled is not pending.
Outcomes ==
    /\ \A id \in granted : id \notin Pending /\ id \notin sweep
    /\ \A id \in sweep : id \notin Pending
    /\ \A p \in Handler : Approving(p) => call[p].id \in granted
    /\ \A p \in Handler : Denying(p) => call[p].id \notin Pending \cup granted \cup sweep
    /\ \A p, q \in Handler : Approving(p) /\ Approving(q) /\ call[p].id = call[q].id => p = q

IsVerdict(m) == m.event.type = "approval_resolved"

\* What an event says of an outcome holds, and stays true.
VerdictHolds(m) ==
    /\ m.event.id \in Issued
    /\ m.event.id \notin Pending
    /\ m.user = UserOf(m.event.id)
    /\ m.event.status = "approved" =>
        /\ m.event.id \in granted
        /\ \A p \in Handler : At(p, "unlock") => call[p].id # m.event.id
    /\ m.event.status = "denied" => m.event.id \notin granted \cup sweep
    /\ m.event.status = "expired" =>
        /\ m.event.id \notin granted
        /\ \A p \in Handler : Denying(p) => call[p].id # m.event.id

Truthful ==
    /\ \A m \in published : IsVerdict(m) => VerdictHolds(m)
    /\ OneVerdict

\* A verdict event has the three fields Resolved gives it.
LEMMA VerdictFields ==
    ASSUME BrokerTypeOK, NEW m \in published, IsVerdict(m)
    PROVE  /\ m = [user |-> m.user, event |-> Resolved(m.event.id, m.event.status)]
           /\ m.event.status \in {"approved", "denied", "expired"}
<1>1. m \in [user : UserID, event : Event]
    BY DEF BrokerTypeOK
<1>2. m = [user |-> m.user, event |-> m.event] /\ m.event \in Event
    BY <1>1
<1>3. PICK id \in ApprovalID, v \in {"approved", "denied", "expired"} : m.event = Resolved(id, v)
    BY <1>2 DEF IsVerdict, Event, Requested, LockChanged
<1> QED BY <1>2, <1>3 DEF Resolved

\* Requests on record that are not pending never become so again.
LEMMA StaysSettled ==
    ASSUME KeepsRecord, NEW id \in Issued
    PROVE  /\ id \in Issued'
           /\ UserOf(id)' = UserOf(id)
           /\ SessionOf(id)' = SessionOf(id)
           /\ id \notin Pending => id \notin Pending'
BY DEF KeepsRecord, Issued, UserOf, SessionOf

----------------------------------------------------------------------------
(* Steps that settle nothing *)

\* A handler keeps its approval or denial, or lets it go.
Handles ==
    \A p \in Handler :
        /\ Approving(p)' => Approving(p) /\ call'[p].id = call[p].id
        /\ At(p, "unlock")' => At(p, "unlock")
        /\ Denying(p)' => Denying(p) /\ call'[p].id = call[p].id

LEMMA OutcomesKept ==
    ASSUME FlowTypes, KeepsRecord, Outcomes, Handles,
           granted' = granted, sweep' \subseteq sweep
    PROVE  Outcomes'
<1>1. \A id \in granted \cup sweep : id \notin Pending => id \notin Pending'
    BY StaysSettled DEF FlowTypes
<1>2. \A p \in Handler : Denying(p) => call[p].id \in Issued
    BY DEF FlowTypes, CallsOnRecord, HoldsRequest, Denying, At, RequestStep
<1>3. \A p \in Handler : Denying(p) /\ call[p].id \notin Pending => call[p].id \notin Pending'
    BY <1>2, StaysSettled
<1> QED BY <1>1, <1>3 DEF Outcomes, Handles

\* Nothing told becomes untrue, as long as what is newly settled was pending.
LEMMA TruthKept ==
    ASSUME FlowTypes, KeepsRecord, Truthful,
           \A m \in published' : IsVerdict(m) => m \in published,
           granted \subseteq granted', granted' \subseteq granted \cup Pending,
           sweep' \subseteq sweep \cup Pending,
           \A p \in Handler :
            /\ At(p, "unlock")' => \/ At(p, "unlock") /\ call'[p].id = call[p].id
                                   \/ call'[p].id \in Pending
            /\ Denying(p)' => \/ Denying(p) /\ call'[p].id = call[p].id
                              \/ call'[p].id \in Pending
    PROVE  Truthful'
<1>1. ASSUME NEW m \in published', IsVerdict(m)
      PROVE  VerdictHolds(m)'
    <2>1. m \in published /\ VerdictHolds(m)
        BY <1>1 DEF Truthful
    <2>2. /\ m.event.id \in Issued' /\ m.event.id \notin Pending'
          /\ UserOf(m.event.id)' = UserOf(m.event.id)
        BY <2>1, StaysSettled DEF VerdictHolds
    <2> QED BY <2>1, <2>2 DEF VerdictHolds
<1>2. OneVerdict'
    BY DEF Truthful, OneVerdict, IsVerdict
<1> QED BY <1>1, <1>2 DEF Truthful, IsVerdict

----------------------------------------------------------------------------
(* Steps that tell an outcome *)

\* It is safe to tell an outcome that contradicts nothing told before.
LEMMA TellingTruth ==
    ASSUME FlowTypes, KeepsRecord, Truthful, Handles,
           granted' = granted, sweep' \subseteq sweep,
           NEW new, IsVerdict(new), VerdictHolds(new)',
           new = [user |-> new.user, event |-> Resolved(new.event.id, new.event.status)],
           Publish(new.user, new.event),
           new.event.id \in Issued, new.user = UserOf(new.event.id),
           \A m \in published :
                IsVerdict(m) /\ m.event.id = new.event.id => m.event.status = new.event.status
    PROVE  Truthful'
<1>1. published' = published \cup {new}
    BY DEF Publish
<1>2. ASSUME NEW m \in published, IsVerdict(m)
      PROVE  VerdictHolds(m)'
    <2>1. VerdictHolds(m)
        BY <1>2 DEF Truthful
    <2>2. /\ m.event.id \in Issued' /\ m.event.id \notin Pending'
          /\ UserOf(m.event.id)' = UserOf(m.event.id)
        BY <2>1, StaysSettled DEF VerdictHolds
    <2>3. \A p \in Handler : At(p, "unlock")' => At(p, "unlock") /\ call'[p].id = call[p].id
        BY DEF Handles, Approving, At, ApproveStep
    <2> QED BY <2>1, <2>2, <2>3 DEF VerdictHolds, Handles
<1>3. ASSUME NEW m \in published, IsVerdict(m), m.event.id = new.event.id
      PROVE  m = new
    <2>1. m.event.status = new.event.status
        BY <1>3
    <2>2. m.user = new.user
        BY <1>3 DEF Truthful, VerdictHolds
    <2>3. BrokerTypeOK
        BY DEF FlowTypes
    <2>4. m = [user |-> m.user, event |-> Resolved(m.event.id, m.event.status)]
        BY <1>3, <2>3, VerdictFields
    <2> QED BY <1>3, <2>1, <2>2, <2>4
<1>4. OneVerdict'
    BY <1>1, <1>3 DEF Truthful, OneVerdict, IsVerdict
<1>5. \A m \in published' : IsVerdict(m) => VerdictHolds(m)'
    BY <1>1, <1>2
<1> QED BY <1>4, <1>5 DEF Truthful, IsVerdict

----------------------------------------------------------------------------
(* One step per action *)

Settled == Outcomes /\ Truthful

LEMMA GotoHandles ==
    ASSUME FlowTypes, NEW p \in Handler, NEW next,
           Goto(p, next),
           next.pc # "unlock", next.pc # "denied",
           next.pc \in ApproveStep => Approving(p) /\ next.id = call[p].id
    PROVE  Handles
BY DEF FlowTypes, Goto, Handles, Approving, Denying, At

LEMMA StayHandles ==
    ASSUME UNCHANGED call
    PROVE  Handles
BY DEF Handles, Approving, Denying, At

\* A step that settles nothing and tells no verdict.
Quiet ==
    /\ Handles
    /\ granted' = granted
    /\ sweep' = sweep
    /\ \A m \in published' : IsVerdict(m) => m \in published

LEMMA QuietKeepsSettled ==
    ASSUME FlowTypes, KeepsRecord, Settled, Quiet
    PROVE  Settled'
<1>1. Outcomes'
    BY OutcomesKept DEF Settled, Quiet
<1>2. \A p \in Handler : At(p, "unlock")' => At(p, "unlock") /\ call'[p].id = call[p].id
    BY DEF Quiet, Handles, Approving, At, ApproveStep
<1>3. Truthful'
    BY <1>2, TruthKept DEF Settled, Quiet, Handles
<1> QED BY <1>1, <1>3 DEF Settled

\* Publishing anything but a verdict is quiet.
LEMMA PublishQuiet ==
    ASSUME NEW u, NEW event, Publish(u, event), event.type # "approval_resolved"
    PROVE  \A m \in published' : IsVerdict(m) => m \in published
BY DEF Publish, IsVerdict

LEMMA QuietSteps ==
    ASSUME FlowTypes,
           \/ \E p \in Handler :
                \/ FindOrCreate(p) \/ AnnounceRequest(p) \/ UnlockSession(p)
                \/ RefetchSession(p) \/ AnnounceUnlock(p) \/ ReadCredentials(p)
                \/ \E u \in UserID, s \in SessionID :
                        RequestUnlock(p, u, s) \/ CheckCredentials(p, u, s)
                \/ \E id \in ApprovalID :
                        ~ Resolvable(id) /\ (ApproveRequest(p, id) \/ DenyRequest(p, id))
           \/ \E u \in UserID, s \in SessionID : SessionCall(u, s)
           \/ \E id \in ApprovalID : GetApproval(id)
           \/ \E c \in Client : Stream(c)
           \/ Tick
           \/ UNCHANGED vars
    PROVE  Quiet
<1>1. ASSUME NEW p \in Handler, FindOrCreate(p)
      PROVE  Quiet
    <2>1. Handles
        <3>1. CASE Goto(p, Idle)
            BY <3>1, GotoHandles DEF Idle, ApproveStep
        <3>2. ASSUME NEW id \in ApprovalID, Goto(p, AtRequest("announce", id))
              PROVE  Handles
            BY <3>2, GotoHandles DEF AtRequest, ApproveStep
        <3> QED BY <1>1, <3>1, <3>2 DEF FindOrCreate
    <2> QED BY <1>1, <2>1 DEF FindOrCreate, Quiet
<1>2. ASSUME NEW p \in Handler, AnnounceRequest(p) \/ AnnounceUnlock(p)
      PROVE  Quiet
    <2>1. Handles
        BY <1>2, GotoHandles DEF AnnounceRequest, AnnounceUnlock, Idle, ApproveStep
    <2>2. \A m \in published' : IsVerdict(m) => m \in published
        BY <1>2, PublishQuiet DEF AnnounceRequest, AnnounceUnlock, Requested, LockChanged
    <2> QED BY <1>2, <2>1, <2>2 DEF AnnounceRequest, AnnounceUnlock, Quiet
<1>3. ASSUME NEW p \in Handler, UnlockSession(p)
      PROVE  Quiet
    <2>1. Approving(p)
        BY <1>3 DEF UnlockSession, At, Approving, ApproveStep
    <2>2. Handles
        BY <1>3, <2>1, GotoHandles DEF UnlockSession, AtRequest, ApproveStep
    <2> QED BY <1>3, <2>2 DEF UnlockSession, Quiet
<1>4. ASSUME NEW p \in Handler, RefetchSession(p)
      PROVE  Quiet
    <2>1. Approving(p)
        BY <1>4 DEF RefetchSession, At, Approving, ApproveStep
    <2>2. PICK seen \in Seen : Goto(p, AtSeen("resolved", call[p].id, seen))
        BY <1>4 DEF RefetchSession, Seen
    <2>3. Handles
        BY <2>1, <2>2, GotoHandles DEF AtSeen, ApproveStep
    <2> QED BY <1>4, <2>3 DEF RefetchSession, Quiet
<1>5. ASSUME NEW p \in Handler, ReadCredentials(p)
      PROVE  Quiet
    BY <1>5, GotoHandles DEF ReadCredentials, Idle, ApproveStep, Quiet
<1>6. ASSUME NEW p \in Handler, NEW u \in UserID, NEW s \in SessionID,
             RequestUnlock(p, u, s) \/ CheckCredentials(p, u, s)
      PROVE  Quiet
    <2>1. Handles
        BY <1>6, GotoHandles, StayHandles DEF RequestUnlock, CheckCredentials, AtSession, ApproveStep
    <2> QED BY <1>6, <2>1 DEF RequestUnlock, CheckCredentials, Quiet
<1>7. ASSUME NEW p \in Handler, NEW id \in ApprovalID,
             ~ Resolvable(id), ApproveRequest(p, id) \/ DenyRequest(p, id)
      PROVE  Quiet
    BY <1>7, StayHandles DEF ApproveRequest, DenyRequest, Quiet
<1>8. CASE \/ \E u \in UserID, s \in SessionID : SessionCall(u, s)
           \/ \E id \in ApprovalID : GetApproval(id)
           \/ Tick
           \/ UNCHANGED vars
    BY <1>8, StayHandles DEF SessionCall, GetApproval, Tick, vars, Quiet
<1>9. ASSUME NEW c \in Client, Stream(c)
      PROVE  Quiet
    BY <1>9, StayHandles DEF Stream, Unsubscribe, Deliver, Subscribe, Quiet
<1> QED BY <1>1, <1>2, <1>3, <1>4, <1>5, <1>6, <1>7, <1>8, <1>9

\* What Approve and Deny resolve was pending, is no longer, and nobody has settled
\* it before.
LEMMA ResolvedNow ==
    ASSUME FlowTypes, Settled, NEW id \in ApprovalID, Resolvable(id),
           NEW verdict \in {"approved", "denied"}, Resolve(id, verdict)
    PROVE  /\ id \in Pending /\ id \notin Pending'
           /\ id \notin granted \cup sweep
           /\ \A p \in Handler : Approving(p) \/ Denying(p) => call[p].id # id
<1>1. id \in Pending /\ ~ Overdue(id) /\ requests[id] \in ApprovalRequest
    BY DEF Resolvable, FlowTypes, ApprovalInv, ApprovalTypeOK, Pending, Issued
<1>2. requests'[id].status = verdict
    BY <1>1 DEF Resolve, FlowTypes, ApprovalInv, ApprovalTypeOK, Pending, Issued, ApprovalRequest
<1>3. id \notin Pending'
    BY <1>2 DEF Pending
<1> QED BY <1>1, <1>3 DEF Settled, Outcomes

\* A request is granted: by one handler, which has yet to unlock.
LEMMA ApproveSettles ==
    ASSUME FlowTypes, KeepsRecord, Settled, NEW p \in Handler, NEW id \in ApprovalID,
           ApproveRequest(p, id), Resolvable(id)
    PROVE  Settled'
<1>1. /\ id \in Pending /\ id \notin Pending'
      /\ id \notin granted \cup sweep
      /\ \A q \in Handler : Approving(q) \/ Denying(q) => call[q].id # id
    BY ResolvedNow DEF ApproveRequest, Approve
<1>2. /\ granted' = granted \cup {id} /\ sweep' = sweep /\ published' = published
      /\ call' = [call EXCEPT ![p] = AtRequest("unlock", id)]
      /\ ~ Approving(p) /\ ~ Denying(p)
    BY DEF ApproveRequest, Goto, Approving, Denying, At, ApproveStep
<1>3. call'[p].pc = "unlock" /\ call'[p].id = id /\ \A q \in Handler \ {p} : call'[q] = call[q]
    BY <1>2 DEF FlowTypes, AtRequest
<1>4. \A x \in granted \cup sweep : x \notin Pending'
    BY StaysSettled DEF FlowTypes, Settled, Outcomes
<1>5. \A q \in Handler : Denying(q) => call[q].id \notin Pending'
    <2>1. \A q \in Handler : Denying(q) => call[q].id \in Issued
        BY DEF FlowTypes, CallsOnRecord, HoldsRequest, Denying, At, RequestStep
    <2> QED BY <2>1, StaysSettled DEF Settled, Outcomes
<1>6. Outcomes'
    BY <1>1, <1>2, <1>3, <1>4, <1>5 DEF Settled, Outcomes, Approving, Denying, At, ApproveStep
<1>7. Truthful'
    BY <1>1, <1>2, <1>3, TruthKept DEF Settled, Denying, At
<1> QED BY <1>6, <1>7 DEF Settled

\* A request is denied: by one handler, which has yet to tell.
LEMMA DenySettles ==
    ASSUME FlowTypes, KeepsRecord, Settled, NEW p \in Handler, NEW id \in ApprovalID,
           DenyRequest(p, id), Resolvable(id)
    PROVE  Settled'
<1>1. /\ id \in Pending /\ id \notin Pending'
      /\ id \notin granted \cup sweep
      /\ \A q \in Handler : Approving(q) \/ Denying(q) => call[q].id # id
    BY ResolvedNow DEF DenyRequest, Deny
<1>2. /\ granted' = granted /\ sweep' = sweep /\ published' = published
      /\ call' = [call EXCEPT ![p] = AtRequest("denied", id)]
    BY DEF DenyRequest, Goto
<1>3. call'[p].pc = "denied" /\ call'[p].id = id /\ \A q \in Handler \ {p} : call'[q] = call[q]
    BY <1>2 DEF FlowTypes, AtRequest
<1>4. \A x \in granted \cup sweep : x \notin Pending'
    BY StaysSettled DEF FlowTypes, Settled, Outcomes
<1>5. \A q \in Handler : Denying(q) => call[q].id \notin Pending'
    <2>1. \A q \in Handler : Denying(q) => call[q].id \in Issued
        BY DEF FlowTypes, CallsOnRecord, HoldsRequest, Denying, At, RequestStep
    <2> QED BY <2>1, StaysSettled DEF Settled, Outcomes
<1>6. Outcomes'
    BY <1>1, <1>2, <1>3, <1>4, <1>5 DEF Settled, Outcomes, Approving, Denying, At, ApproveStep
<1>7. Truthful'
    BY <1>1, <1>2, <1>3, TruthKept DEF Settled, Denying, At
<1> QED BY <1>6, <1>7 DEF Settled

\* A round of the sweeper settles pending requests only, all of them for good.
LEMMA SweepSettles ==
    ASSUME FlowTypes, KeepsRecord, Settled, Sweep
    PROVE  Settled'
<1>1. /\ sweep = {} /\ sweep' = Stale /\ Stale \subseteq Pending
      /\ UNCHANGED <<call, granted, published>>
    BY DEF Sweep, Stale
<1>2. \A id \in Stale : id \notin Pending'
    <2> SUFFICES ASSUME NEW id \in Stale PROVE requests'[id].status = "expired"
        BY DEF Pending
    <2>1. id \in ApprovalID /\ requests[id] \in ApprovalRequest
        BY DEF Stale, Pending, Issued, FlowTypes, ApprovalInv, ApprovalTypeOK
    <2>2. requests'[id] = [requests[id] EXCEPT !.status = "expired"]
        BY <2>1 DEF Sweep, ExpireOld, MarkExpired
    <2> QED BY <2>1, <2>2 DEF ApprovalRequest
<1>3. \A x \in granted : x \notin Pending'
    BY StaysSettled DEF FlowTypes, Settled, Outcomes
<1>4. \A q \in Handler : Denying(q) => call[q].id \notin Pending'
    <2>1. \A q \in Handler : Denying(q) => call[q].id \in Issued
        BY DEF FlowTypes, CallsOnRecord, HoldsRequest, Denying, At, RequestStep
    <2> QED BY <2>1, StaysSettled DEF Settled, Outcomes
<1>5. Outcomes'
    BY <1>1, <1>2, <1>3, <1>4 DEF Settled, Outcomes, Approving, Denying, At
<1>6. Truthful'
    BY <1>1, TruthKept DEF Settled, Denying, At
<1> QED BY <1>5, <1>6 DEF Settled

\* The approved event: its request is granted, so nothing else was told of it, and
\* the one handler that could still have to unlock is the one that tells.
LEMMA TellApproval ==
    ASSUME FlowTypes, KeepsRecord, Settled, NEW p \in Handler, AnnounceApproval(p)
    PROVE  Settled'
<1>1. At(p, "resolved") /\ Approving(p)
    BY DEF AnnounceApproval, At, Approving, ApproveStep
<1>0. PICK id \in granted : id = call[p].id
    BY <1>1 DEF Settled, Outcomes
<1> DEFINE new == [user |-> UserOf(id), event |-> Resolved(id, "approved")]
<1>2. id \in granted /\ id \in Issued /\ id \notin Pending
    BY <1>0 DEF Settled, Outcomes, FlowTypes
<1>3. Handles
    <2>1. call[p] \in Call /\ call[p].pc = "resolved"
        BY <1>1 DEF At, FlowTypes
    <2>2. call[p] \in [pc : SeenStep, id : ApprovalID, seen : Seen]
        BY <2>1 DEF Call, Idle, SessionStep, RequestStep
    <2> DEFINE next == [call[p] EXCEPT !.pc = "lockChanged"]
    <2>3. next.pc = "lockChanged" /\ next.id = call[p].id
        BY <2>2
    <2> HIDE DEF next
    <2>4. Goto(p, Idle) \/ Goto(p, next)
        BY DEF AnnounceApproval, next
    <2> QED BY <1>1, <2>3, <2>4, GotoHandles DEF Idle, ApproveStep
<1>4. granted' = granted /\ sweep' = sweep /\ requests' = requests
    BY DEF AnnounceApproval
<1>5. Publish(new.user, new.event)
    BY <1>0 DEF AnnounceApproval
<1>6. IsVerdict(new) /\ new.user = UserOf(id) /\ new.event.id = id /\ new.event.status = "approved"
    BY DEF IsVerdict, Resolved
<1>7. \A q \in Handler : At(q, "unlock") => call[q].id # id
    BY <1>0, <1>1 DEF Settled, Outcomes, Approving, At, ApproveStep
<1>8. \A m \in published : IsVerdict(m) /\ m.event.id = id => m.event.status = "approved"
    <2> SUFFICES ASSUME NEW m \in published, IsVerdict(m), m.event.id = id
                 PROVE  m.event.status = "approved"
        OBVIOUS
    <2>1. m.event.status \in {"approved", "denied", "expired"}
        BY VerdictFields DEF FlowTypes
    <2> QED BY <1>2, <2>1 DEF Settled, Truthful, VerdictHolds
<1>9. PICK n : n = new
    OBVIOUS
<1> HIDE DEF new
<1>10. VerdictHolds(n)'
    <2>1. \A q \in Handler : At(q, "unlock")' => call'[q].id # id
        BY <1>3, <1>7 DEF Handles, Approving, At, ApproveStep
    <2>2. n.event.id \in Issued' /\ n.event.id \notin Pending' /\ UserOf(id)' = UserOf(id)
        BY <1>2, <1>6, <1>9, StaysSettled
    <2> QED BY <1>2, <1>4, <1>6, <1>9, <2>1, <2>2 DEF VerdictHolds
<1>11. n = [user |-> n.user, event |-> Resolved(n.event.id, n.event.status)]
    BY <1>6, <1>9 DEF new
<1>12. Truthful'
    BY <1>2, <1>3, <1>4, <1>5, <1>6, <1>8, <1>9, <1>10, <1>11, TellingTruth DEF Settled
<1>13. Outcomes'
    BY <1>3, <1>4, OutcomesKept DEF Settled
<1> QED BY <1>12, <1>13 DEF Settled

\* The denied event: its request is neither granted nor swept.
LEMMA TellDenial ==
    ASSUME FlowTypes, KeepsRecord, Settled, NEW p \in Handler, AnnounceDenial(p)
    PROVE  Settled'
<1>1. Denying(p)
    BY DEF AnnounceDenial, Denying
<1>0. PICK id \in Issued : id = call[p].id
    BY <1>1 DEF FlowTypes, CallsOnRecord, HoldsRequest, Denying, At, RequestStep
<1> DEFINE new == [user |-> UserOf(id), event |-> Resolved(id, "denied")]
<1>2. id \in Issued /\ id \notin Pending \cup granted \cup sweep
    BY <1>0, <1>1 DEF Settled, Outcomes, FlowTypes, CallsOnRecord, HoldsRequest, Denying, At, RequestStep
<1>3. Handles
    BY GotoHandles DEF AnnounceDenial, Idle, ApproveStep
<1>4. granted' = granted /\ sweep' = sweep
    BY DEF AnnounceDenial
<1>5. Publish(new.user, new.event)
    BY <1>0 DEF AnnounceDenial
<1>6. IsVerdict(new) /\ new.user = UserOf(id) /\ new.event.id = id /\ new.event.status = "denied"
    BY DEF IsVerdict, Resolved
<1>7. \A m \in published : IsVerdict(m) /\ m.event.id = id => m.event.status = "denied"
    <2> SUFFICES ASSUME NEW m \in published, IsVerdict(m), m.event.id = id
                 PROVE  m.event.status = "denied"
        OBVIOUS
    <2>1. m.event.status \in {"approved", "denied", "expired"}
        BY VerdictFields DEF FlowTypes
    <2> QED BY <1>0, <1>1, <1>2, <2>1 DEF Settled, Truthful, VerdictHolds
<1>8. PICK n : n = new
    OBVIOUS
<1> HIDE DEF new
<1>9. VerdictHolds(n)'
    <2>1. n.event.id \in Issued' /\ n.event.id \notin Pending' /\ UserOf(id)' = UserOf(id)
        BY <1>2, <1>6, <1>8, StaysSettled
    <2> QED BY <1>2, <1>4, <1>6, <1>8, <2>1 DEF VerdictHolds
<1>10. n = [user |-> n.user, event |-> Resolved(n.event.id, n.event.status)]
    BY <1>6, <1>8 DEF new
<1>11. Truthful'
    BY <1>2, <1>3, <1>4, <1>5, <1>6, <1>7, <1>8, <1>9, <1>10, TellingTruth DEF Settled
<1>12. Outcomes'
    BY <1>3, <1>4, OutcomesKept DEF Settled
<1> QED BY <1>11, <1>12 DEF Settled

\* The expired event: its request was swept, so nobody granted or denied it.
LEMMA TellExpiry ==
    ASSUME FlowTypes, KeepsRecord, Settled, NEW id \in ApprovalID, AnnounceExpiry(id)
    PROVE  Settled'
<1> DEFINE new == [user |-> UserOf(id), event |-> Resolved(id, "expired")]
<1>1. id \in sweep /\ id \in Issued /\ id \notin Pending \cup granted
    BY DEF AnnounceExpiry, Settled, Outcomes, FlowTypes
<1>2. Handles
    BY StayHandles DEF AnnounceExpiry
<1>3. granted' = granted /\ sweep' \subseteq sweep /\ UNCHANGED call
    BY DEF AnnounceExpiry
<1>4. Publish(new.user, new.event)
    BY DEF AnnounceExpiry
<1>5. IsVerdict(new) /\ new.user = UserOf(id) /\ new.event.id = id /\ new.event.status = "expired"
    BY DEF IsVerdict, Resolved
<1>6. \A m \in published : IsVerdict(m) /\ m.event.id = id => m.event.status = "expired"
    <2> SUFFICES ASSUME NEW m \in published, IsVerdict(m), m.event.id = id
                 PROVE  m.event.status = "expired"
        OBVIOUS
    <2>1. m.event.status \in {"approved", "denied", "expired"}
        BY VerdictFields DEF FlowTypes
    <2> QED BY <1>1, <2>1 DEF Settled, Truthful, VerdictHolds
<1>7. \A q \in Handler : Denying(q)' => call'[q].id # id
    BY <1>1, <1>3 DEF Settled, Outcomes, Denying, At
<1>8. PICK n : n = new
    OBVIOUS
<1> HIDE DEF new
<1>9. VerdictHolds(n)'
    <2>1. n.event.id \in Issued' /\ n.event.id \notin Pending' /\ UserOf(id)' = UserOf(id)
        BY <1>1, <1>5, <1>8, StaysSettled
    <2> QED BY <1>1, <1>3, <1>5, <1>7, <1>8, <2>1 DEF VerdictHolds
<1>10. n = [user |-> n.user, event |-> Resolved(n.event.id, n.event.status)]
    BY <1>5, <1>8 DEF new
<1>11. Truthful'
    BY <1>1, <1>2, <1>3, <1>4, <1>5, <1>6, <1>8, <1>9, <1>10, TellingTruth DEF Settled
<1>12. Outcomes'
    BY <1>2, <1>3, OutcomesKept DEF Settled
<1> QED BY <1>11, <1>12 DEF Settled

LEMMA SettledPreserved ==
    ASSUME FlowTypes, Settled, [Next]_vars
    PROVE  Settled'
<1>1. KeepsRecord
    BY ManagersPreserve
<1>2. ASSUME NEW p \in Handler, NEW id \in ApprovalID,
             Resolvable(id), ApproveRequest(p, id) \/ DenyRequest(p, id)
      PROVE  Settled'
    BY <1>1, <1>2, ApproveSettles, DenySettles
<1>3. ASSUME NEW p \in Handler, AnnounceApproval(p) \/ AnnounceDenial(p)
      PROVE  Settled'
    BY <1>1, <1>3, TellApproval, TellDenial
<1>4. ASSUME NEW id \in ApprovalID, AnnounceExpiry(id)
      PROVE  Settled'
    BY <1>1, <1>4, TellExpiry
<1>5. CASE Sweep
    BY <1>1, <1>5, SweepSettles
<1>6. CASE Quiet
    BY <1>1, <1>6, QuietKeepsSettled
<1> QED
    BY <1>2, <1>3, <1>4, <1>5, <1>6, QuietSteps DEF Next, Arrival, Continue

LEMMA SettledInit == Init => Settled
BY DEF Init, BrokerInit, Settled, Outcomes, Truthful, OneVerdict, Approving, Denying, At,
       Idle, ApproveStep

LEMMA SettledHolds == Spec => []Settled
<1>1. FlowTypes /\ Settled /\ [Next]_vars => Settled'
    BY SettledPreserved
<1> QED BY FlowTypesHold, SettledInit, <1>1, PTL DEF Spec

\* An approval is acted on by one handler: two clicks never unlock twice.
THEOREM ApprovalsAreSingleUse == Spec => []SingleUse
<1>1. Settled => SingleUse
    BY DEF Settled, Outcomes, SingleUse, Approving, At, ApproveStep
<1> QED BY SettledHolds, <1>1, PTL

\* No subscriber is ever told two outcomes of a request.
THEOREM OutcomesAreUnique == Spec => []OneVerdict
<1>1. Settled => OneVerdict
    BY DEF Settled, Truthful
<1> QED BY SettledHolds, <1>1, PTL

\* The approved event is sent after the call of Unlock, for a request that was approved.
THEOREM ApprovedEventsFollow == Spec => []ApprovedFollowsUnlock
<1>1. Settled => ApprovedFollowsUnlock
    BY DEF Settled, Truthful, IsVerdict, VerdictHolds, ApprovedFollowsUnlock, Unlocking
<1> QED BY SettledHolds, <1>1, PTL
=============================================================================
