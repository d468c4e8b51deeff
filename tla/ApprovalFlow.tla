---------------------------- MODULE ApprovalFlow ----------------------------
(***************************************************************************)
(* How a locked session gets unlocked: the HTTP handlers of               *)
(* wcm/internal/api and the sweeper of wcm/cmd/wcm/main.go, running       *)
(* concurrently over the lock manager, the approval manager and the SSE   *)
(* broker.                                                                 *)
(*                                                                         *)
(* A manager call is atomic (each manager has its mutex) but a handler    *)
(* makes several: a handler that is between two calls is in call[p], and  *)
(* anything may happen there.  A handler that makes one call is one step  *)
(* and needs no record.  Everything is in memory.                          *)
(***************************************************************************)
EXTENDS LockManager, ApprovalManager, SSEBroker, FiniteSets

CONSTANT
    Handler         \* handler goroutines that may be under way at once

VARIABLES
    call,           \* where each handler is, with its local variables
    sweep,          \* requests ExpireOld returned that are not yet announced
    granted         \* history: the requests Approve has accepted

vars == <<sessions, requests, channels, published, call, sweep, granted>>

----------------------------------------------------------------------------
(* Handlers under way *)

Idle == [pc |-> "idle"]

\* After the lock check, with the user and session of the URL.
AtSession(pc, u, s) == [pc |-> pc, user |-> u, session |-> s]

\* Holding a copy of an approval request.
AtRequest(pc, id) == [pc |-> pc, id |-> id]

\* approve after its GetSession, with what that returned: no session (nil), or
\* a copy that is locked (ExpiresAt nil) or unlocked.
AtSeen(pc, id, seen) == [pc |-> pc, id |-> id, seen |-> seen]

SessionStep == {"create", "read"}
RequestStep == {"announce", "unlock", "refetch", "denied"}
SeenStep    == {"resolved", "lockChanged"}
Seen        == {"gone", "locked", "unlocked"}

Call ==
    {Idle}
        \cup [pc : SessionStep, user : UserID, session : SessionID]
        \cup [pc : RequestStep, id : ApprovalID]
        \cup [pc : SeenStep, id : ApprovalID, seen : Seen]

At(p, pc) == call[p].pc = pc

Goto(p, next) == call' = [call EXCEPT ![p] = next]

UserOf(id)    == requests[id].user
SessionOf(id) == requests[id].session

\* Bound of the model: an unlock request is taken only while a fresh id is left
\* for each handler that is about to draw one.
IDsLeft == Cardinality({p \in Handler : At(p, "create")}) < Cardinality(FreshIDs)

----------------------------------------------------------------------------
(* Unlock requests: POST /sessions/{id}/unlock *)

\* The lock check.  404 for no such session and 200 for one that is unlocked
\* end the call here.
RequestUnlock(p, u, s) ==
    /\ At(p, "idle")
    /\ IDsLeft
    /\ GetSession(u, s)
    /\ \/ /\ Owns(u, s) /\ sessions'[s].locked
          /\ Goto(p, AtSession("create", u, s))
       \/ /\ ~ (Owns(u, s) /\ sessions'[s].locked)
          /\ UNCHANGED call
    /\ UNCHANGED <<requests, channels, published, sweep, granted>>

\* Mutation: the 409 path falls through to Publish.
FindOrCreate_AnnouncesPending(p) ==
    /\ At(p, "create")
    /\ LET u == call[p].user
           s == call[p].session
       IN  \/ /\ FindPending(u, s)
              /\ \E id \in PendingFor(u, s) : Goto(p, AtRequest("announce", id))
           \/ \E id \in ApprovalID :
                CreatePending(id, u, s) /\ Goto(p, AtRequest("announce", id))
    /\ UNCHANGED <<sessions, channels, published, sweep, granted>>

\* GetOrCreate.  A request that is already pending ends the call with 409.
FindOrCreate(p) ==
    /\ At(p, "create")
    /\ LET u == call[p].user
           s == call[p].session
       IN  \/ FindPending(u, s) /\ Goto(p, Idle)
           \/ \E id \in ApprovalID :
                CreatePending(id, u, s) /\ Goto(p, AtRequest("announce", id))
    /\ UNCHANGED <<sessions, channels, published, sweep, granted>>

AnnounceRequest(p) ==
    /\ At(p, "announce")
    /\ Publish(UserOf(call[p].id), Requested(call[p].id))
    /\ Goto(p, Idle)
    /\ UNCHANGED <<sessions, requests, sweep, granted>>

----------------------------------------------------------------------------
(* Verdicts: POST /approvals/{id}/approve and .../deny *)

\* 404 and 410 end the call here.
ApproveRequest(p, id) ==
    /\ At(p, "idle")
    /\ Approve(id)
    /\ \/ /\ Resolvable(id)
          /\ Goto(p, AtRequest("unlock", id))
          /\ granted' = granted \cup {id}
       \/ /\ ~ Resolvable(id)
          /\ UNCHANGED <<call, granted>>
    /\ UNCHANGED <<sessions, channels, published, sweep>>

\* Unlock's result is not looked at: the session may be gone.
UnlockSession(p) ==
    /\ At(p, "unlock")
    /\ Unlock(UserOf(call[p].id), SessionOf(call[p].id))
    /\ Goto(p, AtRequest("refetch", call[p].id))
    /\ UNCHANGED <<requests, channels, published, sweep, granted>>

\* Mutation: approve returns early when the session is gone.
RefetchSession_EndsWhenGone(p) ==
    /\ At(p, "refetch")
    /\ LET id == call[p].id
           s  == SessionOf(id)
       IN  /\ GetSession(UserOf(id), s)
           /\ Goto(p, IF Owns(UserOf(id), s) THEN AtSeen("resolved", id, "unlocked") ELSE Idle)
    /\ UNCHANGED <<requests, channels, published, sweep, granted>>

RefetchSession(p) ==
    /\ At(p, "refetch")
    /\ LET id   == call[p].id
           s    == SessionOf(id)
           seen == IF ~ Owns(UserOf(id), s) THEN "gone"
                   ELSE IF sessions'[s].locked THEN "locked" ELSE "unlocked"
       IN  GetSession(UserOf(id), s) /\ Goto(p, AtSeen("resolved", id, seen))
    /\ UNCHANGED <<requests, channels, published, sweep, granted>>

\* Mutation: the event is published before the unlock.
AnnounceApproval_First(p) ==
    /\ At(p, "unlock")
    /\ Publish(UserOf(call[p].id), Resolved(call[p].id, "approved"))
    /\ UNCHANGED <<sessions, requests, call, sweep, granted>>

AnnounceApproval(p) ==
    /\ At(p, "resolved")
    /\ Publish(UserOf(call[p].id), Resolved(call[p].id, "approved"))
    /\ Goto(p, IF call[p].seen = "gone" THEN Idle ELSE [call[p] EXCEPT !.pc = "lockChanged"])
    /\ UNCHANGED <<sessions, requests, sweep, granted>>

\* Mutation: the two events in the other order.
AnnounceUnlock_First(p) ==
    /\ At(p, "resolved") /\ call[p].seen # "gone"
    /\ Publish(UserOf(call[p].id),
               LockChanged(SessionOf(call[p].id), call[p].seen = "unlocked"))
    /\ UNCHANGED <<sessions, requests, call, sweep, granted>>

\* locked: false is a literal; only expiresAt comes from the copy.
AnnounceUnlock(p) ==
    /\ At(p, "lockChanged")
    /\ Publish(UserOf(call[p].id),
               LockChanged(SessionOf(call[p].id), call[p].seen = "unlocked"))
    /\ Goto(p, Idle)
    /\ UNCHANGED <<sessions, requests, sweep, granted>>

DenyRequest(p, id) ==
    /\ At(p, "idle")
    /\ Deny(id)
    /\ \/ Resolvable(id) /\ Goto(p, AtRequest("denied", id))
       \/ ~ Resolvable(id) /\ UNCHANGED call
    /\ UNCHANGED <<sessions, channels, published, sweep, granted>>

AnnounceDenial(p) ==
    /\ At(p, "denied")
    /\ Publish(UserOf(call[p].id), Resolved(call[p].id, "denied"))
    /\ Goto(p, Idle)
    /\ UNCHANGED <<sessions, requests, sweep, granted>>

GetApproval(id) ==
    /\ Get(id)
    /\ UNCHANGED <<sessions, channels, published, call, sweep, granted>>

----------------------------------------------------------------------------
(* Credential reads with X-Session-Id: the lock check, then the store *)

\* 404 and 423 end the call here.
CheckCredentials(p, u, s) ==
    /\ At(p, "idle")
    /\ GetSession(u, s)
    /\ \/ /\ Owns(u, s) /\ ~ sessions'[s].locked
          /\ Goto(p, AtSession("read", u, s))
       \/ /\ ~ (Owns(u, s) /\ ~ sessions'[s].locked)
          /\ UNCHANGED call
    /\ UNCHANGED <<requests, channels, published, sweep, granted>>

\* The secrets leave the store.
ReadCredentials(p) ==
    /\ At(p, "read")
    /\ Goto(p, Idle)
    /\ UNCHANGED <<sessions, requests, channels, published, sweep, granted>>

----------------------------------------------------------------------------
(* Sessions: one lock-manager call each, and no event *)

SessionCall(u, s) ==
    /\ \/ Register(u, s)        \* register
       \/ Unregister(u, s)      \* unregister
       \/ GetSession(u, s)      \* getLock
       \/ List(u)               \* list
       \/ Lock(u, s)            \* forceLock
    /\ UNCHANGED <<requests, channels, published, call, sweep, granted>>

----------------------------------------------------------------------------
(* The sweeper goroutine and the clock *)

\* A tick of the 10 s ticker, taken when the round before has been announced.
Sweep ==
    /\ sweep = {}
    /\ ExpireOld
    /\ sweep' = Stale
    /\ UNCHANGED <<sessions, channels, published, call, granted>>

AnnounceExpiry(id) ==
    /\ id \in sweep
    /\ Publish(UserOf(id), Resolved(id, "expired"))
    /\ sweep' = sweep \ {id}
    /\ UNCHANGED <<sessions, requests, call, granted>>

Tick ==
    /\ AgeSessions
    /\ AgeRequests
    /\ UNCHANGED <<channels, published, call, sweep, granted>>

\* Event streams open, are read from, and close.
Stream(c) ==
    /\ Unsubscribe(c) \/ Deliver(c) \/ \E u \in UserID : Subscribe(c, u)
    /\ UNCHANGED <<sessions, requests, call, sweep, granted>>

----------------------------------------------------------------------------
Init ==
    /\ LockInit
    /\ ApprovalInit
    /\ BrokerInit
    /\ call = [p \in Handler |-> Idle]
    /\ sweep = {}
    /\ granted = {}

\* A request arrives from a proxy, a browser or an editor.
Arrival(p) ==
    \/ \E u \in UserID, s \in SessionID : RequestUnlock(p, u, s) \/ CheckCredentials(p, u, s)
    \/ \E id \in ApprovalID : ApproveRequest(p, id) \/ DenyRequest(p, id)

\* A handler under way takes its next step.
Continue(p) ==
    \/ FindOrCreate(p)
    \/ AnnounceRequest(p)
    \/ UnlockSession(p)
    \/ RefetchSession(p)
    \/ AnnounceApproval(p)
    \/ AnnounceUnlock(p)
    \/ AnnounceDenial(p)
    \/ ReadCredentials(p)

Next ==
    \/ \E p \in Handler : Arrival(p) \/ Continue(p)
    \/ \E u \in UserID, s \in SessionID : SessionCall(u, s)
    \/ \E id \in ApprovalID : GetApproval(id) \/ AnnounceExpiry(id)
    \/ \E c \in Client : Stream(c)
    \/ Sweep
    \/ Tick

Spec == Init /\ [][Next]_vars

\* What the Go runtime gives: time passes, a handler that has started runs to its
\* end (it takes mutexes that are never held across anything that blocks), and so
\* does the sweeper.  Nobody need ever send a request or read an event stream.
Fairness ==
    /\ WF_vars(Tick)
    /\ WF_vars(Sweep)
    /\ \A id \in ApprovalID : WF_vars(AnnounceExpiry(id))
    /\ \A p \in Handler : WF_vars(Continue(p))

FairSpec == Spec /\ Fairness

----------------------------------------------------------------------------
(* Properties *)

\* Every variable holds a value the code's types allow.
TypeOK ==
    /\ LockTypeOK
    /\ ApprovalTypeOK
    /\ BrokerTypeOK
    /\ call \in [Handler -> Call]
    /\ sweep \subseteq ApprovalID
    /\ granted \subseteq ApprovalID

\* Handlers that have had their approval accepted and have yet to unlock.
Unlocking(id) == {p \in Handler : At(p, "unlock") /\ call[p].id = id}

GrantedFor(u, s) == {id \in granted : UserOf(id) = u /\ SessionOf(id) = s}

\* A session is unlocked only if its owner approved a request for that very
\* session: not for another one, nor for the id's previous owner.
UnlockBacked ==
    \A s \in SessionID : sessions[s] # NoSession /\ ~ sessions[s].locked =>
        GrantedFor(sessions[s].user, s) # {}

\* The same of a credential read: whatever happened to the session since the
\* lock check, its secrets were released by a person.
ReadBacked ==
    \A p \in Handler : At(p, "read") => GrantedFor(call[p].user, call[p].session) # {}

\* Two browsers that approve at once: one of them gets 410, so that an approval
\* opens one unlock window and never a second one, later.
SingleUse ==
    \A p, q \in Handler :
        At(p, "unlock") /\ At(q, "unlock") /\ call[p].id = call[q].id => p = q

\* An approver, a denier and the sweeper may race for a request: subscribers are
\* never told two outcomes.
OneVerdict ==
    \A m, n \in published :
        /\ m.event.type = "approval_resolved"
        /\ n.event.type = "approval_resolved"
        /\ m.event.id = n.event.id
        => m = n

\* Whoever sees approval_resolved (approved) sees it of a request that was granted, and
\* whose call of Unlock is over.  What came of that call is not looked at: the session
\* may be gone, or another user's, or locked again by then.
ApprovedFollowsUnlock ==
    \A m \in published :
        m.event.type = "approval_resolved" /\ m.event.status = "approved" =>
            m.event.id \in granted /\ Unlocking(m.event.id) = {}

\* By the time a user is told that a session is unlocked it may be locked again, or
\* somebody else's.  The news is true of an approval of that very user for that
\* session: it was granted, its unlock has been made, and the user was told so first.
UnlockNewsBacked ==
    \A m \in published : m.event.type = "lock_state_changed" =>
        \E id \in GrantedFor(m.user, m.event.session) :
            /\ Unlocking(id) = {}
            /\ [user |-> m.user, event |-> Resolved(id, "approved")] \in published

\* An event stream carries its own user's approvals only, also after the session
\* changed hands.
StreamsArePrivate ==
    \A c \in Client : channels[c] # NoChannel =>
        \A i \in 1 .. Len(channels[c].buffer) :
            LET event == channels[c].buffer[i] IN
            event.type # "lock_state_changed" => UserOf(event.id) = channels[c].user

\* No stream repeats itself: a request is announced once and its outcome once, so
\* a page that counts events counts requests.
NothingToldTwice ==
    \A c \in Client : channels[c] # NoChannel =>
        \A i, j \in 1 .. Len(channels[c].buffer) :
            LET event == channels[c].buffer[i] IN
            event = channels[c].buffer[j] /\ event.type # "lock_state_changed" => i = j

\* What stands for the absence of a session is nobody's user id.
ASSUME NobodyAssumption == NoSession \notin UserID

\* The flow implements the gate.  A ticket is granted from the moment Approve
\* accepts the request and is spent when its handler has called Unlock.
TicketStateOf(id) ==
    IF id \notin Issued THEN "unissued"
    ELSE IF id \in granted THEN (IF Unlocking(id) # {} THEN "granted" ELSE "spent")
    ELSE IF id \in Pending THEN "pending" ELSE "void"

Gate == INSTANCE ApprovalGate WITH
    Gate   <- SessionID,
    Owner  <- UserID,
    Ticket <- ApprovalID,
    Nobody <- NoSession,
    owner  <- [s \in SessionID |->
                IF sessions[s] = NoSession THEN NoSession ELSE sessions[s].user],
    open   <- {s \in SessionID : sessions[s] # NoSession /\ ~ sessions[s].locked},
    state  <- [id \in ApprovalID |-> TicketStateOf(id)],
    for    <- [id \in ApprovalID |->
                IF id \in Issued THEN <<SessionOf(id), UserOf(id)>> ELSE NoSession]

\* Whatever the interleaving, sessions are opened by spending approvals and by
\* nothing else, each approval once and for its own session and owner.
GateSpec == Gate!Spec

\* A session becomes usable, or stays so for longer, by one kind of step only: the
\* unlock of an approve handler for that session and its owner.
WindowOpensByApproval ==
    [][\A s \in SessionID :
        /\ UnlockedNow(s)'
        /\ UnlockedNow(s) => sessions'[s].expires > sessions[s].expires
        => \E p \in Handler :
            /\ At(p, "unlock") /\ call'[p] # call[p]
            /\ UserOf(call[p].id) = sessions'[s].user
            /\ SessionOf(call[p].id) = s]_vars

\* No request waits for ever: someone answers it or it expires, even if nobody
\* ever asks about it again.
EveryRequestSettles ==
    \A id \in ApprovalID : id \in Pending ~> id \notin Pending

Told(id, v) ==
    id \in Issued /\ [user |-> UserOf(id), event |-> Resolved(id, v)] \in published

\* A verdict that was accepted is told to the user's streams, whatever happens to
\* the session and the request meanwhile; so is an expiry the sweeper saw.
VerdictsAnnounced ==
    \A id \in ApprovalID :
        /\ id \in Issued /\ requests[id].status = "approved" ~> Told(id, "approved")
        /\ id \in Issued /\ requests[id].status = "denied"   ~> Told(id, "denied")
        /\ id \in sweep ~> Told(id, "expired")

\* docs/api-spec.md on approval_resolved: "Sent when an approval is approved,
\* denied, or expires."
EveryOutcomeAnnounced ==
    \A id \in ApprovalID :
        id \in Pending ~> \E v \in Status \ {"pending"} : Told(id, v)

\* An approval is for a while: without new approvals every session ends up being
\* refused again (the ids, and so the approvals, of a behaviour are finitely many).
WindowsClose ==
    \A s \in SessionID : <>[](~ UnlockedNow(s))
=============================================================================
