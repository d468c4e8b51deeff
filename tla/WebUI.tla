------------------------------- MODULE WebUI -------------------------------
(***************************************************************************)
(* The page the WCM serves under /ui (wcm/ui-src/src): its sections, its  *)
(* event stream and the promise chains its clicks start, over the         *)
(* sessions and approval requests of one user.                            *)
(*                                                                         *)
(* JavaScript runs one callback at a time, so what happens between two    *)
(* awaits is one step; a chain that awaits an answer is in task[t].  Each  *)
(* HTTP handler of the WCM is one step here: how handlers interleave with *)
(* each other is the subject of ApprovalFlow.  Besides the page, proxies, *)
(* editors and other pages of the user reach the WCM (Others).            *)
(***************************************************************************)
EXTENDS LockManager, ApprovalManager, Sequences, FiniteSets, Functions

CONSTANTS
    Me,             \* the user whose page this is
    Task,           \* promise chains that may be under way at once (a bound)
    BufferSize,     \* events that may be on their way to the page (a bound)
    MaxListeners,   \* click listeners of one kind that are told apart (a bound)
    Undefined,      \* what reading a field an object lacks gives
    UndefinedText   \* the text "undefined"

ASSUME MeAssumption == Me \in UserID

ASSUME BoundsAssumption == BufferSize \in Nat /\ MaxListeners \in Nat

VARIABLES
    connected,      \* state.sseConnected: an EventSource is open
    stream,         \* events published to it that the page has yet to handle
    section,        \* state.section
    main,           \* what the main element shows
    buttons,        \* the enabled buttons in it, as <<action, data attribute>>
    listeners,      \* the click listeners added to it, by what they act on
    shown,          \* state.sessions: what the page knows of each session
    rows,           \* state.pendingApprovals: [key, id of the event stored]
    task,           \* where each promise chain is
    released        \* history: requests that direct unlocks approved

server == <<sessions, requests>>
view   == <<section, main, buttons, listeners, shown, rows>>
vars   == <<server, connected, stream, view, task, released>>

Section == {"credentials", "sessions", "approvals"}
Sight   == {"absent", "locked", "unlocked"}

Idle == [pc |-> "idle"]

\* A promise chain, by what it awaits or is about to do.
Chain ==
    [pc : {"idle", "fetchFailed", "failed", "locked"}]
        \cup [pc : {"fetching"}, what : {"credentials", "sessions"}]
        \cup [pc : {"fetched"}, what : {"credentials"}]
        \cup [pc : {"fetched"}, what : {"sessions"}, seen : [SessionID -> Sight]]
        \cup [pc : {"asking", "locking"}, session : SessionID]
        \cup [pc : {"approving", "approved"}, session : SessionID, id : ApprovalID \cup {Undefined}]
        \cup [pc : {"answering"}, verdict : {"approve", "deny"}, id : ApprovalID \cup {UndefinedText}]
        \cup [pc : {"answered"}, id : ApprovalID \cup {UndefinedText}]

At(t, pc) == task[t].pc = pc

Goto(t, next) == task' = [task EXCEPT ![t] = next]

----------------------------------------------------------------------------
(* The WCM's answers *)

\* The events, with the fields the page looks at.
Requested(id)   == [type |-> "approval_requested", approvalId |-> id]
Resolved(id)    == [type |-> "approval_resolved", approvalId |-> id]
LockChanged(s)  == [type |-> "lock_state_changed", sessionId |-> s, locked |-> FALSE]

Event ==
    {Requested(id) : id \in ApprovalID} \cup {Resolved(id) : id \in ApprovalID}
        \cup {LockChanged(s) : s \in SessionID}

\* Mutation: nothing is dropped.
Publish_NoLimit(events) == stream' = IF connected THEN stream \o events ELSE stream

\* What does not fit is dropped, and all of it while the page is not connected.
Publish(events) ==
    LET all == stream \o events IN
    stream' = IF ~ connected THEN stream
              ELSE IF Len(all) <= BufferSize THEN all ELSE SubSeq(all, 1, BufferSize)

\* POST .../unlock.  approvalId is in the answers 202 and 409 only.
AskUnlock(s, approvalId) ==
    /\ GetSession(Me, s)
    /\ \/ /\ ~ (Owns(Me, s) /\ sessions'[s].locked)
          /\ approvalId = Undefined
          /\ UNCHANGED <<requests, stream>>
       \/ /\ Owns(Me, s) /\ sessions'[s].locked
          /\ \/ /\ FindPending(Me, s)
                /\ approvalId \in {id \in PendingFor(Me, s) : Live(id)}
                /\ UNCHANGED stream
             \/ /\ approvalId \in ApprovalID
                /\ CreatePending(approvalId, Me, s)
                /\ Publish(<<Requested(approvalId)>>)

\* POST .../approve, accepted: the session is unlocked if it is still there.
GrantApproval(id) ==
    LET s == requests[id].session IN
    /\ Resolvable(id)
    /\ Approve(id)
    /\ sessions' = IF Owns(Me, s)
                   THEN [sessions EXCEPT ![s] = Relocked(UnlockedSession(Me))] ELSE sessions
    /\ Publish(<<Resolved(id)>> \o IF Owns(Me, s) THEN <<LockChanged(s)>> ELSE <<>>)

DenyApproval(id) ==
    /\ Resolvable(id)
    /\ Deny(id)
    /\ UNCHANGED sessions
    /\ Publish(<<Resolved(id)>>)

\* POST .../approve and .../deny, answered with 410, or 404 for any other text.
RefuseVerdict(id) ==
    /\ IF id \in Issued THEN ~ Resolvable(id) /\ Approve(id) ELSE UNCHANGED requests
    /\ UNCHANGED <<sessions, stream>>

Answer(id, verdict) ==
    IF ~ Resolvable(id) THEN RefuseVerdict(id)
    ELSE IF verdict = "approve" THEN GrantApproval(id) ELSE DenyApproval(id)

\* The sweeper, which tells what it expired in any order.
Sweep ==
    /\ ExpireOld
    /\ \E order \in {f \in [1 .. Cardinality(Stale) -> Stale] : IsInjective(f)} :
            Publish([i \in DOMAIN order |-> Resolved(order[i])])
    /\ UNCHANGED sessions

\* Everyone else, the sweeper and the clock.
Others ==
    /\ \/ \E s \in SessionID :
            \/ /\ Register(Me, s) \/ Unregister(Me, s) \/ GetSession(Me, s) \/ Lock(Me, s)
               /\ UNCHANGED <<requests, stream>>
            \/ \E id \in ApprovalID \cup {Undefined} : AskUnlock(s, id)
       \/ \E id \in ApprovalID, verdict \in {"approve", "deny"} : Answer(id, verdict)
       \/ \E id \in ApprovalID : Get(id) /\ UNCHANGED <<sessions, stream>>
       \/ Sweep
       \/ AgeSessions /\ AgeRequests /\ UNCHANGED stream
    /\ UNCHANGED <<connected, view, task, released>>

----------------------------------------------------------------------------
(* What the page shows *)

\* Template strings turn a missing id into text.
DataAttribute(key) == IF key = Undefined THEN UndefinedText ELSE key

\* renderCredentials, renderSessions and renderApprovals, after their state changed.
\* The main element survives, and with it every listener added before.
Render(what) ==
    /\ main' = what
    /\ listeners' = [x \in DOMAIN listeners |->
                    IF x = what /\ listeners[x] < MaxListeners THEN listeners[x] + 1 ELSE listeners[x]]
    /\ buttons' =
        CASE what = "credentials" -> {}
          [] what = "sessions" ->
                {<<"unlock", s>> : s \in {x \in SessionID : shown'[x] = "locked"}}
                    \cup {<<"lock", s>> : s \in {x \in SessionID : shown'[x] = "unlocked"}}
          [] what = "approvals" ->
                {"approve", "deny"} \X {DataAttribute(row.key) : row \in rows'}

\* setMain with a message instead of a section.
ShowMessage(message) == main' = message /\ buttons' = {} /\ UNCHANGED listeners

RenderIfCurrent(what) ==
    IF section = what THEN Render(what) ELSE UNCHANGED <<main, buttons, listeners>>

Loading(what) == [pc |-> "fetching", what |-> what]

\* navigate.  Loading starts a chain; the approvals are at hand.
Navigate(next) ==
    /\ section' = next
    /\ \/ /\ next = "approvals"
          /\ UNCHANGED <<shown, rows, task>>
          /\ Render(next)
       \/ /\ next \in {"credentials", "sessions"}
          /\ ShowMessage("loading")
          /\ \E t \in Task : At(t, "idle") /\ Goto(t, Loading(next))
          /\ UNCHANGED <<shown, rows>>
    /\ UNCHANGED <<server, connected, stream, released>>

\* GET .../credentials or .../sessions is answered, or fails.
FetchList(t) ==
    /\ At(t, "fetching")
    /\ \/ /\ task[t].what = "credentials"
          /\ UNCHANGED sessions
          /\ Goto(t, [pc |-> "fetched", what |-> "credentials"])
       \/ /\ task[t].what = "sessions"
          /\ List(Me)
          /\ Goto(t, [pc |-> "fetched", what |-> "sessions",
                      seen |-> [s \in SessionID |->
                                    IF ~ Owns(Me, s) THEN "absent"
                                    ELSE IF sessions'[s].locked THEN "locked" ELSE "unlocked"]])
       \/ UNCHANGED sessions /\ Goto(t, [pc |-> "fetchFailed"])
    /\ UNCHANGED <<requests, connected, stream, view, released>>

\* Mutation: a load that fails is not caught.
ShowList_NoCatch(t) ==
    /\ \/ /\ At(t, "fetched")
          /\ shown' = IF task[t].what = "sessions" THEN task[t].seen ELSE shown
          /\ UNCHANGED rows
          /\ Render(task[t].what)
       \/ At(t, "fetchFailed") /\ UNCHANGED <<main, buttons, listeners, shown, rows>>
    /\ Goto(t, Idle)
    /\ UNCHANGED <<server, connected, stream, section, released>>

\* loadCredentials and loadSessions after the await, whatever section is open now.
ShowList(t) ==
    /\ \/ /\ At(t, "fetched")
          /\ shown' = IF task[t].what = "sessions" THEN task[t].seen ELSE shown
          /\ UNCHANGED rows
          /\ Render(task[t].what)
       \/ /\ At(t, "fetchFailed")
          /\ ShowMessage("error")
          /\ UNCHANGED <<shown, rows>>
    /\ Goto(t, Idle)
    /\ UNCHANGED <<server, connected, stream, section, released>>

----------------------------------------------------------------------------
(* Clicks.  Every listener of the section runs, and starts a chain. *)

Start(what, chain) ==
    \E chains \in SUBSET {t \in Task : At(t, "idle")} :
        /\ Cardinality(chains) = listeners[what]
        /\ task' = [t \in Task |-> IF t \in chains THEN chain ELSE task[t]]

Click(action, data) ==
    /\ <<action, data>> \in buttons
    /\ buttons' = buttons \ {<<action, data>>}
    /\ \/ /\ action = "unlock"
          /\ Start("sessions", [pc |-> "asking", session |-> data])
       \/ /\ action = "lock"
          /\ Start("sessions", [pc |-> "locking", session |-> data])
       \/ /\ action \in {"approve", "deny"}
          /\ Start("approvals", [pc |-> "answering", verdict |-> action, id |-> data])
    /\ UNCHANGED <<server, connected, stream, section, main, listeners, shown, rows, released>>

\* directUnlock, the first call: its answer is used whatever its status is, and an
\* answer that gets lost ends the chain with the alert.
PostUnlock(t) ==
    /\ At(t, "asking")
    /\ \/ \E id \in ApprovalID \cup {Undefined} :
            /\ AskUnlock(task[t].session, id)
            /\ \/ Goto(t, [pc |-> "approving", session |-> task[t].session, id |-> id])
               \/ Goto(t, [pc |-> "failed"])
       \/ UNCHANGED <<server, stream>> /\ Goto(t, [pc |-> "failed"])
    /\ UNCHANGED <<connected, view, released>>

\* Mutation: like unlock, approve does not look at the status of the answer.
PostApprove_AnyStatus(t) ==
    /\ At(t, "approving")
    /\ LET id == task[t].id IN
       \/ GrantApproval(id) /\ released' = released \cup {id}
       \/ RefuseVerdict(id) /\ UNCHANGED released
    /\ Goto(t, [task[t] EXCEPT !.pc = "approved"])
    /\ UNCHANGED <<connected, view>>

\* directUnlock, the second call.
PostApprove(t) ==
    /\ At(t, "approving")
    /\ LET id == task[t].id IN
       \/ /\ GrantApproval(id)
          /\ released' = released \cup {id}
          /\ Goto(t, [task[t] EXCEPT !.pc = "approved"]) \/ Goto(t, [pc |-> "failed"])
       \/ RefuseVerdict(id) /\ Goto(t, [pc |-> "failed"]) /\ UNCHANGED released
       \/ UNCHANGED <<server, stream, released>> /\ Goto(t, [pc |-> "failed"])
    /\ UNCHANGED <<connected, view>>

\* The Lock button: an error is swallowed.
PostLock(t) ==
    /\ At(t, "locking")
    /\ Lock(Me, task[t].session) \/ UNCHANGED sessions
    /\ Goto(t, [pc |-> "locked"])
    /\ UNCHANGED <<requests, connected, stream, view, released>>

\* The alert, if it failed, and then loadSessions, whatever section is open now.
Reload(t) ==
    /\ At(t, "approved") \/ At(t, "failed") \/ At(t, "locked")
    /\ ShowMessage("loading")
    /\ Goto(t, Loading("sessions"))
    /\ UNCHANGED <<server, connected, stream, section, shown, rows, released>>

\* Approve and Deny of a row: an error is swallowed.
PostVerdict(t) ==
    /\ At(t, "answering")
    /\ Answer(task[t].id, task[t].verdict) \/ UNCHANGED <<server, stream>>
    /\ Goto(t, [pc |-> "answered", id |-> task[t].id])
    /\ UNCHANGED <<connected, view, released>>

DropRow(t) ==
    /\ At(t, "answered")
    /\ rows' = {row \in rows : row.key # task[t].id}
    /\ UNCHANGED shown
    /\ Render("approvals")
    /\ Goto(t, Idle)
    /\ UNCHANGED <<server, connected, stream, section, released>>

----------------------------------------------------------------------------
(* The event stream *)

Connect ==
    /\ ~ connected
    /\ connected' = TRUE
    /\ UNCHANGED <<server, stream, view, task, released>>

\* What was on its way is lost; the server does not replay it to lastEventId.
Disconnect ==
    /\ connected
    /\ connected' = FALSE
    /\ stream' = <<>>
    /\ UNCHANGED <<server, view, task, released>>

\* The key approval_requested is stored under: its field id.
RowKey(event) == IF "id" \in DOMAIN event THEN event.id ELSE Undefined

HandleEvent ==
    /\ stream # <<>>
    /\ LET event == Head(stream) IN
       \/ /\ event.type = "approval_requested"
          /\ rows' = {row \in rows : row.key # RowKey(event)}
                        \cup {[key |-> RowKey(event), id |-> event.approvalId]}
          /\ UNCHANGED shown
          /\ RenderIfCurrent("approvals")
       \/ /\ event.type = "approval_resolved"
          /\ rows' = {row \in rows : row.key # event.approvalId}
          /\ UNCHANGED shown
          /\ RenderIfCurrent("approvals")
       \/ /\ event.type = "lock_state_changed"
          /\ UNCHANGED rows
          /\ IF shown[event.sessionId] = "absent"
             THEN UNCHANGED <<shown, main, buttons, listeners>>
             ELSE /\ shown' = [shown EXCEPT ![event.sessionId] =
                                    IF event.locked THEN "locked" ELSE "unlocked"]
                  /\ RenderIfCurrent("sessions")
    /\ stream' = Tail(stream)
    /\ UNCHANGED <<server, connected, section, task, released>>

----------------------------------------------------------------------------
\* startApp: the credentials are being loaded and the stream is not open yet.
Init ==
    /\ LockInit
    /\ ApprovalInit
    /\ connected = FALSE
    /\ stream = <<>>
    /\ section = "credentials"
    /\ main = "loading"
    /\ buttons = {}
    /\ listeners = [what \in {"sessions", "approvals"} |-> 0]
    /\ shown = [s \in SessionID |-> "absent"]
    /\ rows = {}
    /\ \E t \in Task : task = [x \in Task |-> IF x = t THEN Loading("credentials") ELSE Idle]
    /\ released = {}

Step(t) ==
    \/ FetchList(t) \/ ShowList(t)
    \/ PostUnlock(t) \/ PostApprove(t) \/ PostLock(t) \/ Reload(t)
    \/ PostVerdict(t) \/ DropRow(t)

Next ==
    \/ Others
    \/ \E t \in Task : Step(t)
    \/ \E next \in Section : Navigate(next)
    \/ \E button \in buttons : Click(button[1], button[2])
    \/ HandleEvent
    \/ Connect
    \/ Disconnect

Spec == Init /\ [][Next]_vars

----------------------------------------------------------------------------
(* Properties *)

\* Every variable holds a value the code's types allow.
UITypeOK ==
    /\ LockTypeOK
    /\ ApprovalTypeOK
    /\ connected \in BOOLEAN
    /\ stream \in Seq(Event)
    /\ Len(stream) <= BufferSize
    /\ section \in Section
    /\ main \in Section \cup {"loading", "error"}
    /\ buttons \subseteq ({"unlock", "lock"} \X SessionID)
                            \cup ({"approve", "deny"} \X (ApprovalID \cup {UndefinedText}))
    /\ listeners \in [{"sessions", "approvals"} -> 0 .. MaxListeners]
    /\ shown \in [SessionID -> Sight]
    /\ rows \subseteq [key : ApprovalID \cup {Undefined}, id : ApprovalID]
    /\ task \in [Task -> Chain]
    /\ released \subseteq ApprovalID

\* A direct unlock that ends without the alert has had its request approved, though
\* the answer to its first call is not checked; and of two chains that approve one
\* request (two listeners, two clicks) one alone ends that way.
SilenceMeansGranted ==
    \A t, u \in Task : At(t, "approved") =>
        /\ task[t].id \in released
        /\ At(u, "approved") /\ task[u].id = task[t].id => u = t

\* Whatever fails, and however chains overlap, "Loading" does not stay: the chain
\* that will replace it is under way.
LoadingIsPursued ==
    main = "loading" =>
        \E t \in Task : At(t, "fetching") \/ At(t, "fetched") \/ At(t, "fetchFailed")

\* docs/ui-spec.md on approval_resolved: "Remove row from Approvals panel, decrement
\* badge".  Once the page has handled a request's outcome it has no row of it.
RowsGoAway ==
    [][\A id \in ApprovalID :
        /\ connected' /\ stream # <<>> /\ Head(stream) = Resolved(id)
        /\ stream' = Tail(stream)
        => \A row \in rows' : row.id # id]_vars
=============================================================================
