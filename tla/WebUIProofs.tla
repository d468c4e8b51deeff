---------------------------- MODULE WebUIProofs ----------------------------
(***************************************************************************)
(* Safety of the page, for any sessions, requests, promise chains, event  *)
(* buffer and number of listeners.                                         *)
(*                                                                         *)
(* The invariant joins the managers' own invariants with the page's types *)
(* and with what a direct unlock leaves behind: a request it approved is  *)
(* on record and never pending again, so that no second chain can be told *)
(* that its approval of the same request was the one that counted.        *)
(***************************************************************************)
EXTENDS WebUI, ManagerProofs, FiniteSetTheorems, SequenceTheorems

StreamOK == stream \in Seq(Event) /\ Len(stream) <= BufferSize

ReleasedSettled == \A id \in released : id \in Issued /\ id \notin Pending

ServerInv ==
    /\ LockInv
    /\ ApprovalInv
    /\ IsFiniteSet(Issued)
    /\ StreamOK

PageInv ==
    /\ ServerInv
    /\ UITypeOK
    /\ ReleasedSettled
    /\ SilenceMeansGranted
    /\ LoadingIsPursued

----------------------------------------------------------------------------
(* The WCM's answers *)

\* One step of the server, as the page's proofs need it.
ServerStep ==
    /\ LockInv'
    /\ [ApprovalNext]_requests
    /\ StreamOK'

LEMMA EventsBuilt ==
    /\ \A id \in ApprovalID : Requested(id) \in Event /\ Resolved(id) \in Event
    /\ \A s \in SessionID : LockChanged(s) \in Event
BY DEF Event

\* Whatever is published, the buffer stays within its bound.
LEMMA PublishOK ==
    ASSUME StreamOK, NEW events \in Seq(Event), Publish(events)
    PROVE  StreamOK'
<1> DEFINE all == stream \o events
<1>1. CASE ~ connected
    BY <1>1 DEF Publish, StreamOK
<1>2. CASE connected /\ Len(all) <= BufferSize
    <2>1. all \in Seq(Event)
        BY DEF StreamOK
    <2> QED BY <1>2, <2>1 DEF Publish, StreamOK
<1>3. CASE connected /\ ~ (Len(all) <= BufferSize)
    <2>1. all \in Seq(Event) /\ Len(all) \in Nat
        BY DEF StreamOK
    <2> HIDE DEF all
    <2>2. BufferSize \in 0 .. Len(all)
        BY <1>3, <2>1, BoundsAssumption
    <2>3. /\ SubSeq(all, 1, BufferSize) \in Seq(Event)
          /\ Len(SubSeq(all, 1, BufferSize)) <= BufferSize
        BY <2>1, <2>2, BoundsAssumption, SubSeqProperties
    <2>4. stream' = SubSeq(all, 1, BufferSize)
        BY <1>3 DEF Publish, all
    <2> QED BY <2>3, <2>4 DEF StreamOK
<1> QED BY <1>1, <1>2, <1>3

\* A step of the lock manager alone.
LEMMA LockStepOK ==
    ASSUME ServerInv, [LockNext]_sessions, UNCHANGED <<requests, stream>>
    PROVE  ServerStep
BY LockNextPreserves DEF ServerInv, ServerStep, StreamOK

\* A look at the session comes first, and then a request is found or stored.
LEMMA AskUnlockOK ==
    ASSUME ServerInv, NEW s \in SessionID, NEW id, AskUnlock(s, id)
    PROVE  ServerStep
<1>1. [LockNext]_sessions
    BY MeAssumption DEF AskUnlock, LockNext
<1>2. LockInv'
    BY <1>1, LockNextPreserves DEF ServerInv
<1>3. [ApprovalNext]_requests
    BY MeAssumption DEF AskUnlock, ApprovalNext
<1>4. StreamOK'
    <2>1. CASE UNCHANGED stream
        BY <2>1 DEF ServerInv, StreamOK
    <2>2. CASE id \in ApprovalID /\ Publish(<<Requested(id)>>)
        <3>1. <<Requested(id)>> \in Seq(Event)
            BY <2>2, EventsBuilt
        <3> QED BY <2>2, <3>1, PublishOK DEF ServerInv
    <2> QED BY <2>1, <2>2 DEF AskUnlock
<1> QED BY <1>2, <1>3, <1>4 DEF ServerStep

\* An unlock followed by the look that fetches the session again.
LEMMA UnlockAndLookOK ==
    ASSUME LockInv, NEW s \in SessionID,
           sessions' = [sessions EXCEPT ![s] = Relocked(UnlockedSession(Me))]
    PROVE  LockInv'
<1> DEFINE new == Relocked(UnlockedSession(Me))
<1>1. new \in Session /\ BoundedSession(new)
    BY MeAssumption, UnlockedSessionOK, RelockedOK
<1>2. sessions' = [sessions EXCEPT ![s] = new]
    OBVIOUS
<1> HIDE DEF new
<1>3. LockTypeOK'
    BY <1>1, <1>2 DEF LockInv, LockTypeOK
<1>4. \A x \in SessionID : sessions'[x] # NoSession => BoundedSession(sessions'[x])
    BY <1>1, <1>2, LockInvPointwise DEF LockTypeOK, LockInv
<1> QED BY <1>3, <1>4 DEF LockInv, WindowBounded, BoundedSession

LEMMA ResolvableOnRecord ==
    ASSUME ApprovalTypeOK, NEW id, Resolvable(id)
    PROVE  /\ id \in ApprovalID
           /\ id \in Pending
           /\ requests[id].session \in SessionID
BY DEF ApprovalTypeOK, Resolvable, Pending, Issued, ApprovalRequest

LEMMA GrantApprovalOK ==
    ASSUME ServerInv, NEW id, GrantApproval(id)
    PROVE  ServerStep
<1> DEFINE s == requests[id].session
<1>1. id \in ApprovalID /\ s \in SessionID
    BY ResolvableOnRecord DEF GrantApproval, ServerInv, ApprovalInv
<1>2. LockInv'
    <2>1. CASE Owns(Me, s)
        BY <1>1, <2>1, UnlockAndLookOK DEF GrantApproval, ServerInv
    <2>2. CASE ~ Owns(Me, s)
        BY <2>2, LockNextPreserves DEF GrantApproval, ServerInv
    <2> QED BY <2>1, <2>2
<1>3. [ApprovalNext]_requests
    BY <1>1 DEF GrantApproval, ApprovalNext
<1>4. StreamOK'
    <2> DEFINE events == <<Resolved(id)>> \o IF Owns(Me, s) THEN <<LockChanged(s)>> ELSE <<>>
    <2>1. /\ <<Resolved(id)>> \in Seq(Event)
          /\ (IF Owns(Me, s) THEN <<LockChanged(s)>> ELSE <<>>) \in Seq(Event)
        BY <1>1, EventsBuilt
    <2>2. events \in Seq(Event)
        BY <2>1, ConcatProperties
    <2>3. Publish(events)
        BY DEF GrantApproval
    <2> QED BY <2>2, <2>3, PublishOK DEF ServerInv
<1> QED BY <1>2, <1>3, <1>4 DEF ServerStep

LEMMA DenyApprovalOK ==
    ASSUME ServerInv, NEW id, DenyApproval(id)
    PROVE  ServerStep
<1>1. id \in ApprovalID
    BY ResolvableOnRecord DEF DenyApproval, ServerInv, ApprovalInv
<1>2. <<Resolved(id)>> \in Seq(Event)
    BY <1>1, EventsBuilt
<1>3. StreamOK'
    BY <1>2, PublishOK DEF DenyApproval, ServerInv
<1>4. LockInv'
    BY LockNextPreserves DEF DenyApproval, ServerInv
<1> QED BY <1>1, <1>3, <1>4 DEF DenyApproval, ApprovalNext, ServerStep

LEMMA RefuseVerdictOK ==
    ASSUME ServerInv, NEW id, RefuseVerdict(id)
    PROVE  ServerStep
<1>1. LockInv' /\ StreamOK'
    BY LockNextPreserves DEF RefuseVerdict, ServerInv, StreamOK
<1>2. [ApprovalNext]_requests
    BY DEF RefuseVerdict, Issued, ApprovalNext
<1> QED BY <1>1, <1>2 DEF ServerStep

LEMMA AnswerOK ==
    ASSUME ServerInv, NEW id, NEW verdict, Answer(id, verdict)
    PROVE  ServerStep
BY GrantApprovalOK, DenyApprovalOK, RefuseVerdictOK DEF Answer

\* The sweeper has an event for each request it marked; there are finitely many.
LEMMA SweepOK ==
    ASSUME ServerInv, Sweep
    PROVE  ServerStep
<1>1. IsFiniteSet(Stale) /\ Stale \subseteq ApprovalID
    BY FS_Subset DEF ServerInv, Stale, Pending, Issued
<1>2. Cardinality(Stale) \in Nat
    BY <1>1, FS_CardinalityType
<1>3. PICK order \in [1 .. Cardinality(Stale) -> Stale] :
            Publish([i \in DOMAIN order |-> Resolved(order[i])])
    BY DEF Sweep
<1>4. [i \in DOMAIN order |-> Resolved(order[i])] \in Seq(Event)
    <2>1. \A i \in 1 .. Cardinality(Stale) : Resolved(order[i]) \in Event
        BY <1>1, EventsBuilt
    <2>2. [i \in 1 .. Cardinality(Stale) |-> Resolved(order[i])] \in Seq(Event)
        BY <1>2, <2>1
    <2> QED BY <2>2
<1>5. StreamOK'
    BY <1>3, <1>4, PublishOK DEF ServerInv
<1>6. LockInv'
    BY LockNextPreserves DEF Sweep, ServerInv
<1> QED BY <1>5, <1>6 DEF Sweep, ApprovalNext, ServerStep

\* A step of the server keeps what is inductive about it; one request at most is
\* put on record.
LEMMA ServerPreserved ==
    ASSUME ServerInv, ServerStep
    PROVE  ServerInv' /\ KeepsRecord
<1>1. ApprovalInv' /\ KeepsRecord
    BY ApprovalNextPreserves DEF ServerInv, ServerStep
<1>2. ASSUME NEW id, Issued' \subseteq Issued \cup {id}
      PROVE  IsFiniteSet(Issued')
    <2>1. IsFiniteSet(Issued \cup {id})
        BY FS_AddElement DEF ServerInv
    <2> QED BY <1>2, <2>1, FS_Subset
<1>3. ASSUME NEW id \in ApprovalID, NEW u \in UserID, NEW s \in SessionID, CreatePending(id, u, s)
      PROVE  Issued' \subseteq Issued \cup {id}
    BY <1>3 DEF CreatePending, MarkExpired, PendingFor, Pending, Issued,
        ServerInv, ApprovalInv, ApprovalTypeOK
<1>4. ASSUME ~ \E id \in ApprovalID, u \in UserID, s \in SessionID : CreatePending(id, u, s)
      PROVE  IsFiniteSet(Issued')
    <2>1. \A id \in ApprovalID : requests[id] = NoRequest => requests'[id] = NoRequest
        BY <1>4 DEF ServerStep, ApprovalNext, FindPending, Approve, Deny, Resolve, Get, ExpireOld,
            AgeRequests, MarkExpired, Stale, PendingFor, Pending, Issued,
            ServerInv, ApprovalInv, ApprovalTypeOK
    <2>2. Issued' \subseteq Issued
        BY <2>1 DEF Issued
    <2> QED BY <2>2, FS_Subset DEF ServerInv
<1>5. IsFiniteSet(Issued')
    BY <1>2, <1>3, <1>4
<1> QED BY <1>1, <1>5 DEF ServerInv, ServerStep

----------------------------------------------------------------------------
(* Promise chains *)

\* What a chain carries, by where it is.
LEMMA ChainFields ==
    ASSUME NEW c \in Chain
    PROVE  /\ c.pc \in {"asking", "locking", "approving", "approved"} => c.session \in SessionID
           /\ c.pc \in {"approving", "approved"} => c.id \in ApprovalID \cup {Undefined}
           /\ c.pc \in {"answering", "answered"} => c.id \in ApprovalID \cup {UndefinedText}
           /\ c.pc \in {"fetching", "fetched"} => c.what \in {"credentials", "sessions"}
           /\ c.pc = "fetched" /\ c.what = "sessions" => c.seen \in [SessionID -> Sight]
BY DEF Chain

\* What the steps build is a chain.
LEMMA ChainsBuilt ==
    /\ \A pc \in {"idle", "fetchFailed", "failed", "locked"} : [pc |-> pc] \in Chain
    /\ \A what \in {"credentials", "sessions"} : Loading(what) \in Chain
    /\ [pc |-> "fetched", what |-> "credentials"] \in Chain
    /\ \A seen \in [SessionID -> Sight] :
            [pc |-> "fetched", what |-> "sessions", seen |-> seen] \in Chain
    /\ \A pc \in {"asking", "locking"}, s \in SessionID : [pc |-> pc, session |-> s] \in Chain
    /\ \A s \in SessionID, id \in ApprovalID \cup {Undefined} :
            [pc |-> "approving", session |-> s, id |-> id] \in Chain
    /\ \A verdict \in {"approve", "deny"}, id \in ApprovalID \cup {UndefinedText} :
            [pc |-> "answering", verdict |-> verdict, id |-> id] \in Chain
    /\ \A id \in ApprovalID \cup {UndefinedText} : [pc |-> "answered", id |-> id] \in Chain
BY DEF Chain, Loading

\* The second call of a direct unlock goes well.
LEMMA ChainApproved ==
    ASSUME NEW c \in Chain, c.pc = "approving"
    PROVE  /\ [c EXCEPT !.pc = "approved"] \in Chain
           /\ [c EXCEPT !.pc = "approved"].pc = "approved"
           /\ [c EXCEPT !.pc = "approved"].id = c.id
<1>1. c \in [pc : {"approving", "approved"}, session : SessionID, id : ApprovalID \cup {Undefined}]
    BY DEF Chain
<1> QED BY <1>1 DEF Chain

Chains == task \in [Task -> Chain]

LEMMA GotoOK ==
    ASSUME Chains, NEW t \in Task, NEW next \in Chain, Goto(t, next)
    PROVE  Chains'
BY DEF Chains, Goto

\* The listeners of a click start nothing but what the click is for.
LEMMA StartOK ==
    ASSUME Chains, NEW what, NEW chain \in Chain, Start(what, chain)
    PROVE  Chains' /\ \A t \in Task : ~ At(t, "idle") => task'[t] = task[t]
BY DEF Chains, Start, At

\* Every chain is where it was, or at a place its code goes to.
LEMMA ChainsPreserved ==
    ASSUME PageInv, [Next]_vars
    PROVE  Chains'
<1>1. Chains
    BY DEF PageInv, UITypeOK, Chains
<1>2. ASSUME NEW t \in Task, Step(t)
      PROVE  Chains'
    <2>1. task[t] \in Chain
        BY <1>1 DEF Chains
    <2>2. CASE FetchList(t)
        <3>1. [s \in SessionID |-> IF ~ Owns(Me, s) THEN "absent"
                                   ELSE IF sessions'[s].locked THEN "locked" ELSE "unlocked"]
                \in [SessionID -> Sight]
            BY DEF Sight
        <3> QED BY <1>1, <2>2, <3>1, ChainsBuilt, GotoOK DEF FetchList
    <2>3. CASE ShowList(t) \/ DropRow(t)
        BY <1>1, <2>3, ChainsBuilt, GotoOK DEF ShowList, DropRow, Idle
    <2>4. CASE PostUnlock(t)
        <3>1. task[t].session \in SessionID
            BY <2>1, <2>4, ChainFields DEF PostUnlock, At
        <3> QED BY <1>1, <2>4, <3>1, ChainsBuilt, GotoOK DEF PostUnlock
    <2>5. CASE PostApprove(t)
        <3>1. [task[t] EXCEPT !.pc = "approved"] \in Chain
            BY <2>1, <2>5, ChainApproved DEF PostApprove, At
        <3> QED BY <1>1, <2>5, <3>1, ChainsBuilt, GotoOK DEF PostApprove
    <2>6. CASE PostLock(t) \/ Reload(t)
        BY <1>1, <2>6, ChainsBuilt, GotoOK DEF PostLock, Reload
    <2>7. CASE PostVerdict(t)
        <3>1. task[t].id \in ApprovalID \cup {UndefinedText}
            BY <2>1, <2>7, ChainFields DEF PostVerdict, At
        <3> QED BY <1>1, <2>7, <3>1, ChainsBuilt, GotoOK DEF PostVerdict
    <2> QED BY <1>2, <2>2, <2>3, <2>4, <2>5, <2>6, <2>7 DEF Step
<1>3. ASSUME NEW next \in Section, Navigate(next)
      PROVE  Chains'
    BY <1>1, <1>3, ChainsBuilt, GotoOK DEF Navigate, Chains
<1>4. ASSUME NEW button \in buttons, Click(button[1], button[2])
      PROVE  Chains'
    <2>1. \/ button[1] \in {"unlock", "lock"} /\ button[2] \in SessionID
          \/ button[1] \in {"approve", "deny"} /\ button[2] \in ApprovalID \cup {UndefinedText}
        BY DEF PageInv, UITypeOK
    <2> QED BY <1>1, <1>4, <2>1, ChainsBuilt, StartOK DEF Click
<1>5. CASE Others \/ HandleEvent \/ Connect \/ Disconnect \/ UNCHANGED vars
    BY <1>1, <1>5 DEF Others, HandleEvent, Connect, Disconnect, vars, Chains
<1> QED BY <1>2, <1>3, <1>4, <1>5 DEF Next

----------------------------------------------------------------------------
(* The server, as the page and everyone else reach it *)

LEMMA ServerSteps ==
    ASSUME PageInv, [Next]_vars
    PROVE  ServerStep
<1>1. ServerInv /\ Chains
    BY DEF PageInv, UITypeOK, Chains
<1>2. UNCHANGED <<server, stream>> => ServerStep
    BY <1>1, LockStepOK DEF server
<1>3. CASE Others
    <2>1. ASSUME NEW s \in SessionID,
                 Register(Me, s) \/ Unregister(Me, s) \/ GetSession(Me, s) \/ Lock(Me, s),
                 UNCHANGED <<requests, stream>>
          PROVE  ServerStep
        BY <1>1, <2>1, MeAssumption, LockStepOK DEF LockNext
    <2>2. ASSUME NEW id \in ApprovalID, Get(id), UNCHANGED <<sessions, stream>>
          PROVE  ServerStep
        BY <1>1, <2>2, LockNextPreserves DEF ServerInv, StreamOK, ServerStep, ApprovalNext
    <2>3. CASE AgeSessions /\ AgeRequests /\ UNCHANGED stream
        <3>1. LockInv'
            BY <1>1, <2>3, LockNextPreserves DEF ServerInv, LockNext
        <3> QED BY <1>1, <2>3, <3>1 DEF ServerInv, StreamOK, ServerStep, ApprovalNext
    <2> QED BY <1>1, <1>3, <2>1, <2>2, <2>3, AskUnlockOK, AnswerOK, SweepOK DEF Others
<1>4. ASSUME NEW t \in Task, Step(t)
      PROVE  ServerStep
    <2>1. task[t] \in Chain
        BY <1>1 DEF Chains
    <2>2. CASE FetchList(t)
        BY <1>1, <2>2, MeAssumption, LockStepOK DEF FetchList, LockNext
    <2>3. CASE ShowList(t) \/ Reload(t) \/ DropRow(t)
        BY <1>2, <2>3 DEF ShowList, Reload, DropRow
    <2>4. CASE PostUnlock(t)
        <3>1. task[t].session \in SessionID
            BY <2>1, <2>4, ChainFields DEF PostUnlock, At
        <3> QED BY <1>1, <1>2, <2>4, <3>1, AskUnlockOK DEF PostUnlock
    <2>5. CASE PostApprove(t)
        BY <1>1, <1>2, <2>5, GrantApprovalOK, RefuseVerdictOK DEF PostApprove
    <2>6. CASE PostLock(t)
        <3>1. task[t].session \in SessionID
            BY <2>1, <2>6, ChainFields DEF PostLock, At
        <3> QED BY <1>1, <2>6, <3>1, MeAssumption, LockStepOK DEF PostLock, LockNext
    <2>7. CASE PostVerdict(t)
        BY <1>1, <1>2, <2>7, AnswerOK DEF PostVerdict
    <2> QED BY <1>4, <2>2, <2>3, <2>4, <2>5, <2>6, <2>7 DEF Step
<1>5. CASE HandleEvent
    <2>1. /\ Tail(stream) \in Seq(Event)
          /\ Len(Tail(stream)) = Len(stream) - 1
          /\ Len(stream) \in Nat
        BY <1>1, <1>5 DEF ServerInv, StreamOK, HandleEvent
    <2>2. StreamOK'
        BY <1>1, <1>5, <2>1, BoundsAssumption DEF ServerInv, StreamOK, HandleEvent
    <2> QED BY <1>1, <1>5, <2>2, LockNextPreserves DEF ServerInv, ServerStep, HandleEvent, server
<1>6. CASE Disconnect
    <2>1. StreamOK'
        BY <1>6, BoundsAssumption DEF Disconnect, StreamOK
    <2> QED BY <1>1, <1>6, <2>1, LockNextPreserves DEF ServerInv, ServerStep, Disconnect, server
<1>7. CASE \/ \E next \in Section : Navigate(next)
           \/ \E button \in buttons : Click(button[1], button[2])
           \/ Connect
           \/ UNCHANGED vars
    BY <1>2, <1>7 DEF Navigate, Click, Connect, vars
<1> QED BY <1>3, <1>4, <1>5, <1>6, <1>7 DEF Next

----------------------------------------------------------------------------
(* What the page shows *)

ViewOK ==
    /\ section \in Section
    /\ main \in Section \cup {"loading", "error"}
    /\ buttons \subseteq ({"unlock", "lock"} \X SessionID)
                            \cup ({"approve", "deny"} \X (ApprovalID \cup {UndefinedText}))
    /\ listeners \in [{"sessions", "approvals"} -> 0 .. MaxListeners]
    /\ shown \in [SessionID -> Sight]
    /\ rows \subseteq [key : ApprovalID \cup {Undefined}, id : ApprovalID]

\* A section that is rendered is what the main element shows, with a button for
\* each session or verdict.
LEMMA RenderOK ==
    ASSUME ViewOK, section' \in Section, shown' \in [SessionID -> Sight],
           rows' \subseteq [key : ApprovalID \cup {Undefined}, id : ApprovalID],
           NEW what \in Section, Render(what)
    PROVE  ViewOK' /\ main' # "loading"
<1>1. main' = what
    BY DEF Render
<1>2. listeners' \in [{"sessions", "approvals"} -> 0 .. MaxListeners]
    BY BoundsAssumption DEF Render, ViewOK
<1>3. buttons' \subseteq ({"unlock", "lock"} \X SessionID)
                            \cup ({"approve", "deny"} \X (ApprovalID \cup {UndefinedText}))
    <2>1. CASE what = "credentials"
        BY <2>1 DEF Render
    <2>2. CASE what = "sessions"
        BY <2>2 DEF Render
    <2>3. CASE what = "approvals"
        <3>1. \A row \in rows' : DataAttribute(row.key) \in ApprovalID \cup {UndefinedText}
            BY DEF DataAttribute
        <3>2. buttons' = {"approve", "deny"} \X {DataAttribute(row.key) : row \in rows'}
            BY <2>3 DEF Render
        <3> QED BY <3>1, <3>2
    <2> QED BY <2>1, <2>2, <2>3 DEF Section
<1> QED BY <1>1, <1>2, <1>3 DEF ViewOK, Section

\* A message has no buttons.
LEMMA MessageOK ==
    ASSUME ViewOK, section' \in Section, UNCHANGED <<shown, rows>>,
           NEW message \in {"loading", "error"}, ShowMessage(message)
    PROVE  ViewOK'
BY DEF ViewOK, ShowMessage

\* What is done to the state of a section before it may be rendered.
LEMMA RenderIfCurrentOK ==
    ASSUME ViewOK, UNCHANGED section, shown' \in [SessionID -> Sight],
           rows' \subseteq [key : ApprovalID \cup {Undefined}, id : ApprovalID],
           NEW what \in Section, RenderIfCurrent(what)
    PROVE  ViewOK' /\ (main' = "loading" => main = "loading")
<1>1. CASE section = what
    BY <1>1, RenderOK DEF RenderIfCurrent, ViewOK
<1>2. CASE section # what
    BY <1>2 DEF RenderIfCurrent, ViewOK
<1> QED BY <1>1, <1>2

\* Handling an event never starts a load.
LEMMA HandleEventOK ==
    ASSUME ViewOK, StreamOK, HandleEvent
    PROVE  ViewOK' /\ (main' = "loading" => main = "loading")
<1> DEFINE event == Head(stream)
           Row == [key : ApprovalID \cup {Undefined}, id : ApprovalID]
<1>1. event \in Event /\ UNCHANGED section
    BY DEF StreamOK, HandleEvent
<1>2. CASE event.type = "approval_requested"
    <2>1. event.approvalId \in ApprovalID /\ "id" \notin DOMAIN event
        BY <1>1, <1>2 DEF Event, Requested, Resolved, LockChanged
    <2>2. [key |-> RowKey(event), id |-> event.approvalId] \in Row
        BY <2>1 DEF RowKey
    <2>3. /\ UNCHANGED shown
          /\ rows' = {row \in rows : row.key # RowKey(event)}
                        \cup {[key |-> RowKey(event), id |-> event.approvalId]}
          /\ RenderIfCurrent("approvals")
        BY <1>2 DEF HandleEvent
    <2> QED BY <1>1, <2>2, <2>3, RenderIfCurrentOK DEF ViewOK, Section
<1>3. CASE event.type = "approval_resolved"
    <2>1. /\ UNCHANGED shown
          /\ rows' = {row \in rows : row.key # event.approvalId}
          /\ RenderIfCurrent("approvals")
        BY <1>3 DEF HandleEvent
    <2> QED BY <1>1, <2>1, RenderIfCurrentOK DEF ViewOK, Section
<1>4. CASE event.type = "lock_state_changed"
    <2>1. CASE shown[event.sessionId] = "absent"
        <3>1. UNCHANGED <<rows, shown, main, buttons, listeners>>
            BY <1>4, <2>1 DEF HandleEvent
        <3> QED BY <1>1, <3>1 DEF ViewOK
    <2>2. CASE shown[event.sessionId] # "absent"
        <3>1. /\ UNCHANGED rows
              /\ shown' = [shown EXCEPT ![event.sessionId] =
                                IF event.locked THEN "locked" ELSE "unlocked"]
              /\ RenderIfCurrent("sessions")
            BY <1>4, <2>2 DEF HandleEvent
        <3> QED BY <1>1, <3>1, RenderIfCurrentOK DEF ViewOK, Section, Sight
    <2> QED BY <2>1, <2>2
<1> QED BY <1>2, <1>3, <1>4 DEF HandleEvent

LEMMA ViewPreserved ==
    ASSUME PageInv, [Next]_vars
    PROVE  ViewOK'
<1>1. ViewOK /\ StreamOK /\ Chains
    BY DEF PageInv, UITypeOK, ViewOK, StreamOK, Chains
<1>2. UNCHANGED view => ViewOK'
    BY <1>1 DEF view, ViewOK
<1>3. ASSUME NEW t \in Task, Step(t)
      PROVE  ViewOK'
    <2>1. CASE ShowList(t)
        <3>1. CASE At(t, "fetched")
            <4>1. /\ task[t].what \in {"credentials", "sessions"}
                  /\ task[t].what = "sessions" => task[t].seen \in [SessionID -> Sight]
                BY <1>1, <3>1, ChainFields DEF Chains, At
            <4>2. /\ shown' = IF task[t].what = "sessions" THEN task[t].seen ELSE shown
                  /\ UNCHANGED <<section, rows>>
                  /\ Render(task[t].what)
                BY <2>1, <3>1 DEF ShowList, At
            <4> QED BY <1>1, <4>1, <4>2, RenderOK DEF ViewOK, Section
        <3>2. CASE ~ At(t, "fetched")
            BY <1>1, <2>1, <3>2, MessageOK DEF ShowList, ViewOK
        <3> QED BY <3>1, <3>2
    <2>2. CASE Reload(t)
        BY <1>1, <2>2, MessageOK DEF Reload, ViewOK
    <2>3. CASE DropRow(t)
        <3>1. rows' \subseteq [key : ApprovalID \cup {Undefined}, id : ApprovalID]
            BY <1>1, <2>3 DEF DropRow, ViewOK
        <3> QED BY <1>1, <2>3, <3>1, RenderOK DEF DropRow, ViewOK, Section
    <2>4. CASE FetchList(t) \/ PostUnlock(t) \/ PostApprove(t) \/ PostLock(t) \/ PostVerdict(t)
        BY <1>2, <2>4 DEF FetchList, PostUnlock, PostApprove, PostLock, PostVerdict
    <2> QED BY <1>3, <2>1, <2>2, <2>3, <2>4 DEF Step
<1>4. ASSUME NEW next \in Section, Navigate(next)
      PROVE  ViewOK'
    <2>1. section' \in Section /\ UNCHANGED <<shown, rows>>
        BY <1>4 DEF Navigate
    <2>2. CASE Render(next)
        BY <1>1, <2>1, <2>2, RenderOK DEF ViewOK
    <2>3. CASE ShowMessage("loading")
        BY <1>1, <2>1, <2>3, MessageOK
    <2> QED BY <1>4, <2>2, <2>3 DEF Navigate
<1>5. ASSUME NEW button \in buttons, Click(button[1], button[2])
      PROVE  ViewOK'
    BY <1>1, <1>5 DEF Click, ViewOK
<1>6. CASE HandleEvent
    BY <1>1, <1>6, HandleEventOK
<1>7. CASE Others \/ Connect \/ Disconnect \/ UNCHANGED vars
    BY <1>2, <1>7 DEF Others, Connect, Disconnect, vars
<1> QED BY <1>3, <1>4, <1>5, <1>6, <1>7 DEF Next

----------------------------------------------------------------------------
(* Direct unlocks *)

\* A chain that ended well stays as it is until it reloads the sessions.
NobodyApproved ==
    /\ released' = released
    /\ \A t \in Task : At(t, "approved")' => task'[t] = task[t]

\* The second call of a direct unlock, accepted.
Released(t) ==
    /\ At(t, "approving")
    /\ GrantApproval(task[t].id)
    /\ released' = released \cup {task[t].id}
    /\ \A u \in Task \ {t} : task'[u] = task[u]
    /\ task'[t].id = task[t].id \/ ~ At(t, "approved")'

LEMMA NobodyApprovedBy ==
    ASSUME Chains, NEW t \in Task, NEW next, next.pc # "approved", Goto(t, next),
           UNCHANGED released
    PROVE  NobodyApproved
BY DEF NobodyApproved, Chains, Goto, At

LEMMA ReleaseSteps ==
    ASSUME Chains, [Next]_vars
    PROVE  NobodyApproved \/ \E t \in Task : Released(t)
<1>1. UNCHANGED <<task, released>> => NobodyApproved
    BY DEF NobodyApproved
<1>2. ASSUME NEW t \in Task, Step(t)
      PROVE  NobodyApproved \/ Released(t)
    <2>1. CASE FetchList(t) \/ ShowList(t) \/ DropRow(t)
        BY <2>1, NobodyApprovedBy DEF FetchList, ShowList, DropRow, Idle
    <2>2. CASE PostUnlock(t) \/ PostLock(t) \/ Reload(t) \/ PostVerdict(t)
        BY <2>2, NobodyApprovedBy DEF PostUnlock, PostLock, Reload, PostVerdict, Loading
    <2>3. CASE PostApprove(t)
        <3>1. CASE GrantApproval(task[t].id) /\ released' = released \cup {task[t].id}
            <4>1. CASE Goto(t, [task[t] EXCEPT !.pc = "approved"])
                <5>1. /\ [task[t] EXCEPT !.pc = "approved"] \in Chain
                      /\ [task[t] EXCEPT !.pc = "approved"].id = task[t].id
                    BY <2>3, ChainApproved DEF PostApprove, At, Chains
                <5> QED BY <2>3, <3>1, <4>1, <5>1 DEF Released, PostApprove, Goto, Chains
            <4>2. CASE Goto(t, [pc |-> "failed"])
                BY <2>3, <3>1, <4>2 DEF Released, PostApprove, Goto, Chains, At
            <4> QED BY <2>3, <3>1, <4>1, <4>2, NobodyApprovedBy DEF PostApprove
        <3>2. CASE Goto(t, [pc |-> "failed"]) /\ UNCHANGED released
            BY <3>2, NobodyApprovedBy
        <3> QED BY <2>3, <3>1, <3>2 DEF PostApprove
    <2> QED BY <1>2, <2>1, <2>2, <2>3 DEF Step
<1>3. ASSUME NEW next \in Section, Navigate(next)
      PROVE  NobodyApproved
    BY <1>1, <1>3, NobodyApprovedBy DEF Navigate, Loading
<1>4. ASSUME NEW action, NEW data, Click(action, data)
      PROVE  NobodyApproved
    BY <1>4 DEF Click, Start, NobodyApproved, At
<1>5. CASE Others \/ HandleEvent \/ Connect \/ Disconnect \/ UNCHANGED vars
    BY <1>1, <1>5 DEF Others, HandleEvent, Connect, Disconnect, vars
<1> QED BY <1>2, <1>3, <1>4, <1>5 DEF Next

LEMMA ReleasedPreserved ==
    ASSUME PageInv, [Next]_vars
    PROVE  /\ released' \subseteq ApprovalID
           /\ ReleasedSettled'
           /\ SilenceMeansGranted'
<1>1. Chains /\ ServerInv /\ ReleasedSettled /\ SilenceMeansGranted /\ ApprovalTypeOK
    BY DEF PageInv, UITypeOK, Chains
<1>2. released \subseteq ApprovalID
    BY DEF PageInv, UITypeOK
<1>3. KeepsRecord
    BY <1>1, ServerSteps, ServerPreserved
<1>4. CASE NobodyApproved
    <2>1. released' \subseteq ApprovalID /\ ReleasedSettled'
        BY <1>1, <1>2, <1>3, <1>4 DEF NobodyApproved, ReleasedSettled, KeepsRecord
    <2>2. SilenceMeansGranted'
        BY <1>1, <1>4 DEF NobodyApproved, SilenceMeansGranted, At
    <2> QED BY <2>1, <2>2
<1>5. ASSUME NEW t \in Task, Released(t)
      PROVE  /\ released' \subseteq ApprovalID
             /\ ReleasedSettled'
             /\ SilenceMeansGranted'
    <2> DEFINE id == task[t].id
    <2>1. id \in ApprovalID /\ id \in Pending /\ id \in Issued' /\ id \notin Pending'
        BY <1>1, <1>5, ApprovedNotPending DEF Released, GrantApproval
    <2>2. released' = released \cup {id}
        BY <1>5 DEF Released
    <2>3. ReleasedSettled'
        BY <1>1, <1>2, <1>3, <2>1, <2>2 DEF ReleasedSettled, KeepsRecord
    <2>4. \A u \in Task \ {t} : At(u, "approved") => task[u].id # id
        BY <1>1, <2>1 DEF SilenceMeansGranted, ReleasedSettled
    <2>5. \A u \in Task \ {t} : task'[u] = task[u]
        BY <1>5 DEF Released
    <2>6. At(t, "approved")' => task'[t].id = id
        BY <1>5 DEF Released
    <2> HIDE DEF id
    <2>7. SilenceMeansGranted'
        BY <1>1, <2>2, <2>4, <2>5, <2>6 DEF SilenceMeansGranted, At
    <2> QED BY <1>2, <2>1, <2>2, <2>3, <2>7
<1> QED BY <1>1, <1>4, <1>5, ReleaseSteps

----------------------------------------------------------------------------
(* Loads *)

Pursuing(t) == At(t, "fetching") \/ At(t, "fetched") \/ At(t, "fetchFailed")

\* A chain that has a list to show goes on to show it, and nothing else.
LEMMA PursuitGoesOn ==
    ASSUME Chains, NEW t \in Task, Pursuing(t), [Next]_vars
    PROVE  Pursuing(t)' \/ ShowList(t)
<1>1. ASSUME NEW u \in Task, Step(u), u # t
      PROVE  Pursuing(t)'
    <2>1. \E next : Goto(u, next)
        BY <1>1 DEF Step, FetchList, ShowList, PostUnlock, PostApprove, PostLock, Reload,
            PostVerdict, DropRow
    <2> QED BY <1>1, <2>1 DEF Goto, Pursuing, At, Chains
<1>2. CASE Step(t)
    BY <1>2 DEF Step, FetchList, PostUnlock, PostApprove, PostLock, Reload,
        PostVerdict, DropRow, Goto, Pursuing, At, Chains
<1>3. ASSUME NEW next \in Section, Navigate(next)
      PROVE  Pursuing(t)'
    <2>1. UNCHANGED task \/ \E u \in Task \ {t} : Goto(u, Loading(next))
        BY <1>3 DEF Navigate, Pursuing, At
    <2> QED BY <2>1 DEF Goto, Pursuing, At, Chains
<1>4. ASSUME NEW action, NEW data, Click(action, data)
      PROVE  Pursuing(t)'
    BY <1>4 DEF Click, Start, Pursuing, At
<1>5. CASE Others \/ HandleEvent \/ Connect \/ Disconnect \/ UNCHANGED vars
    BY <1>5 DEF Others, HandleEvent, Connect, Disconnect, vars, Pursuing, At
<1> QED BY <1>1, <1>2, <1>3, <1>4, <1>5 DEF Next

\* What a chain shows is not "Loading".
LEMMA ShowsSomething ==
    ASSUME Chains, NEW t \in Task, ShowList(t)
    PROVE  main' # "loading"
<1>1. At(t, "fetched") => task[t].what # "loading"
    BY ChainFields DEF Chains, At
<1> QED BY <1>1 DEF ShowList, Render, ShowMessage

LEMMA LoadingPreserved ==
    ASSUME PageInv, [Next]_vars
    PROVE  LoadingIsPursued'
<1>1. Chains /\ ViewOK /\ StreamOK /\ LoadingIsPursued
    BY DEF PageInv, ServerInv, UITypeOK, ViewOK, Chains
<1>2. SUFFICES ASSUME main' = "loading"
               PROVE  \E t \in Task : Pursuing(t)'
    BY DEF LoadingIsPursued, Pursuing
<1>3. CASE main = "loading"
    <2>1. PICK t \in Task : Pursuing(t)
        BY <1>1, <1>3 DEF LoadingIsPursued, Pursuing
    <2> QED BY <1>1, <1>2, <2>1, PursuitGoesOn, ShowsSomething
<1>4. CASE main # "loading"
    <2>1. ASSUME NEW t \in Task, Goto(t, Loading("sessions")) \/ Goto(t, Loading("credentials"))
          PROVE  Pursuing(t)'
        BY <1>1, <2>1 DEF Goto, Loading, Pursuing, At, Chains
    <2>2. ASSUME NEW t \in Task, Step(t)
          PROVE  \E u \in Task : Pursuing(u)'
        <3>1. CASE Reload(t)
            BY <2>1, <3>1 DEF Reload
        <3>2. CASE ~ Reload(t)
            <4>1. ~ ShowList(t)
                BY <1>1, <1>2, ShowsSomething
            <4>2. ~ DropRow(t)
                BY <1>2 DEF DropRow, Render
            <4> QED BY <1>2, <1>4, <2>2, <3>2, <4>1, <4>2
                DEF Step, FetchList, PostUnlock, PostApprove, PostLock, PostVerdict, view
        <3> QED BY <3>1, <3>2
    <2>3. ASSUME NEW next \in Section, Navigate(next)
          PROVE  \E u \in Task : Pursuing(u)'
        BY <1>2, <2>1, <2>3 DEF Navigate, Render
    <2>4. CASE HandleEvent
        BY <1>1, <1>2, <1>4, <2>4, HandleEventOK
    <2>5. CASE \/ \E button \in buttons : Click(button[1], button[2])
               \/ Others \/ Connect \/ Disconnect \/ UNCHANGED vars
        BY <1>2, <1>4, <2>5 DEF Click, Others, Connect, Disconnect, vars, view
    <2> QED BY <2>2, <2>3, <2>4, <2>5 DEF Next
<1> QED BY <1>3, <1>4

----------------------------------------------------------------------------
(* The theorems *)

LEMMA PageInvInit == Init => PageInv
<1> SUFFICES ASSUME Init
             PROVE  PageInv
    OBVIOUS
<1>1. LockInv /\ ApprovalInv
    BY ApprovalInitOK DEF Init, LockInit, LockInv, LockTypeOK, WindowBounded
<1>2. Issued = {}
    BY DEF Init, ApprovalInit, Issued
<1>3. ServerInv
    BY <1>1, <1>2, FS_EmptySet, BoundsAssumption DEF ServerInv, StreamOK, Init
<1>4. PICK t \in Task : task = [x \in Task |-> IF x = t THEN Loading("credentials") ELSE Idle]
    BY DEF Init
<1>5. Chains /\ At(t, "fetching") /\ \A x \in Task : ~ At(x, "approved")
    BY <1>4, ChainsBuilt DEF Chains, At, Loading, Idle
<1>6. ViewOK
    BY BoundsAssumption DEF Init, ViewOK, Section, Sight
<1>7. UITypeOK
    BY <1>1, <1>3, <1>5, <1>6
    DEF Init, UITypeOK, ViewOK, Chains, LockInv, ApprovalInv, ServerInv, StreamOK
<1>8. LoadingIsPursued /\ SilenceMeansGranted /\ ReleasedSettled
    BY <1>5 DEF Init, LoadingIsPursued, SilenceMeansGranted, ReleasedSettled
<1> QED BY <1>3, <1>7, <1>8 DEF PageInv

LEMMA PageInvPreserved ==
    ASSUME PageInv, [Next]_vars
    PROVE  PageInv'
<1>1. ServerInv'
    BY ServerSteps, ServerPreserved DEF PageInv
<1>2. connected' \in BOOLEAN
    BY DEF PageInv, UITypeOK, Next, Others, Step, FetchList, ShowList, PostUnlock, PostApprove,
        PostLock, Reload, PostVerdict, DropRow, Navigate, Click, HandleEvent, Connect, Disconnect, vars
<1>3. UITypeOK'
    BY <1>1, <1>2, ChainsPreserved, ViewPreserved, ReleasedPreserved
    DEF UITypeOK, ServerInv, LockInv, ApprovalInv, StreamOK, Chains, ViewOK
<1> QED BY <1>1, <1>3, ReleasedPreserved, LoadingPreserved DEF PageInv

LEMMA PageInvHolds == Spec => []PageInv
BY PageInvInit, PageInvPreserved, PTL DEF Spec

\* Every variable of the page, and of the WCM behind it, keeps its type.
THEOREM PageTypes == Spec => []UITypeOK
<1>1. PageInv => UITypeOK
    BY DEF PageInv
<1> QED BY PageInvHolds, <1>1, PTL

\* A direct unlock that ends without the alert has had its request approved, and
\* no other chain was told the same of that request.
THEOREM SilenceIsGranted == Spec => []SilenceMeansGranted
<1>1. PageInv => SilenceMeansGranted
    BY DEF PageInv
<1> QED BY PageInvHolds, <1>1, PTL

\* While the page shows "Loading", the chain that will replace it is under way.
THEOREM LoadsAreFollowedUp == Spec => []LoadingIsPursued
<1>1. PageInv => LoadingIsPursued
    BY DEF PageInv
<1> QED BY PageInvHolds, <1>1, PTL
=============================================================================
