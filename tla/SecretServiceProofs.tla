------------------------ MODULE SecretServiceProofs ------------------------
(***************************************************************************)
(* The proxy gets no secret that a person has not released, reports no    *)
(* prompt as completed that had no open session, and is let through to    *)
(* nothing once the WCM has lost its session, whatever the users, the     *)
(* goroutines, the prompts, the items and the timeouts, and however often  *)
(* the WCM restarts.                                                       *)
(*                                                                         *)
(* The invariant ties the approvals a person gave to what they open: the  *)
(* approve handlers under way, the unlocked session, the goroutines that  *)
(* have seen it unlocked, the secrets they hold and the signals they sent.*)
(***************************************************************************)
EXTENDS SecretService, ManagerProofs

\* The managers' invariants, and the types of what the proxy adds.
TypesInv == LockInv /\ ApprovalInv /\ ServiceTypeOK

\* The WCM does not know the proxy's session, and the proxy will not register again.
Lost == phase # "starting" /\ ~ Known

Unlocked == sessions[ProxySession] # NoSession /\ ~ sessions[ProxySession].locked

\* What stands behind an unlocked session, and when there is one.
SessionInv ==
    /\ approving \subseteq granted
    /\ approving \subseteq Issued
    /\ \A id \in approving : id \notin Pending
    /\ Unlocked => granted # {}
    /\ phase = "starting" => ~ Known

\* What stands behind a goroutine, and behind a signal.
ThreadInv ==
    \A t \in Thread :
        /\ ~ At(t, "idle") => phase # "starting"
        /\ GoneOn(t) => granted # {} \/ Lost
        /\ At(t, "read") \/ thread[t].result # {} => granted # {}
        /\ GoneOn(t) /\ IsPrompt(t) => thread[t].prompt \in openFor

SignalInv == \A signal \in signals : ~ signal.dismissed => signal.prompt \in openFor

ServiceInv == TypesInv /\ SessionInv /\ ThreadInv /\ SignalInv

----------------------------------------------------------------------------
(* What a step does to the WCM *)

\* The ways a step may change the sessions, once the proxy has registered.
QuietMove ==
    \/ UNCHANGED sessions
    \/ AgeSessions
    \/ Unregister(OwnerEmail, ProxySession)
    \/ GetSession(OwnerEmail, ProxySession)
    \/ Lock(OwnerEmail, ProxySession)
    \/ LockInit'
    \/ \E id \in approving : Unlock(requests[id].user, requests[id].session)

SessionMove ==
    \/ QuietMove
    \/ phase = "starting" /\ Register(OwnerEmail, ProxySession)

\* The ways a step may change the requests, and the approve handlers with them.
RequestMove ==
    \/ ApprovalInit' /\ approving' = {} /\ granted' = granted
    \/ /\ [ApprovalNext]_requests
       /\ granted \subseteq granted'
       /\ \A id \in approving' :
            id \in approving \/ (id \in granted' /\ Resolvable(id) /\ Approve(id))
       /\ \A id \in granted' : id \in granted \/ id \in ApprovalID

LEMMA StepSession ==
    ASSUME [Next]_vars
    PROVE  SessionMove /\ (phase' = "starting" => phase = "starting" /\ QuietMove)
BY DEF Next, Step, Unexport, vars, Arrival, Continue, Main, WCM, SessionMove, QuietMove, LockInit,
    Start, FailToStart, Shutdown, Exit, Ask, GetSecrets, RequestUnlock, CreateRequest,
    LoseUnlock, Poll, LosePoll, GiveUp, CheckCredential, ReadCredential, Return, ServiceUnlock, StartPrompt,
    Complete, Dismiss, ApproveRequest, UnlockSession, DenyRequest, ForceLock, Sweep,
    FinishOrphan, RestartWCM, Tick, wcmVars, proxyVars

LEMMA StepRequest ==
    ASSUME [Next]_vars
    PROVE  RequestMove
<1>1. ASSUME NEW id \in ApprovalID, ApproveRequest(id)
      PROVE  RequestMove
    BY <1>1 DEF ApproveRequest, RequestMove, ApprovalNext, Resolvable, Pending
<1>2. CASE ~ \E id \in ApprovalID : ApproveRequest(id)
    <2>1. granted' = granted
        BY <1>2 DEF Next, Step, Unexport, vars, Arrival, Continue, Main, WCM,
            Start, FailToStart, Shutdown, Exit, GetSecrets, RequestUnlock, CreateRequest,
            LoseUnlock, Poll, LosePoll, GiveUp, CheckCredential, ReadCredential, Return, ServiceUnlock, StartPrompt,
            Complete, Dismiss, UnlockSession, DenyRequest, ForceLock, Sweep,
            FinishOrphan, RestartWCM, Tick, wcmVars, proxyVars
    <2>2. \/ [ApprovalNext]_requests /\ approving' \subseteq approving
          \/ ApprovalInit' /\ approving' = {}
        BY <1>2, OwnerAssumption DEF Next, Step, Unexport, vars, Arrival, Continue, Main, WCM, ApprovalInit,
            ApprovalNext, FindOrCreate,
            Start, FailToStart, Shutdown, Exit, GetSecrets, RequestUnlock, CreateRequest,
            LoseUnlock, Poll, LosePoll, GiveUp, CheckCredential, ReadCredential, Return, ServiceUnlock, StartPrompt,
            Complete, Dismiss, UnlockSession, DenyRequest, ForceLock, Sweep,
            FinishOrphan, RestartWCM, Tick, wcmVars, proxyVars
    <2> QED BY <2>1, <2>2 DEF RequestMove
<1> QED BY <1>1, <1>2

\* Whatever a step does to the sessions, they stay well formed.
LEMMA SessionsKept ==
    ASSUME TypesInv, SessionInv, SessionMove
    PROVE  LockInv'
<1>1. CASE LockInit'
    BY <1>1 DEF LockInit, LockInv, LockTypeOK, WindowBounded
<1>2. CASE \E id \in approving : Unlock(requests[id].user, requests[id].session)
    <2>1. PICK id \in approving : Unlock(requests[id].user, requests[id].session)
        BY <1>2
    <2>2. requests[id] \in ApprovalRequest
        BY DEF SessionInv, TypesInv, ApprovalInv, ApprovalTypeOK, Issued
    <2>3. requests[id].user \in UserID /\ requests[id].session \in SessionID
        BY <2>2 DEF ApprovalRequest
    <2>4. LockNext
        BY <2>1, <2>3 DEF LockNext
    <2> QED BY <2>4, LockNextPreserves DEF TypesInv
<1>3. CASE [LockNext]_sessions
    BY <1>3, LockNextPreserves DEF TypesInv
<1> QED
    BY <1>1, <1>2, <1>3, OwnerAssumption DEF SessionMove, QuietMove, LockNext

\* A session the WCM does not know stays so until the proxy registers it.
LEMMA UnknownStays ==
    ASSUME TypesInv, QuietMove, ~ Known
    PROVE  ~ Known'
<1>1. sessions \in [SessionID -> Session \cup {NoSession}] /\ ProxySession \in SessionID
    BY OwnerAssumption DEF TypesInv, LockInv, LockTypeOK
<1>2. CASE AgeSessions
    <2>1. CASE sessions[ProxySession] = NoSession
        BY <1>1, <1>2, <2>1 DEF Known, Owns, AgeSessions
    <2>2. CASE sessions[ProxySession] # NoSession
        <3>1. sessions[ProxySession] \in Session
            BY <1>1, <2>2
        <3>2. sessions'[ProxySession] = [sessions[ProxySession] EXCEPT !.expires = Aged(@)]
            BY <1>1, <1>2, <2>2 DEF AgeSessions
        <3>3. sessions'[ProxySession].user = sessions[ProxySession].user
            BY <3>1, <3>2 DEF Session
        <3> QED BY <2>2, <3>3 DEF Known, Owns
    <2> QED BY <2>1, <2>2
<1>3. CASE LockInit'
    BY <1>1, <1>3 DEF LockInit, Known, Owns
<1>4. ASSUME NEW u, NEW s, Unlock(u, s)
      PROVE  ~ Known'
    BY <1>1, <1>4 DEF Unlock, UnlockedSession, Known, Owns
<1>5. CASE UNCHANGED sessions
    BY <1>5 DEF Known, Owns
<1>6. CASE Unregister(OwnerEmail, ProxySession) \/ Lock(OwnerEmail, ProxySession)
    BY <1>6 DEF Unregister, Lock, Known
<1>7. CASE GetSession(OwnerEmail, ProxySession)
    BY <1>7 DEF GetSession, Known, Owns
<1> QED
    BY <1>2, <1>3, <1>4, <1>5, <1>6, <1>7 DEF QuietMove

\* The WCM forgets the proxy's session for good.
LEMMA LostForGood ==
    ASSUME TypesInv, SessionMove, phase' = "starting" => phase = "starting", Lost
    PROVE  Lost'
BY UnknownStays DEF SessionMove, Lost

\* Only an approve handler opens the session.
LEMMA OnlyApprovalUnlocks ==
    ASSUME TypesInv, SessionMove, Unlocked'
    PROVE  Unlocked \/ approving # {}
<1>1. LockTypeOK /\ ProxySession \in SessionID
    BY OwnerAssumption DEF TypesInv, LockInv
<1>2. CASE LockInit'
    BY <1>1, <1>2 DEF LockInit, Unlocked
<1>3. CASE \E id \in approving : Unlock(requests[id].user, requests[id].session)
    BY <1>3
<1>4. CASE \/ AgeSessions
           \/ UNCHANGED sessions
           \/ \E u \in UserID, s \in SessionID :
                Register(u, s) \/ GetSession(u, s) \/ List(u) \/ Lock(u, s) \/ Unregister(u, s)
    BY <1>1, <1>4, OnlyUnlockOpens DEF OpensNothing, Unlocked
<1> QED
    BY <1>2, <1>3, <1>4, OwnerAssumption DEF SessionMove, QuietMove

\* The requests and the approve handlers stay what they are.
LEMMA RequestsKept ==
    ASSUME TypesInv, SessionInv, RequestMove
    PROVE  /\ ApprovalInv'
           /\ approving' \subseteq granted' /\ approving' \subseteq Issued'
           /\ \A id \in approving' : id \notin Pending'
           /\ granted \subseteq granted' /\ granted' \subseteq ApprovalID
<1>1. CASE ApprovalInit' /\ approving' = {} /\ granted' = granted
    BY <1>1 DEF ApprovalInit, ApprovalInv, ApprovalTypeOK, OnePending, Pending, Issued,
        TypesInv, ServiceTypeOK
<1>2. CASE [ApprovalNext]_requests /\ granted \subseteq granted'
    <2>1. ApprovalInv' /\ KeepsRecord
        BY <1>2, ApprovalNextPreserves DEF TypesInv
    <2>2. \A id \in approving : id \in granted' /\ id \in Issued' /\ id \notin Pending'
        BY <1>2, <2>1 DEF KeepsRecord, Issued, SessionInv
    <2>3. CASE /\ \A id \in approving' :
                    id \in approving \/ (id \in granted' /\ Resolvable(id) /\ Approve(id))
               /\ \A id \in granted' : id \in granted \/ id \in ApprovalID
        BY <1>2, <2>1, <2>2, <2>3, ApprovedNotPending
        DEF TypesInv, ApprovalInv, ServiceTypeOK
    <2>4. CASE ApprovalInit' /\ approving' = {} /\ granted' = granted
        BY <2>1, <2>4 DEF TypesInv, ServiceTypeOK
    <2> QED BY <2>3, <2>4 DEF RequestMove
<1> QED
    BY <1>1, <1>2 DEF RequestMove

----------------------------------------------------------------------------
(* What a step does to the proxy *)

\* The window stays what it is while neither the sessions nor the phase change.
LEMMA WindowStays ==
    ASSUME UNCHANGED <<sessions, phase>>
    PROVE  Window' = Window
BY DEF Window, Known, Owns, UnlockedNow, WindowPassed, Passed

\* The WCM's lazy re-lock changes nothing a caller could tell.
LEMMA AskKeepsWindow ==
    ASSUME TypesInv, Ask, UNCHANGED phase
    PROVE  Window' = Window
<1>1. LockTypeOK /\ ProxySession \in SessionID
    BY OwnerAssumption DEF TypesInv, LockInv
<1>2. CASE ~ Known
    <2>1. sessions' = sessions
        BY <1>2 DEF Known, Ask, GetSession
    <2> QED BY <2>1, WindowStays
<1>3. CASE Known
    <2> DEFINE old == sessions[ProxySession]
    <2>1. sessions' = [sessions EXCEPT ![ProxySession] = Relocked(@)]
        BY <1>3 DEF Known, Ask, GetSession
    <2>2. sessions'[ProxySession] = Relocked(old)
        BY <1>1, <2>1 DEF LockTypeOK
    <2>3. CASE WindowPassed(old)
        <3>1. sessions'[ProxySession] = LockedSession(OwnerEmail)
            BY <1>3, <2>2, <2>3 DEF Relocked, Known, Owns
        <3>2. /\ sessions'[ProxySession] # NoSession
              /\ sessions'[ProxySession].user = OwnerEmail
              /\ sessions'[ProxySession].locked
            BY <3>1, LockedSessionOK, OwnerAssumption, NoSessionAssumption DEF LockedSession
        <3>3. Known' /\ ~ UnlockedNow(ProxySession)'
            BY <3>2 DEF Known, Owns, UnlockedNow
        <3>4. ~ UnlockedNow(ProxySession)
            BY <2>3 DEF UnlockedNow
        <3> QED BY <1>3, <3>3, <3>4 DEF Window
    <2>4. CASE ~ WindowPassed(old)
        <3>1. sessions' = sessions
            BY <1>1, <2>1, <2>4 DEF Relocked, LockTypeOK
        <3> QED BY <3>1, WindowStays
    <2> QED BY <2>3, <2>4
<1> QED BY <1>2, <1>3

\* A request that does not find the session locked finds it open or lost.
LEMMA AskFinds ==
    ASSUME TypesInv, Ask, UNCHANGED phase, phase # "starting", ~ Locked'
    PROVE  /\ Window' \in {"open", "lost"}
           /\ Known => Window = "open" /\ Window' = "open"
<1>1. Window' = Window
    BY AskKeepsWindow
<1>2. CASE ~ Known
    BY <1>1, <1>2 DEF Window
<1>3. CASE Known
    <2> DEFINE old == sessions[ProxySession]
    <2>1. LockTypeOK /\ ProxySession \in SessionID /\ old \in Session /\ old.user = OwnerEmail
        BY <1>3, OwnerAssumption DEF TypesInv, LockInv, LockTypeOK, Known, Owns
    <2>2. sessions'[ProxySession] = Relocked(old)
        BY <1>3, <2>1 DEF Ask, GetSession, Known, LockTypeOK
    <2>3. ~ Relocked(old).locked
        <3>1. Relocked(old) \in Session /\ Relocked(old).user = OwnerEmail
            BY <2>1, LockedSessionOK, OwnerAssumption DEF Relocked, LockedSession
        <3> QED BY <2>2, <3>1, NoSessionAssumption DEF Locked, Known, Owns
    <2>4. ~ old.locked /\ ~ WindowPassed(old)
        BY <2>3 DEF Relocked, LockedSession
    <2>5. Window = "open"
        BY <1>3, <2>1, <2>4 DEF Window, Known, Owns, UnlockedNow
    <2> QED BY <1>1, <2>5
<1> QED BY <1>2, <1>3

Seen == Window' \in {"open", "lost"}

\* The ways a step may change a goroutine.
ThreadMove(t) ==
    /\ thread'[t] \in Goroutine
    /\ thread'[t].pc # "idle" => phase' # "starting"
    /\ GoneOn(t)' => Seen \/ (GoneOn(t) /\ thread'[t].prompt = thread[t].prompt)
    /\ At(t, "read")' => At(t, "read") \/ Window' = "open"
    /\ \/ thread'[t].result \subseteq thread[t].result
       \/ /\ At(t, "read") /\ ~ At(t, "read")'
          /\ \E i \in Item : thread'[t].result = thread[t].result \cup {i}

ThreadMoves == thread' \in [Thread -> Goroutine] /\ \A t \in Thread : ThreadMove(t)

\* One goroutine moves, and the others do not.
LEMMA OneMoves ==
    ASSUME TypesInv, ThreadInv, NEW t \in Thread, NEW next \in Goroutine, Goto(t, next),
           phase' = phase \/ phase' # "starting",
           next.pc # "idle" => phase' # "starting",
           next.pc \in {"unlocked", "read"} =>
                Seen \/ (GoneOn(t) /\ next.prompt = thread[t].prompt),
           next.pc = "read" => Window' = "open",
           \/ next.result \subseteq thread[t].result
           \/ /\ At(t, "read") /\ next.pc # "read"
              /\ \E i \in Item : next.result = thread[t].result \cup {i}
    PROVE  ThreadMoves
<1>1. thread \in [Thread -> Goroutine]
    BY DEF TypesInv, ServiceTypeOK
<1>2. thread' = [thread EXCEPT ![t] = next]
    BY DEF Goto
<1>3. thread' \in [Thread -> Goroutine] /\ thread'[t] = next
    BY <1>1, <1>2
<1>4. ASSUME NEW u \in Thread, u # t PROVE ThreadMove(u)
    <2>1. thread'[u] = thread[u]
        BY <1>1, <1>2, <1>4
    <2> QED BY <1>1, <2>1 DEF ThreadMove, ThreadInv, GoneOn, At
<1>5. ThreadMove(t)
    BY <1>3 DEF ThreadMove, GoneOn, At
<1> QED BY <1>3, <1>4, <1>5 DEF ThreadMoves

\* No goroutine moves.
LEMMA NoneMoves ==
    ASSUME TypesInv, ThreadInv, UNCHANGED thread, phase' = phase \/ phase' # "starting"
    PROVE  ThreadMoves
BY DEF TypesInv, ServiceTypeOK, ThreadInv, ThreadMoves, ThreadMove, GoneOn, At

\* A call of the proxy is in one of the states of its goroutine.
LEMMA IdleOK ==
    Idle \in Goroutine /\ Idle.pc = "idle" /\ Idle.result = {} /\ Idle.prompt = NoPrompt
BY PollAssumption DEF Idle, Goroutine, PC

LEMMA TimesOK == 0 \in 0 .. PollTimeout /\ PollTimeout \in 0 .. PollTimeout
BY PollAssumption

LEMMA SettleOK ==
    ASSUME NEW g \in Goroutine, NEW pc \in PC
    PROVE  [g EXCEPT !.pc = pc] \in Goroutine /\ [g EXCEPT !.pc = pc, !.left = 0] \in Goroutine
<1>1. [g EXCEPT !.pc = pc] \in Goroutine
    BY DEF Goroutine
<1>2. [g EXCEPT !.pc = pc, !.left = 0] \in Goroutine
    BY TimesOK DEF Goroutine
<1> QED BY <1>1, <1>2

\* The requests of a goroutine.
LEMMA ContinueMoves ==
    ASSUME TypesInv, ThreadInv, NEW t \in Thread, Continue(t)
    PROVE  ThreadMoves
<1> DEFINE g == thread[t]
<1>1. /\ g \in Goroutine /\ g.pc \in PC /\ g.left \in 0 .. PollTimeout
      /\ g.prompt \in Prompt \cup {NoPrompt} /\ g.result \in SUBSET Item
    BY DEF TypesInv, ServiceTypeOK, Goroutine
<1>3. ASSUME NEW pc \in PC \ {"unlocked", "read"}, phase # "starting",
             Settle(t, pc) \/ MoveTo(t, pc), UNCHANGED phase
      PROVE  ThreadMoves
    <2> DEFINE next == thread'[t]
    <2>1. PICK left \in 0 .. PollTimeout : Goto(t, [g EXCEPT !.pc = pc, !.left = left])
        <3>1. CASE Settle(t, pc)
            BY TimesOK, <3>1 DEF Settle
        <3>2. CASE MoveTo(t, pc)
            <4>1. [g EXCEPT !.pc = pc] = [g EXCEPT !.pc = pc, !.left = g.left]
                BY <1>1 DEF Goroutine
            <4> QED BY <1>1, <3>2, <4>1 DEF MoveTo
        <3> QED BY <1>3, <3>1, <3>2
    <2>2. [g EXCEPT !.pc = pc, !.left = left] \in Goroutine
        BY <1>1 DEF Goroutine
    <2> QED
        BY <1>1, <1>3, <2>1, <2>2, OneMoves DEF Goroutine
<1>4. ASSUME StartPolling(t), phase # "starting", UNCHANGED phase
      PROVE  ThreadMoves
    <2>1. PICK left \in 0 .. PollTimeout : Goto(t, [g EXCEPT !.pc = "poll", !.left = left])
        BY <1>1, TimesOK, <1>4 DEF StartPolling
    <2>2. [g EXCEPT !.pc = "poll", !.left = left] \in Goroutine
        BY <1>1 DEF Goroutine, PC
    <2> QED
        BY <1>1, <1>4, <2>1, <2>2, OneMoves DEF Goroutine
<1>5. ASSUME RequestUnlock(t) \/ CreateRequest(t) \/ LoseUnlock(t) \/ LosePoll(t) \/ GiveUp(t)
      PROVE  ThreadMoves
    <2>1. phase # "starting" /\ UNCHANGED phase
        BY <1>5 DEF RequestUnlock, CreateRequest, LoseUnlock, LosePoll, GiveUp, ThreadInv, At
    <2>2. \/ StartPolling(t)
          \/ \E pc \in {"refused", "create"} : Settle(t, pc) \/ MoveTo(t, pc)
        BY <1>5 DEF RequestUnlock, CreateRequest, LoseUnlock, LosePoll, GiveUp
    <2> QED BY <1>3, <1>4, <2>1, <2>2 DEF PC
<1>6. CASE Poll(t)
    <2>1. phase # "starting" /\ UNCHANGED phase
        BY <1>6 DEF Poll, ThreadInv, At
    <2>2. CASE UNCHANGED thread
        BY <2>1, <2>2, NoneMoves
    <2>3. CASE ~ Locked' /\ Settle(t, "unlocked")
        <3>1. [g EXCEPT !.pc = "unlocked", !.left = 0] \in Goroutine
            BY <1>1, SettleOK DEF PC
        <3>2. Seen
            BY <1>6, <2>1, <2>3, AskFinds DEF Poll, Seen
        <3> QED
            BY <1>1, <2>1, <2>3, <3>1, <3>2, OneMoves DEF Settle, Goroutine
    <2> QED BY <1>6, <2>2, <2>3 DEF Poll, SeenLocked
<1>7. CASE CheckCredential(t)
    <2>1. phase # "starting" /\ UNCHANGED phase /\ At(t, "unlocked") /\ Ask
        BY <1>7 DEF CheckCredential, ThreadInv, At
    <2>2. CASE Known /\ ~ Locked' /\ MoveTo(t, "read")
        <3>1. Seen /\ Window' = "open"
            BY <2>1, <2>2, AskFinds DEF Seen
        <3>2. [g EXCEPT !.pc = "read"] \in Goroutine
            BY <1>1, SettleOK DEF PC
        <3> QED BY <1>1, <2>1, <2>2, <3>1, <3>2, OneMoves DEF MoveTo, Goroutine
    <2>3. ASSUME NEW i \in Item, Goto(t, [g EXCEPT !.items = @ \ {i}])
          PROVE  ThreadMoves
        <3> DEFINE next == [g EXCEPT !.items = @ \ {i}]
        <3>1. /\ next \in Goroutine /\ next.pc = "unlocked"
              /\ next.prompt = g.prompt /\ next.result = g.result
            BY <1>1, <2>1 DEF Goroutine, At
        <3>2. Goto(t, next)
            BY <2>3
        <3> HIDE DEF next
        <3> QED BY <2>1, <3>1, <3>2, OneMoves DEF GoneOn
    <2> QED BY <1>1, <1>7, <2>2, <2>3 DEF CheckCredential, Goroutine
<1>9. ASSUME NEW i \in Item, ReadCredential(t, i)
      PROVE  ThreadMoves
    <2>1. phase # "starting" /\ UNCHANGED phase /\ At(t, "read")
        BY <1>9 DEF ReadCredential, ThreadInv, At
    <2>2. PICK got \in SUBSET {i} :
            Goto(t, [g EXCEPT !.pc = "unlocked", !.items = @ \ {i}, !.result = @ \cup got])
        BY <1>9 DEF ReadCredential
    <2> DEFINE next == [g EXCEPT !.pc = "unlocked", !.items = @ \ {i}, !.result = @ \cup got]
    <2>3. /\ next \in Goroutine /\ next.pc = "unlocked"
          /\ next.prompt = g.prompt /\ next.result = g.result \cup got
        BY <1>1 DEF Goroutine, PC
    <2>4. got = {} \/ got = {i}
        BY <2>2
    <2>5. next.result \subseteq g.result \/ next.result = g.result \cup {i}
        BY <2>3, <2>4
    <2>6. Goto(t, next)
        BY <2>2
    <2> HIDE DEF next
    <2> QED BY <2>1, <2>3, <2>5, <2>6, OneMoves DEF GoneOn
<1>8. CASE Return(t) \/ Complete(t)
    <2>1. Goto(t, Idle) /\ phase' = phase
        BY <1>8 DEF Return, Complete
    <2> QED BY <2>1, IdleOK, OneMoves
<1> QED
    BY <1>5, <1>6, <1>7, <1>8, <1>9 DEF Continue

\* Every step moves the goroutines like that.
LEMMA StepThread ==
    ASSUME TypesInv, ThreadInv, [Next]_vars
    PROVE  ThreadMoves
<1>1. ASSUME NEW t \in Thread, NEW items \in SUBSET Item, GetSecrets(t, items)
      PROVE  ThreadMoves
    <2>1. phase # "starting" /\ UNCHANGED phase /\ Ask
        BY <1>1 DEF GetSecrets, Up
    <2>2. PICK pc \in {"ask", "unlocked"} :
            /\ Goto(t, [Idle EXCEPT !.pc = pc, !.items = items])
            /\ pc = "unlocked" => ~ Locked'
        BY <1>1 DEF GetSecrets, SeenLocked
    <2> DEFINE next == [Idle EXCEPT !.pc = pc, !.items = items]
    <2>3. next \in Goroutine /\ next.pc = pc /\ next.result = {}
        BY IdleOK DEF Goroutine, PC
    <2>4. pc = "unlocked" => Seen
        BY <2>1, <2>2, AskFinds DEF Seen
    <2>5. Goto(t, next)
        BY <2>2
    <2> HIDE DEF next
    <2> QED BY <2>1, <2>3, <2>4, <2>5, OneMoves
<1>2. ASSUME NEW t \in Thread, NEW k \in Prompt, StartPrompt(t, k)
      PROVE  ThreadMoves
    <2> DEFINE next == [Idle EXCEPT !.pc = "ask", !.prompt = k, !.left = PollTimeout]
    <2>1. next \in Goroutine
        BY IdleOK, TimesOK DEF Goroutine, PC
    <2>2. next.pc = "ask" /\ next.result = {}
        BY IdleOK DEF Goroutine
    <2>3. phase # "starting" /\ UNCHANGED phase /\ Goto(t, next)
        BY <1>2 DEF StartPrompt, Up
    <2> HIDE DEF next
    <2> QED
        BY <2>1, <2>2, <2>3, OneMoves
<1>3. CASE Exit
    <2>1. thread' = [t \in Thread |-> Idle]
        BY <1>3 DEF Exit
    <2> QED BY <2>1, IdleOK DEF ThreadMoves, ThreadMove, GoneOn, At
<1>4. CASE RestartWCM
    <2> SUFFICES ASSUME NEW t \in Thread
                 PROVE  thread'[t] \in Goroutine /\ ThreadMove(t)
        BY <1>4 DEF RestartWCM, ThreadMoves
    <2>1. thread[t] \in Goroutine
        BY DEF TypesInv, ServiceTypeOK
    <2>2. UNCHANGED phase
        BY <1>4 DEF RestartWCM
    <2>3. CASE At(t, "create")
        <3>1. thread'[t] = [thread[t] EXCEPT !.pc = "refused", !.left = 0]
            BY <1>4, <2>3 DEF RestartWCM
        <3>2. thread'[t] \in Goroutine
            BY <2>1, <3>1, SettleOK DEF PC
        <3>3. phase # "starting"
            BY <2>3 DEF ThreadInv, At
        <3> QED BY <2>1, <2>2, <3>1, <3>2, <3>3 DEF ThreadMove, GoneOn, At, Goroutine
    <2>4. CASE ~ At(t, "create")
        <3>1. thread'[t] = thread[t]
            BY <1>4, <2>4 DEF RestartWCM
        <3> QED BY <2>1, <2>2, <3>1 DEF ThreadMove, ThreadInv, GoneOn, At
    <2> QED BY <2>3, <2>4
<1>5. CASE Tick
    <2> SUFFICES ASSUME NEW t \in Thread
                 PROVE  thread'[t] \in Goroutine /\ ThreadMove(t)
        BY <1>5 DEF Tick, ThreadMoves
    <2>1. thread[t] \in Goroutine /\ thread[t].left \in 0 .. PollTimeout
        BY DEF TypesInv, ServiceTypeOK, Goroutine
    <2> DEFINE left == IF thread[t].left > 0 THEN thread[t].left - 1 ELSE 0
    <2>2. thread'[t] = [thread[t] EXCEPT !.left = left] /\ left \in 0 .. PollTimeout
        <3>1. left \in 0 .. PollTimeout
            BY <2>1, PollAssumption
        <3>2. thread'[t] = [thread[t] EXCEPT !.left = left]
            BY <1>5 DEF Tick
        <3> QED BY <3>1, <3>2
    <2> HIDE DEF left
    <2>3. thread'[t] \in Goroutine /\ thread'[t].pc = thread[t].pc
            /\ thread'[t].result = thread[t].result /\ thread'[t].prompt = thread[t].prompt
        BY <2>1, <2>2 DEF Goroutine
    <2>4. UNCHANGED phase
        BY <1>5 DEF Tick
    <2> QED BY <2>3, <2>4 DEF ThreadMove, ThreadInv, GoneOn, At
<1>6. CASE UNCHANGED thread /\ (phase' = phase \/ phase' # "starting")
    BY <1>6, NoneMoves
<1> QED
    BY <1>1, <1>2, <1>3, <1>4, <1>5, <1>6, ContinueMoves
    DEF Next, Step, Unexport, vars, Arrival, Main, WCM, Start, FailToStart, Shutdown,
        ServiceUnlock,
        Dismiss, ApproveRequest, UnlockSession, DenyRequest, ForceLock, Sweep, FinishOrphan,
        wcmVars, proxyVars

\* A prompt may be reported as completed by a goroutine of it that has seen the session.
MayComplete(k) == \E t \in Thread : At(t, "unlocked") /\ IsPrompt(t) /\ thread[t].prompt = k

\* What a step may tell of a prompt.
SignalMove ==
    /\ signals' \subseteq [prompt : Prompt, dismissed : BOOLEAN]
    /\ \A signal \in signals' :
        signal \in signals \/ signal.dismissed \/ MayComplete(signal.prompt)

LEMMA EmitMoves ==
    ASSUME TypesInv, NEW k \in Prompt, NEW dismissed \in BOOLEAN, EmitCompleted(k, dismissed),
           dismissed \/ MayComplete(k)
    PROVE  SignalMove
<1> DEFINE new == [prompt |-> k, dismissed |-> dismissed]
<1>1. /\ new \in [prompt : Prompt, dismissed : BOOLEAN]
      /\ new.dismissed = dismissed /\ new.prompt = k
    OBVIOUS
<1>2. signals' = signals \cup {new}
    BY DEF EmitCompleted
<1>3. signals \subseteq [prompt : Prompt, dismissed : BOOLEAN]
    BY DEF TypesInv, ServiceTypeOK
<1> HIDE DEF new
<1> QED BY <1>1, <1>2, <1>3 DEF SignalMove

LEMMA StepSignal ==
    ASSUME TypesInv, [Next]_vars
    PROVE  /\ SignalMove
           /\ exported' \subseteq created' /\ created' \subseteq Prompt
           /\ orphans' \subseteq Thread /\ phase' \in Phase
           /\ openFor \subseteq openFor' /\ openFor' \subseteq Prompt
<1>1. /\ exported \subseteq created /\ created \subseteq Prompt /\ orphans \subseteq Thread
      /\ phase \in Phase /\ signals \subseteq [prompt : Prompt, dismissed : BOOLEAN]
      /\ thread \in [Thread -> Goroutine] /\ openFor \subseteq Prompt
    BY DEF TypesInv, ServiceTypeOK
<1>2. ASSUME NEW t \in Thread, Complete(t)
      PROVE  SignalMove
    <2>1. thread[t].prompt \in Prompt
        BY <1>1, <1>2 DEF Complete, IsPrompt, Goroutine
    <2>2. CASE At(t, "refused")
        <3>1. EmitCompleted(thread[t].prompt, TRUE)
            BY <1>2, <2>2 DEF Complete
        <3> QED BY <2>1, <3>1, EmitMoves
    <2>3. CASE ~ At(t, "refused")
        <3>1. EmitCompleted(thread[t].prompt, FALSE)
            <4>1. At(t, "refused") = FALSE
                BY <2>3 DEF At
            <4> QED BY <1>2, <4>1 DEF Complete
        <3>2. MayComplete(thread[t].prompt)
            BY <1>2, <2>3 DEF Complete, MayComplete
        <3> QED BY <2>1, <3>1, <3>2, EmitMoves
    <2> QED BY <2>2, <2>3
<1>3. ASSUME NEW k \in Prompt, Dismiss(k)
      PROVE  SignalMove
    BY <1>3, EmitMoves DEF Dismiss
<1>4. ASSUME UNCHANGED signals
      PROVE  SignalMove
    BY <1>1, <1>4 DEF SignalMove
<1>5. SignalMove
    BY <1>2, <1>3, <1>4
    DEF Next, Step, Unexport, vars, Arrival, Continue, Main, WCM, Start, FailToStart, Shutdown, Exit,
        GetSecrets, RequestUnlock, CreateRequest, LoseUnlock, Poll, LosePoll, GiveUp,
        CheckCredential, ReadCredential, Return, ServiceUnlock, StartPrompt, ApproveRequest, UnlockSession,
        DenyRequest, ForceLock, Sweep, FinishOrphan, RestartWCM, Tick, wcmVars, proxyVars
<1>6. exported' \subseteq created' /\ created' \subseteq Prompt
    BY <1>1
    DEF Next, Step, Unexport, vars, Arrival, Continue, Main, WCM, Start, FailToStart, Shutdown, Exit,
        GetSecrets, RequestUnlock, CreateRequest, LoseUnlock, Poll, LosePoll, GiveUp,
        CheckCredential, ReadCredential, Return, ServiceUnlock, StartPrompt, Complete, Dismiss,
        ApproveRequest, UnlockSession, DenyRequest, ForceLock, Sweep, FinishOrphan,
        RestartWCM, Tick, wcmVars, proxyVars
<1>7. orphans' \subseteq Thread /\ phase' \in Phase
    BY <1>1
    DEF Next, Step, Unexport, vars, Arrival, Continue, Main, WCM, Start, FailToStart, Shutdown, Exit,
        GetSecrets, RequestUnlock, CreateRequest, LoseUnlock, Poll, LosePoll, GiveUp,
        CheckCredential, ReadCredential, Return, ServiceUnlock, StartPrompt, Complete, Dismiss,
        ApproveRequest, UnlockSession, DenyRequest, ForceLock, Sweep, FinishOrphan,
        RestartWCM, Tick, wcmVars, proxyVars, Phase, Orphaned
<1>8. openFor \subseteq openFor' /\ openFor' \subseteq Prompt
    BY <1>1 DEF Next, Watch, Running, vars
<1> QED BY <1>5, <1>6, <1>7, <1>8

----------------------------------------------------------------------------
(* The invariant *)

LEMMA ServiceInitOK == Init => ServiceInv
<1> SUFFICES ASSUME Init PROVE ServiceInv
    OBVIOUS
<1>1. LockInv
    BY DEF Init, LockInit, LockInv, LockTypeOK, WindowBounded
<1>2. ApprovalInv
    BY ApprovalInitOK DEF Init
<1>3. \A t \in Thread : thread[t] = Idle
    BY DEF Init
<1>4. ServiceTypeOK
    BY <1>1, <1>2, IdleOK DEF Init, ServiceTypeOK, LockInv, ApprovalInv, Phase
<1>5. SessionInv
    BY OwnerAssumption DEF Init, LockInit, SessionInv, Unlocked, Known, Owns
<1>6. ThreadInv
    BY <1>3, IdleOK DEF ThreadInv, GoneOn, At
<1>7. SignalInv
    BY DEF Init, SignalInv
<1> QED BY <1>1, <1>2, <1>4, <1>5, <1>6, <1>7 DEF ServiceInv, TypesInv

\* What is left for a step to do once the session is lost.
LostMove ==
    /\ Lost'
    /\ \A t \in Thread :
        /\ At(t, "read")' => At(t, "read")
        /\ \/ thread'[t].result \subseteq thread[t].result
           \/ /\ At(t, "read") /\ ~ At(t, "read")'
              /\ \E i \in Item : thread'[t].result = thread[t].result \cup {i}

LEMMA ServiceNextPreserves ==
    ASSUME ServiceInv, [Next]_vars
    PROVE  ServiceInv' /\ (Lost => LostMove)
<1>1. SessionMove /\ (phase' = "starting" => phase = "starting" /\ QuietMove)
    BY StepSession
<1>2. RequestMove /\ ThreadMoves
    BY StepRequest, StepThread DEF ServiceInv
<1>3. LockInv'
    BY <1>1, SessionsKept DEF ServiceInv
<1>4. /\ ApprovalInv'
      /\ approving' \subseteq granted' /\ approving' \subseteq Issued'
      /\ \A id \in approving' : id \notin Pending'
      /\ granted \subseteq granted' /\ granted' \subseteq ApprovalID
    BY <1>2, RequestsKept DEF ServiceInv
<1>5. TypesInv'
    BY <1>2, <1>3, <1>4, StepSignal
    DEF ServiceInv, TypesInv, ServiceTypeOK, LockInv, ApprovalInv, ThreadMoves, SignalMove, Issued
<1>6. SessionInv'
    <2>1. Unlocked' => Unlocked \/ approving # {}
        BY <1>1, OnlyApprovalUnlocks DEF ServiceInv
    <2>2. Unlocked' => granted' # {}
        BY <1>4, <2>1 DEF ServiceInv, SessionInv
    <2>3. phase' = "starting" => ~ Known'
        BY <1>1, UnknownStays DEF ServiceInv, SessionInv
    <2> QED BY <1>4, <2>2, <2>3 DEF SessionInv
<1>7. Lost => Lost'
    BY <1>1, LostForGood DEF ServiceInv
\* What a goroutine has been told stands, and what it is told now is so.
<1>8. Seen => granted' # {} \/ Lost'
    <2>1. Window' = "open" => Unlocked'
        BY DEF Window, UnlockedNow, Unlocked
    <2>2. Window' = "lost" => Lost'
        BY DEF Window, Lost
    <2> QED BY <1>6, <2>1, <2>2 DEF Seen, SessionInv
<1>9. Window' = "open" => granted' # {}
    BY <1>6 DEF Window, UnlockedNow, Unlocked, SessionInv
<1>10. ThreadInv'
    <2> SUFFICES ASSUME NEW t \in Thread
                 PROVE  /\ ~ At(t, "idle")' => phase' # "starting"
                        /\ GoneOn(t)' => granted' # {} \/ Lost'
                        /\ At(t, "read")' \/ thread'[t].result # {} => granted' # {}
                        /\ GoneOn(t)' /\ IsPrompt(t)' => thread'[t].prompt \in openFor'
        BY DEF ThreadInv
    <2>1. ThreadMove(t)
        BY <1>2 DEF ThreadMoves
    <2>2. ~ At(t, "idle")' => phase' # "starting"
        BY <2>1 DEF ThreadMove, At
    <2>3. GoneOn(t)' => granted' # {} \/ Lost'
        BY <1>4, <1>7, <1>8, <2>1 DEF ThreadMove, ServiceInv, ThreadInv
    <2>4. At(t, "read")' \/ thread'[t].result # {} => granted' # {}
        BY <1>4, <1>9, <2>1 DEF ThreadMove, ServiceInv, ThreadInv
    <2>5. ASSUME GoneOn(t)', IsPrompt(t)'
          PROVE  thread'[t].prompt \in openFor'
        <3>1. openFor \subseteq openFor'
            BY StepSignal DEF ServiceInv
        <3>2. CASE GoneOn(t) /\ thread'[t].prompt = thread[t].prompt
            BY <2>5, <3>1, <3>2 DEF ServiceInv, ThreadInv, IsPrompt
        <3>3. CASE Seen /\ Watch
            <4>1. thread'[t].prompt \in Running'
                BY <2>1, <2>5 DEF ThreadMove, Goroutine, IsPrompt, Running
            <4> QED BY <3>3, <4>1 DEF Seen, Watch
        <3>4. CASE UNCHANGED vars
            BY <2>5, <3>2, <3>4 DEF vars, GoneOn, At
        <3> QED BY <2>1, <2>5, <3>2, <3>3, <3>4 DEF ThreadMove, Next
    <2> QED BY <2>2, <2>3, <2>4, <2>5
<1>11. SignalInv'
    <2> SUFFICES ASSUME NEW signal \in signals', ~ signal.dismissed
                 PROVE  signal.prompt \in openFor'
        BY DEF SignalInv
    <2>1. (signal \in signals \/ MayComplete(signal.prompt)) /\ openFor \subseteq openFor'
        BY StepSignal DEF SignalMove, ServiceInv
    <2> QED BY <2>1 DEF ServiceInv, SignalInv, ThreadInv, MayComplete, GoneOn
<1>12. ASSUME Lost
       PROVE  LostMove
    <2>1. Window' # "open"
        BY <1>7, <1>12 DEF Lost, Window
    <2> QED BY <1>2, <1>7, <1>12, <2>1 DEF ThreadMoves, ThreadMove, LostMove
<1> QED BY <1>5, <1>6, <1>10, <1>11, <1>12 DEF ServiceInv

LEMMA ServiceInvariant == Spec => []ServiceInv
<1>1. ServiceInv /\ [Next]_vars => ServiceInv'
    BY ServiceNextPreserves
<1> QED BY ServiceInitOK, <1>1, PTL DEF Spec

\* The proxy and the WCM keep their types, whatever is lost and whoever restarts.
THEOREM ServiceTypes == Spec => []ServiceTypeOK
<1>1. ServiceInv => ServiceTypeOK
    BY DEF ServiceInv, TypesInv
<1> QED BY ServiceInvariant, <1>1, PTL

\* No D-Bus caller holds a secret before a person has approved a request.
THEOREM SecretsReleased == Spec => []SecretsWereReleased
<1>1. ServiceInv => SecretsWereReleased
    BY DEF ServiceInv, ThreadInv, SecretsWereReleased
<1> QED BY ServiceInvariant, <1>1, PTL

\* A prompt that reports success had a goroutine under way while the session was open,
\* or was lost.
THEOREM PromptsBacked == Spec => []CompletedBacked
<1>1. ServiceInv => CompletedBacked
    BY DEF ServiceInv, SignalInv, CompletedBacked
<1> QED BY ServiceInvariant, <1>1, PTL

\* Once the WCM has lost the session, it stays lost and no read passes the lock check.
\* A read that had passed it gives its caller one secret at most.
THEOREM LostAdmitsNobody == Spec => NothingAdmittedOnceLost
<1>1. ServiceInv /\ [Next]_vars =>
        [phase # "starting" /\ ~ Known =>
            /\ ~ Known'
            /\ \A t \in Thread :
                /\ At(t, "read")' => At(t, "read")
                /\ \/ thread'[t].result \subseteq thread[t].result
                   \/ /\ At(t, "read") /\ ~ At(t, "read")'
                      /\ \E i \in Item : thread'[t].result = thread[t].result \cup {i}]_vars
    BY ServiceNextPreserves DEF Lost, LostMove
<1> QED BY ServiceInvariant, <1>1, PTL DEF Spec, NothingAdmittedOnceLost

----------------------------------------------------------------------------
(* The refinement of SecretRelease *)

Held == [t \in Thread |-> thread[t].result]

Admitted == {t \in Thread : At(t, "read")}

Same == UNCHANGED <<Window, approving, Admitted, Held>>

\* A goroutine's move is seen in where it is and in what it holds.
LEMMA GotoShows ==
    ASSUME TypesInv, NEW t \in Thread, NEW next, Goto(t, next)
    PROVE  /\ Held' = [Held EXCEPT ![t] = next.result]
           /\ Admitted' = IF next.pc = "read" THEN Admitted \cup {t} ELSE Admitted \ {t}
<1>1. thread' = [thread EXCEPT ![t] = next] /\ thread \in [Thread -> Goroutine]
    BY DEF TypesInv, ServiceTypeOK, Goto
<1>2. Held' = [Held EXCEPT ![t] = next.result]
    BY <1>1 DEF Held
<1>3. \A u \in Thread : thread'[u] = IF u = t THEN next ELSE thread[u]
    BY <1>1
<1>4. \A u \in Thread : u \in Admitted' <=> IF u = t THEN next.pc = "read" ELSE u \in Admitted
    BY <1>3 DEF Admitted, At
<1>5. Admitted' \subseteq Thread /\ Admitted \subseteq Thread
    BY DEF Admitted
<1>6. next.pc = "read" => Admitted' = Admitted \cup {t}
    BY <1>4, <1>5
<1>7. next.pc # "read" => Admitted' = Admitted \ {t}
    BY <1>4, <1>5
<1> QED BY <1>2, <1>6, <1>7

\* Nobody is seen to move when nobody does.
LEMMA NobodyShows ==
    ASSUME UNCHANGED thread
    PROVE  Held' = Held /\ Admitted' = Admitted
BY DEF Held, Admitted, At

\* Moving on, one that has not been admitted holds what it held.
LEMMA MoveShows ==
    ASSUME TypesInv, NEW t \in Thread, ~ At(t, "read"),
           \/ \E pc \in PC \ {"read"} : MoveTo(t, pc) \/ Settle(t, pc)
           \/ StartPolling(t)
           \/ UNCHANGED thread
    PROVE  Held' = Held /\ Admitted' = Admitted
<1>1. thread[t] \in Goroutine
    BY DEF TypesInv, ServiceTypeOK
<1>2. ASSUME NEW next, Goto(t, next), next.result = thread[t].result, next.pc # "read"
      PROVE  Held' = Held /\ Admitted' = Admitted
    BY <1>2, GotoShows DEF Held, Admitted
<1>3. ASSUME NEW pc \in PC \ {"read"}, MoveTo(t, pc)
      PROVE  Held' = Held /\ Admitted' = Admitted
    BY <1>1, <1>2, <1>3 DEF MoveTo, Goroutine
<1>4. ASSUME NEW pc \in PC \ {"read"}, Settle(t, pc)
      PROVE  Held' = Held /\ Admitted' = Admitted
    BY <1>1, <1>2, <1>4 DEF Settle, Goroutine
<1>5. CASE StartPolling(t)
    BY <1>1, <1>2, <1>5 DEF StartPolling, Goroutine
<1> QED BY <1>3, <1>4, <1>5, NobodyShows

\* One that is done, or begins anew, holds nothing.
LEMMA FinishStep ==
    ASSUME TypesInv, NEW t \in Thread,
           \/ \E items \in SUBSET Item : GetSecrets(t, items)
           \/ \E k \in Prompt : StartPrompt(t, k)
           \/ Return(t) \/ Complete(t)
    PROVE  Release!Finish(t)
<1>1. PICK next : Goto(t, next) /\ next.result = {} /\ next.pc # "read"
    <2>1. ASSUME NEW pc, NEW items
          PROVE  [Idle EXCEPT !.pc = pc, !.items = items].result = {}
                 /\ [Idle EXCEPT !.pc = pc, !.items = items].pc = pc
        BY DEF Idle
    <2>2. ASSUME NEW k
          PROVE  [Idle EXCEPT !.pc = "ask", !.prompt = k, !.left = PollTimeout].result = {}
                 /\ [Idle EXCEPT !.pc = "ask", !.prompt = k, !.left = PollTimeout].pc = "ask"
        BY DEF Idle
    <2>3. CASE \E items \in SUBSET Item : GetSecrets(t, items)
        <3>1. PICK items \in SUBSET Item, pc \in {"ask", "unlocked"} :
                Goto(t, [Idle EXCEPT !.pc = pc, !.items = items])
            BY <2>3 DEF GetSecrets
        <3> QED BY <2>1, <3>1
    <2>4. CASE \E k \in Prompt : StartPrompt(t, k)
        BY <2>2, <2>4 DEF StartPrompt
    <2>5. CASE Return(t) \/ Complete(t)
        BY <2>5, IdleOK DEF Return, Complete
    <2> QED BY <2>3, <2>4, <2>5
<1>2. ~ At(t, "read")
    BY DEF GetSecrets, StartPrompt, Return, Complete, At
<1>3. Held' = [Held EXCEPT ![t] = {}] /\ Admitted' = Admitted /\ t \notin Admitted
    BY <1>1, <1>2, GotoShows DEF Admitted
<1>4. Window' = Window
    BY WindowStays, AskKeepsWindow DEF GetSecrets, StartPrompt, Return, Complete, wcmVars
<1>5. approving' = approving
    BY DEF GetSecrets, StartPrompt, Return, Complete, wcmVars
<1> QED BY <1>3, <1>4, <1>5 DEF Release!Finish, Held, Admitted

\* Waiting for the session to unlock gives nobody anything.
LEMMA WaitStep ==
    ASSUME TypesInv, NEW t \in Thread,
           \/ RequestUnlock(t) \/ CreateRequest(t) \/ LoseUnlock(t)
           \/ Poll(t) \/ LosePoll(t) \/ GiveUp(t)
    PROVE  Same
<1>1. /\ ~ At(t, "read")
      /\ \/ \E pc \in PC \ {"read"} : MoveTo(t, pc) \/ Settle(t, pc)
         \/ StartPolling(t)
         \/ UNCHANGED thread
    BY DEF RequestUnlock, CreateRequest, LoseUnlock, Poll, LosePoll, GiveUp, At, PC
<1>2. Held' = Held /\ Admitted' = Admitted
    BY <1>1, MoveShows
<1>3. Window' = Window /\ approving' = approving
    BY WindowStays, AskKeepsWindow
    DEF RequestUnlock, CreateRequest, LoseUnlock, Poll, LosePoll, GiveUp, wcmVars
<1> QED BY <1>2, <1>3 DEF Same

\* A lock check that passes finds the session unlocked, before the lazy re-lock and
\* after it.
LEMMA AdmitStep ==
    ASSUME ServiceInv, NEW t \in Thread, CheckCredential(t)
    PROVE  Same \/ Release!Admit(t)
<1>1. /\ TypesInv /\ Window' = Window /\ approving' = approving
      /\ ~ At(t, "read") /\ thread[t] \in Goroutine
    BY AskKeepsWindow DEF CheckCredential, ServiceInv, TypesInv, ServiceTypeOK, At
<1>2. CASE Known /\ ~ Locked' /\ MoveTo(t, "read")
    <2>1. phase # "starting"
        BY <1>2 DEF ServiceInv, SessionInv
    <2>2. Window = "open"
        BY <1>1, <1>2, <2>1, AskFinds DEF CheckCredential
    <2> DEFINE next == [thread[t] EXCEPT !.pc = "read"]
    <2>3. Goto(t, next) /\ next.pc = "read" /\ next.result = thread[t].result
        BY <1>1, <1>2 DEF MoveTo, Goroutine
    <2> HIDE DEF next
    <2>4. Admitted' = Admitted \cup {t} /\ t \notin Admitted
        BY <1>1, <2>3, GotoShows DEF Admitted
    <2>5. Held' = Held
        BY <1>1, <2>3, GotoShows DEF Held
    <2> QED BY <1>1, <2>2, <2>4, <2>5 DEF Release!Admit, Held, Admitted
<1>3. ASSUME NEW i, Goto(t, [thread[t] EXCEPT !.items = @ \ {i}])
      PROVE  Same
    <2> DEFINE next == [thread[t] EXCEPT !.items = @ \ {i}]
    <2>1. Goto(t, next) /\ next.pc # "read" /\ next.result = thread[t].result
        BY <1>1, <1>3 DEF Goroutine, At
    <2> HIDE DEF next
    <2>2. Held' = Held /\ Admitted' = Admitted
        BY <1>1, <2>1, GotoShows DEF Held, Admitted
    <2> QED BY <1>1, <2>2 DEF Same
<1> QED BY <1>2, <1>3 DEF CheckCredential

\* The read that follows uses the admission up, whether it gives the secret or not.
LEMMA GiveStep ==
    ASSUME TypesInv, NEW t \in Thread, NEW i \in Item, ReadCredential(t, i)
    PROVE  Release!Give(t, i) \/ Release!Miss(t)
<1>1. /\ Window' = Window /\ approving' = approving
      /\ At(t, "read") /\ thread[t] \in Goroutine
    BY WindowStays DEF ReadCredential, TypesInv, ServiceTypeOK, wcmVars
<1>2. PICK got \in SUBSET {i} :
        Goto(t, [thread[t] EXCEPT !.pc = "unlocked", !.items = @ \ {i}, !.result = @ \cup got])
    BY DEF ReadCredential
<1> DEFINE next ==
        [thread[t] EXCEPT !.pc = "unlocked", !.items = @ \ {i}, !.result = @ \cup got]
<1>3. Goto(t, next) /\ next.pc # "read" /\ next.result = thread[t].result \cup got
    BY <1>1, <1>2 DEF Goroutine
<1> HIDE DEF next
<1>4. /\ Held' = [Held EXCEPT ![t] = @ \cup got]
      /\ Admitted' = Admitted \ {t} /\ t \in Admitted
    BY <1>1, <1>3, GotoShows DEF Held, Admitted
<1>5. CASE got = {i}
    BY <1>1, <1>4, <1>5 DEF Release!Give, Held, Admitted
<1>6. CASE got = {}
    <2>1. Held' = Held
        BY <1>4, <1>6 DEF Held
    <2> QED BY <1>1, <1>4, <2>1 DEF Release!Miss, Held, Admitted
<1> QED BY <1>5, <1>6

\* An approve handler uses its approval, whoever's session it unlocks.
LEMMA UseStep ==
    ASSUME ServiceInv, NEW id \in ApprovalID, UnlockSession(id)
    PROVE  Release!Use(id)
<1>1. LockTypeOK /\ ProxySession \in SessionID
    BY OwnerAssumption DEF ServiceInv, TypesInv, LockInv
<1>2. /\ id \in approving /\ approving' = approving \ {id}
      /\ Unlock(requests[id].user, requests[id].session)
      /\ UNCHANGED <<phase, thread>>
    BY DEF UnlockSession, proxyVars
<1>3. CASE ~ Known
    <2>1. ~ Known'
        BY <1>2, <1>3, UnknownStays DEF ServiceInv, QuietMove
    <2> QED BY <1>2, <1>3, <2>1 DEF Release!Use, Window, Held, Admitted, At
<1>4. CASE Known
    <2>1. Known'
        BY <1>1, <1>2, <1>4, UnlockedSessionOK, OwnerAssumption, NoSessionAssumption
        DEF Known, Owns, Unlock, UnlockedSession, LockTypeOK
    <2>2. phase # "starting"
        BY <1>4 DEF ServiceInv, SessionInv
    <2> QED BY <1>2, <1>4, <2>1, <2>2 DEF Release!Use, Window, Held, Admitted, At
<1> QED BY <1>3, <1>4

\* Time, and whoever locks the session, may shut the window.
LEMMA ShutStep ==
    ASSUME ServiceInv, AgeSessions \/ Lock(OwnerEmail, ProxySession),
           UNCHANGED <<approving, phase>>, Held' = Held, Admitted' = Admitted
    PROVE  Same \/ Release!Shut
<1>1. LockTypeOK /\ ProxySession \in SessionID /\ LockInv
    BY OwnerAssumption DEF ServiceInv, TypesInv, LockInv
<1>2. Known' <=> Known
    <2>1. CASE Lock(OwnerEmail, ProxySession)
        BY <1>1, <2>1, LockedSessionOK, OwnerAssumption, NoSessionAssumption
        DEF Lock, LockedSession, Known, Owns, LockTypeOK
    <2>2. CASE AgeSessions /\ sessions[ProxySession] # NoSession
        <3>1. sessions[ProxySession] \in Session
            BY <1>1, <2>2 DEF LockTypeOK
        <3>2. sessions'[ProxySession] = [sessions[ProxySession] EXCEPT !.expires = Aged(@)]
            BY <1>1, <2>2 DEF AgeSessions
        <3>3. sessions'[ProxySession].user = sessions[ProxySession].user
            BY <3>1, <3>2 DEF Session
        <3>4. sessions'[ProxySession] # NoSession
            <4>1. Aged(sessions[ProxySession].expires) \in Int \cup {NoTime}
                BY <3>1, AgedInstant DEF Session, Aged
            <4>2. sessions'[ProxySession] \in Session
                BY <3>1, <3>2, <4>1 DEF Session
            <4> QED BY <4>2, NoSessionAssumption
        <3> QED BY <2>2, <3>3, <3>4 DEF Known, Owns
    <2>3. CASE AgeSessions /\ sessions[ProxySession] = NoSession
        BY <1>1, <2>3 DEF AgeSessions, Known, Owns
    <2> QED BY <2>1, <2>2, <2>3
<1>3. UnlockedNow(ProxySession)' => UnlockedNow(ProxySession)
    BY <1>1, OnlyUnlockExtends, OwnerAssumption DEF ExtendsNothing
<1>4. Window' = Window \/ (Window = "open" /\ Window' = "shut")
    BY <1>2, <1>3 DEF Window
<1> QED BY <1>4 DEF Same, Release!Shut, Held, Admitted

\* The WCM forgets everything, and the goroutines keep what they hold.
LEMMA ForgetStep ==
    ASSUME TypesInv, RestartWCM
    PROVE  Release!Forget
<1>1. ASSUME NEW t \in Thread
      PROVE  /\ thread'[t].result = thread[t].result
             /\ thread'[t].pc = "read" <=> thread[t].pc = "read"
    <2> DEFINE cut == [thread[t] EXCEPT !.pc = "refused", !.left = 0]
    <2>1. cut.result = thread[t].result /\ cut.pc = "refused"
        BY DEF TypesInv, ServiceTypeOK, Goroutine
    <2>2. thread'[t] = IF At(t, "create") THEN cut ELSE thread[t]
        BY DEF RestartWCM
    <2> HIDE DEF cut
    <2> QED BY <2>1, <2>2 DEF At
<1>2. Held' = Held /\ Admitted' = Admitted
    BY <1>1 DEF Held, Admitted, At
<1>3. ~ Known' /\ phase' = phase /\ approving' = {}
    BY OwnerAssumption DEF RestartWCM, Known, Owns
<1>4. Window' = IF Window = "none" THEN "none" ELSE "lost"
    BY <1>3 DEF Window
<1> QED BY <1>2, <1>3, <1>4 DEF Release!Forget, Held, Admitted

\* main().
LEMMA MainStep ==
    ASSUME ServiceInv, Main
    PROVE  Same \/ Release!Begin \/ Release!Lose \/ Release!FinishAll
<1>1. LockTypeOK /\ ProxySession \in SessionID /\ approving' = approving
    BY OwnerAssumption DEF ServiceInv, TypesInv, LockInv, Main, Start, FailToStart, Shutdown, Exit
<1>2. Register(OwnerEmail, ProxySession) => Known' /\ ~ UnlockedNow(ProxySession)'
    BY <1>1, LockedSessionOK, OwnerAssumption, NoSessionAssumption
    DEF Register, LockedSession, Known, Owns, UnlockedNow, LockTypeOK
<1>3. CASE (Start \/ FailToStart) /\ Register(OwnerEmail, ProxySession)
    <2>1. Window = "none" /\ Window' = "shut" /\ UNCHANGED thread
        BY <1>2, <1>3 DEF Start, FailToStart, Window
    <2> QED BY <1>1, <2>1 DEF Release!Begin, Held, Admitted, At
<1>4. CASE FailToStart /\ UNCHANGED sessions
    <2>1. ~ Known /\ ~ Known'
        BY <1>4 DEF FailToStart, ServiceInv, SessionInv, Known, Owns
    <2>2. Window' = "lost" /\ UNCHANGED thread
        BY <1>4, <2>1 DEF FailToStart, Window
    <2> QED BY <1>1, <2>2 DEF Release!Lose, Held, Admitted, At
<1>5. CASE Shutdown /\ Unregister(OwnerEmail, ProxySession)
    <2>1. Window' = "lost" /\ UNCHANGED thread
        BY <1>1, <1>5 DEF Shutdown, Unregister, Window, Known, Owns, LockTypeOK
    <2> QED BY <1>1, <2>1 DEF Release!Lose, Held, Admitted, At
<1>6. CASE Shutdown /\ UNCHANGED sessions
    <2>1. Window' = Window /\ UNCHANGED thread
        BY <1>6 DEF Shutdown, Window, Known, Owns, UnlockedNow, WindowPassed, Passed
    <2> QED BY <1>1, <2>1, NobodyShows DEF Same
<1>7. CASE Exit
    <2>1. Window' = Window
        BY <1>7 DEF Exit, Window, Known, Owns, UnlockedNow, WindowPassed, Passed
    <2>2. Held' = [t \in Thread |-> {}] /\ Admitted' = {}
        BY <1>7, IdleOK DEF Exit, Held, Admitted, At
    <2> QED BY <1>1, <2>1, <2>2 DEF Release!FinishAll, Held, Admitted
<1> QED BY <1>3, <1>4, <1>5, <1>6, <1>7 DEF Main, Start, FailToStart, Shutdown

LEMMA EveryStepIsARelease ==
    ASSUME ServiceInv, [Next]_vars
    PROVE  Same \/ Release!Next
<1>1. TypesInv
    BY DEF ServiceInv
<1>2. ASSUME UNCHANGED <<sessions, phase, thread, approving>>
      PROVE  Same
    BY <1>2, WindowStays, NobodyShows DEF Same
<1>3. CASE Arrival
    <2>1. CASE \E t \in Thread :
                \/ \E items \in SUBSET Item \ {{}} : GetSecrets(t, items)
                \/ \E k \in Prompt : StartPrompt(t, k)
        BY <1>1, <2>1, FinishStep DEF Release!Next
    <2>2. CASE \E k \in Prompt : ServiceUnlock(k) \/ Dismiss(k)
        BY <1>2, <2>2 DEF ServiceUnlock, Dismiss, wcmVars
    <2>3. CASE ForceLock
        BY <2>3, ShutStep, NobodyShows DEF ForceLock, proxyVars, Release!Next
    <2> QED BY <1>3, <2>1, <2>2, <2>3 DEF Arrival
<1>4. ASSUME NEW t \in Thread, Continue(t)
      PROVE  Same \/ Release!Next
    BY <1>1, <1>4, FinishStep, WaitStep, AdmitStep, GiveStep DEF Continue, Release!Next
<1>5. CASE Main
    BY <1>5, MainStep DEF Release!Next
<1>6. CASE WCM
    <2>1. ASSUME NEW id \in ApprovalID, ApproveRequest(id)
          PROVE  Same \/ Release!Approve(id)
        <3>1. CASE Resolvable(id)
            <4>1. id \notin approving /\ approving' = approving \cup {id}
                BY <2>1, <3>1 DEF ApproveRequest, Resolvable, ServiceInv, SessionInv
            <4>2. Window' = Window /\ Held' = Held /\ Admitted' = Admitted
                BY <2>1, WindowStays, NobodyShows DEF ApproveRequest, proxyVars
            <4> QED BY <4>1, <4>2 DEF Release!Approve, Held, Admitted
        <3>2. CASE ~ Resolvable(id)
            BY <1>2, <2>1, <3>2 DEF ApproveRequest, proxyVars
        <3> QED BY <3>1, <3>2
    <2>2. CASE \/ \E id \in ApprovalID : DenyRequest(id)
               \/ \E t \in Thread : FinishOrphan(t)
               \/ Sweep
        BY <1>2, <2>2 DEF DenyRequest, FinishOrphan, Sweep, proxyVars
    <2> QED BY <1>1, <1>6, <2>1, <2>2, UseStep, ForgetStep DEF WCM, Release!Next
<1>7. CASE Tick
    <2>1. ASSUME NEW t \in Thread
          PROVE  thread'[t].result = thread[t].result /\ thread'[t].pc = thread[t].pc
        BY <1>1, <1>7 DEF Tick, TypesInv, ServiceTypeOK, Goroutine
    <2>2. Held' = Held /\ Admitted' = Admitted
        BY <2>1 DEF Held, Admitted, At
    <2> QED BY <1>7, <2>2, ShutStep DEF Tick, Release!Next
<1>8. CASE UNCHANGED vars \/ \E k \in Prompt : Unexport(k)
    BY <1>2, <1>8 DEF vars, Unexport, wcmVars
<1> QED BY <1>3, <1>4, <1>5, <1>6, <1>7, <1>8 DEF Next, Step

\* The proxy and the WCM implement the window: each secret is given by a read whose lock
\* check found it open, for any users, goroutines, prompts, items and time-outs, and any
\* number of restarts.
THEOREM ServiceImplementsRelease == Spec => ReleaseSpec
<1>1. Init => Release!Init
    <2> SUFFICES ASSUME Init PROVE Release!Init
        OBVIOUS
    <2>1. Held = [t \in Thread |-> {}] /\ Admitted = {}
        BY IdleOK DEF Init, Held, Admitted, At
    <2> QED BY <2>1 DEF Init, Window, Release!Init, Held, Admitted
<1>2. ServiceInv /\ [Next]_vars => [Release!Next]_Release!vars
    BY EveryStepIsARelease DEF Same, Release!vars, Held, Admitted
<1> QED
    BY ServiceInvariant, <1>1, <1>2, PTL DEF Spec, ReleaseSpec, Release!Spec

----------------------------------------------------------------------------
(* Prompts.  That a prompt is answered in the end is a liveness property    *)
(* and left to the model checker.  What is proved is that nothing on the    *)
(* way gives it up: its goroutine keeps it, with a deadline that is not put  *)
(* off, until it has emitted the answer or the process ends.                *)

PromptKept(t) ==
    IsPrompt(t) =>
        \/ thread'[t].prompt = thread[t].prompt /\ thread'[t].left <= thread[t].left
        \/ ~ IsPrompt(t)' /\ \E signal \in signals' : signal.prompt = thread[t].prompt
        \/ phase' = "stopped"

\* No goroutine of a prompt ends without a Completed, or waits longer than Prompt said.
PromptsPursued == [][\A t \in Thread : PromptKept(t)]_vars

\* Prompts are created once, before anything else happens to them.
PromptInv ==
    /\ \A t \in Thread : IsPrompt(t) => ~ At(t, "idle") /\ thread[t].prompt \in created
    /\ Answered \subseteq created

\* A goroutine that goes on with what it does.
GoesOn(t) ==
    /\ thread'[t].prompt = thread[t].prompt
    /\ IsPrompt(t) => thread'[t].left <= thread[t].left /\ (At(t, "idle")' => At(t, "idle"))

LEMMA AllGoOn ==
    ASSUME PromptInv, \A t \in Thread : GoesOn(t), UNCHANGED <<created, signals>>
    PROVE  PromptInv' /\ \A t \in Thread : PromptKept(t)
BY DEF PromptInv, Answered, GoesOn, PromptKept, IsPrompt, At

\* Of the goroutines, one moves.
LEMMA OneGoesOn ==
    ASSUME TypesInv, PromptInv, UNCHANGED <<created, signals>>,
           NEW t \in Thread, NEW next, Goto(t, next),
           next.prompt = thread[t].prompt,
           IsPrompt(t) => next.left <= thread[t].left /\ next.pc # "idle"
    PROVE  PromptInv' /\ \A u \in Thread : PromptKept(u)
<1>1. thread \in [Thread -> Goroutine]
    BY DEF TypesInv, ServiceTypeOK
<1>2. \A u \in Thread \ {t} : thread'[u] = thread[u] /\ thread[u].left <= thread[u].left
    BY <1>1 DEF Goto, Goroutine
<1>3. thread'[t] = next
    BY <1>1 DEF Goto
<1>4. \A u \in Thread : GoesOn(u)
    BY <1>2, <1>3 DEF GoesOn, At
<1> QED BY <1>4, AllGoOn

LEMMA ContinueKeepsPrompt ==
    ASSUME TypesInv, PromptInv, NEW t \in Thread, Continue(t), ~ Complete(t)
    PROVE  PromptInv' /\ \A u \in Thread : PromptKept(u)
<1> DEFINE g == thread[t]
<1>1. /\ g \in Goroutine /\ g.left \in Nat /\ 0 <= g.left /\ g.left <= g.left
      /\ \A u \in Thread : thread[u] \in Goroutine
    BY PollAssumption DEF TypesInv, ServiceTypeOK, Goroutine
<1>2. UNCHANGED <<created, signals>>
    BY DEF Continue, RequestUnlock, CreateRequest, LoseUnlock, Poll, LosePoll, GiveUp,
        CheckCredential, ReadCredential, Return
<1>3. CASE UNCHANGED thread
    BY <1>1, <1>2, <1>3, AllGoOn DEF GoesOn, At, Goroutine
<1>4. ASSUME NEW pc \in PC \ {"idle"}, Settle(t, pc) \/ MoveTo(t, pc)
      PROVE  PromptInv' /\ \A u \in Thread : PromptKept(u)
    <2>1. PICK next : /\ Goto(t, next) /\ next.prompt = g.prompt
                      /\ next.left <= g.left /\ next.pc # "idle"
        <3>1. CASE Settle(t, pc)
            <4>1. [g EXCEPT !.pc = pc, !.left = 0].prompt = g.prompt
                BY <1>1 DEF Goroutine
            <4>2. [g EXCEPT !.pc = pc, !.left = 0].left = 0 /\ [g EXCEPT !.pc = pc, !.left = 0].pc = pc
                BY <1>1 DEF Goroutine
            <4> QED BY <1>1, <1>4, <3>1, <4>1, <4>2 DEF Settle
        <3>2. CASE MoveTo(t, pc)
            <4>1. /\ [g EXCEPT !.pc = pc].prompt = g.prompt
                  /\ [g EXCEPT !.pc = pc].left = g.left /\ [g EXCEPT !.pc = pc].pc = pc
                BY <1>1 DEF Goroutine
            <4> QED BY <1>1, <1>4, <3>2, <4>1 DEF MoveTo
        <3> QED BY <1>4, <3>1, <3>2
    <2> QED BY <1>2, <2>1, OneGoesOn
<1>5. ASSUME StartPolling(t)
      PROVE  PromptInv' /\ \A u \in Thread : PromptKept(u)
    <2> DEFINE next == [g EXCEPT !.pc = "poll", !.left = IF IsPrompt(t) THEN @ ELSE PollTimeout]
    <2>1. /\ next.prompt = g.prompt /\ next.pc = "poll"
          /\ IsPrompt(t) => next.left = g.left
        BY <1>1 DEF Goroutine
    <2>2. Goto(t, next)
        BY <1>5 DEF StartPolling
    <2> HIDE DEF next
    <2> QED BY <1>1, <1>2, <2>1, <2>2, OneGoesOn
<1>6. ASSUME NEW next, Goto(t, next), ~ IsPrompt(t), next.prompt = g.prompt
      PROVE  PromptInv' /\ \A u \in Thread : PromptKept(u)
    BY <1>2, <1>6, OneGoesOn
<1>7. ASSUME CheckCredential(t) \/ \E i \in Item : ReadCredential(t, i)
      PROVE  PromptInv' /\ \A u \in Thread : PromptKept(u)
    <2>1. PICK next : /\ Goto(t, next) /\ next.prompt = g.prompt
                      /\ next.left = g.left /\ next.pc # "idle"
        <3>1. CASE CheckCredential(t)
            <4>1. CASE MoveTo(t, "read")
                <5>1. /\ [g EXCEPT !.pc = "read"].prompt = g.prompt
                      /\ [g EXCEPT !.pc = "read"].left = g.left
                      /\ [g EXCEPT !.pc = "read"].pc = "read"
                    BY <1>1 DEF Goroutine
                <5> QED BY <4>1, <5>1 DEF MoveTo
            <4>2. ASSUME NEW i, Goto(t, [g EXCEPT !.items = @ \ {i}])
                  PROVE  \E next : /\ Goto(t, next) /\ next.prompt = g.prompt
                                   /\ next.left = g.left /\ next.pc # "idle"
                <5>1. /\ [g EXCEPT !.items = @ \ {i}].prompt = g.prompt
                      /\ [g EXCEPT !.items = @ \ {i}].left = g.left
                      /\ [g EXCEPT !.items = @ \ {i}].pc = "unlocked"
                    BY <1>1, <3>1 DEF CheckCredential, At, Goroutine
                <5> QED BY <4>2, <5>1
            <4> QED BY <3>1, <4>1, <4>2 DEF CheckCredential
        <3>2. ASSUME NEW i \in Item, ReadCredential(t, i)
              PROVE  \E next : /\ Goto(t, next) /\ next.prompt = g.prompt
                               /\ next.left = g.left /\ next.pc # "idle"
            <4>1. PICK got \in SUBSET {i} :
                    Goto(t, [g EXCEPT !.pc = "unlocked", !.items = @ \ {i}, !.result = @ \cup got])
                BY <3>2 DEF ReadCredential
            <4> DEFINE after ==
                    [g EXCEPT !.pc = "unlocked", !.items = @ \ {i}, !.result = @ \cup got]
            <4>2. after.prompt = g.prompt /\ after.left = g.left /\ after.pc = "unlocked"
                BY <1>1 DEF Goroutine
            <4>3. Goto(t, after)
                BY <4>1
            <4> HIDE DEF after
            <4> QED BY <4>2, <4>3
        <3> QED BY <1>7, <3>1, <3>2
    <2> QED BY <1>1, <1>2, <2>1, OneGoesOn
<1>8. CASE Return(t)
    BY <1>6, <1>8 DEF Return, Idle, IsPrompt
<1> QED
    BY <1>3, <1>4, <1>5, <1>7, <1>8
    DEF Continue, RequestUnlock, CreateRequest, LoseUnlock, Poll, LosePoll, GiveUp, PC

\* A Completed is emitted: by the goroutine, which ends, or by Dismiss.
LEMMA AnswerKeepsPrompt ==
    ASSUME TypesInv, PromptInv,
           (\E t \in Thread : Complete(t)) \/ (\E k \in Prompt : Dismiss(k))
    PROVE  PromptInv' /\ \A t \in Thread : PromptKept(t)
<1>1. PICK k \in created : \E dismissed \in BOOLEAN : EmitCompleted(k, dismissed)
    <2>1. ASSUME NEW t \in Thread, Complete(t)
          PROVE  /\ thread[t].prompt \in created /\ At(t, "refused") \in BOOLEAN
                 /\ EmitCompleted(thread[t].prompt, At(t, "refused"))
        BY <2>1 DEF Complete, PromptInv, At
    <2>2. ASSUME NEW k \in Prompt, Dismiss(k)
          PROVE  k \in created /\ EmitCompleted(k, TRUE)
        BY <2>2 DEF Dismiss, TypesInv, ServiceTypeOK
    <2> QED BY <2>1, <2>2
<1>2. PICK dismissed \in BOOLEAN : EmitCompleted(k, dismissed)
    BY <1>1
<1> DEFINE answer == [prompt |-> k, dismissed |-> dismissed]
<1>3. /\ answer.prompt = k
      /\ signals' = signals \cup {answer} /\ created' = created
    BY <1>2 DEF EmitCompleted, Complete, Dismiss
<1> HIDE DEF answer
<1>4. Answered' \subseteq created'
    BY <1>3 DEF PromptInv, Answered
<1>5. ASSUME NEW t \in Thread, Complete(t)
      PROVE  PromptInv' /\ \A u \in Thread : PromptKept(u)
    <2>1. /\ thread'[t] = Idle
          /\ \A u \in Thread \ {t} : thread'[u] = thread[u] /\ thread[u].left <= thread[u].left
        BY <1>5, PollAssumption DEF Complete, Goto, TypesInv, ServiceTypeOK, Goroutine
    <2>2. \E signal \in signals' : signal.prompt = thread[t].prompt
        <3> DEFINE own == [prompt |-> thread[t].prompt, dismissed |-> At(t, "refused")]
        <3>1. own \in signals' /\ own.prompt = thread[t].prompt
            BY <1>5 DEF Complete, EmitCompleted
        <3> HIDE DEF own
        <3> QED BY <3>1
    <2>3. \A u \in Thread : PromptKept(u)
        BY <2>1, <2>2 DEF PromptKept, IsPrompt, Idle
    <2> QED BY <1>3, <1>4, <2>1, <2>3 DEF PromptInv, Answered, IsPrompt, At, Idle
<1>6. ASSUME UNCHANGED thread
      PROVE  PromptInv' /\ \A u \in Thread : PromptKept(u)
    <2>1. \A u \in Thread : thread'[u] = thread[u] /\ thread[u].left <= thread[u].left
        BY <1>6, PollAssumption DEF TypesInv, ServiceTypeOK, Goroutine
    <2> QED BY <1>3, <1>4, <2>1 DEF PromptInv, Answered, PromptKept, IsPrompt, At
<1> QED BY <1>5, <1>6 DEF Dismiss

LEMMA StepsKeepPrompts ==
    ASSUME TypesInv, PromptInv, [Next]_vars
    PROVE  PromptInv' /\ \A t \in Thread : PromptKept(t)
<1>1. thread \in [Thread -> Goroutine] /\ \A t \in Thread : thread[t].left \in Nat
    BY PollAssumption DEF TypesInv, ServiceTypeOK, Goroutine
<1>2. CASE UNCHANGED <<thread, created, signals>>
    BY <1>1, <1>2, AllGoOn DEF GoesOn, At
<1>3. ASSUME NEW t \in Thread, NEW items, GetSecrets(t, items)
      PROVE  PromptInv' /\ \A u \in Thread : PromptKept(u)
    <2>1. ~ IsPrompt(t)
        BY <1>3 DEF GetSecrets, PromptInv
    <2>2. PICK pc : Goto(t, [Idle EXCEPT !.pc = pc, !.items = items])
        BY <1>3 DEF GetSecrets
    <2>3. [Idle EXCEPT !.pc = pc, !.items = items].prompt = thread[t].prompt
        BY <2>1 DEF Idle, IsPrompt
    <2> QED BY <1>3, <2>1, <2>2, <2>3, OneGoesOn DEF GetSecrets
<1>4. ASSUME NEW t \in Thread, NEW k \in Prompt, StartPrompt(t, k)
      PROVE  PromptInv' /\ \A u \in Thread : PromptKept(u)
    <2>1. ~ IsPrompt(t) /\ k \in created /\ UNCHANGED <<created, signals>>
        BY <1>4 DEF StartPrompt, PromptInv, TypesInv, ServiceTypeOK
    <2>2. /\ thread'[t].pc = "ask" /\ thread'[t].prompt = k
          /\ \A u \in Thread \ {t} : thread'[u] = thread[u]
        BY <1>1, <1>4 DEF StartPrompt, Goto, Idle
    <2>3. \A u \in Thread : PromptKept(u)
        BY <1>1, <2>1, <2>2 DEF PromptKept
    <2> QED BY <2>1, <2>2, <2>3 DEF PromptInv, Answered, IsPrompt, At
<1>5. ASSUME NEW k \in Prompt, ServiceUnlock(k)
      PROVE  PromptInv' /\ \A u \in Thread : PromptKept(u)
    BY <1>1, <1>5 DEF ServiceUnlock, PromptInv, Answered, PromptKept, IsPrompt, At
<1>6. CASE Exit
    BY <1>6 DEF Exit, PromptInv, Answered, PromptKept, IsPrompt, At, Idle
<1>7. CASE RestartWCM
    <2>1. ASSUME NEW t \in Thread PROVE GoesOn(t)
        <3> DEFINE cut == [thread[t] EXCEPT !.pc = "refused", !.left = 0]
        <3>1. cut.prompt = thread[t].prompt /\ cut.left = 0 /\ cut.pc = "refused"
            BY <1>1, <2>1 DEF Goroutine
        <3>2. thread'[t] = IF At(t, "create") THEN cut ELSE thread[t]
            BY <1>7, <2>1 DEF RestartWCM
        <3> HIDE DEF cut
        <3> QED BY <1>1, <2>1, <3>1, <3>2 DEF GoesOn, At
    <2> QED BY <1>7, <2>1, AllGoOn DEF RestartWCM
<1>8. CASE Tick
    <2>1. ASSUME NEW t \in Thread PROVE GoesOn(t)
        <3> DEFINE later == [thread[t] EXCEPT !.left = IF @ > 0 THEN @ - 1 ELSE 0]
        <3>1. /\ later.prompt = thread[t].prompt /\ later.left <= thread[t].left
              /\ later.pc = thread[t].pc
            BY <1>1, <2>1 DEF Goroutine
        <3>2. thread'[t] = later
            BY <1>8, <2>1 DEF Tick
        <3> HIDE DEF later
        <3> QED BY <1>1, <2>1, <3>1, <3>2 DEF GoesOn, At
    <2> QED BY <1>8, <2>1, AllGoOn DEF Tick
<1>9. CASE Arrival
    BY <1>2, <1>3, <1>4, <1>5, <1>9, AnswerKeepsPrompt DEF Arrival, ForceLock, proxyVars
<1>10. CASE Main
    BY <1>2, <1>6, <1>10 DEF Main, Start, FailToStart, Shutdown
<1>11. CASE WCM
    BY <1>2, <1>7, <1>11 DEF WCM, ApproveRequest, UnlockSession, DenyRequest, FinishOrphan,
        Sweep, proxyVars
<1> QED
    BY <1>2, <1>8, <1>9, <1>10, <1>11, ContinueKeepsPrompt, AnswerKeepsPrompt
    DEF Next, Step, Unexport, wcmVars, vars

LEMMA PromptInvHolds == Spec => []PromptInv
<1>1. Init => PromptInv
    BY DEF Init, PromptInv, Answered, IsPrompt, Idle
<1>2. ServiceInv /\ PromptInv /\ [Next]_vars => PromptInv'
    BY StepsKeepPrompts DEF ServiceInv
<1> QED BY ServiceInvariant, <1>1, <1>2, PTL DEF Spec

\* A started prompt is kept by its goroutine until it has been answered or the proxy has
\* ended, and its deadline is the one Prompt gave it, also when it begins to poll: the
\* safe half of PromptsComplete.
THEOREM PromptsArePursued == Spec => PromptsPursued
<1>1. ServiceInv /\ PromptInv /\ [Next]_vars => [\A t \in Thread : PromptKept(t)]_vars
    BY StepsKeepPrompts DEF ServiceInv
<1> QED BY ServiceInvariant, PromptInvHolds, <1>1, PTL DEF Spec, PromptsPursued

=============================================================================
