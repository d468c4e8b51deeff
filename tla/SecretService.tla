--------------------------- MODULE SecretService ---------------------------
(***************************************************************************)
(* How the D-Bus proxy gets at secrets that are locked: Service.Unlock,   *)
(* Lock and GetSecrets, Item.GetSecret, the Prompt objects and the life   *)
(* of the proxy (proxy/internal/dbus, proxy/internal/client and           *)
(* proxy/cmd/proxy/main.go), against the lock and approval managers of a  *)
(* WCM that a person uses and that may restart.                            *)
(*                                                                         *)
(* Each D-Bus call and each started prompt is a goroutine, in thread[t].   *)
(* It talks to the WCM by HTTP requests that may get lost, and anything    *)
(* may happen between two of them.                                         *)
(***************************************************************************)
EXTENDS LockManager, ApprovalManager

CONSTANTS
    OwnerEmail,     \* OWNER_EMAIL, the user whose proxy this is
    ProxySession,   \* the uuid the proxy drew for its session
    Thread,         \* goroutines of the proxy that may be under way at once
    Prompt,         \* the prompt objects Unlock may come to create
    NoPrompt,       \* the prompt of a goroutine that serves a D-Bus call
    Item,           \* the items a GetSecrets may name
    PollTimeout     \* WCM_APPROVAL_TIMEOUT of the proxy; below zero is as zero

ASSUME OwnerAssumption  == OwnerEmail \in UserID /\ ProxySession \in SessionID
ASSUME PromptAssumption == NoPrompt \notin Prompt
ASSUME PollAssumption   == PollTimeout \in Nat

VARIABLES
    phase,          \* where main() is
    thread,         \* where each goroutine is, with its local variables
    exported,       \* the prompts that are objects on the bus
    created,        \* the prompts that have been created: promptID repeats none
    approving,      \* WCM: requests whose approve handler has yet to call Unlock
    orphans,        \* WCM: unlock handlers whose client, a goroutine, has given up
    signals,        \* the Completed signals that were emitted
    granted,        \* history: the requests a person has approved
    openFor         \* history: the prompts that were running while the session was
                    \* unlocked, or lost

wcmVars   == <<sessions, requests, approving>>
proxyVars == <<phase, thread, exported, created, orphans, signals>>
state     == <<sessions, requests, approving, phase, thread, exported, created, orphans, signals, granted>>
vars      == <<sessions, requests, approving, phase, thread, exported, created, orphans, signals, granted, openFor>>

----------------------------------------------------------------------------
(* Goroutines *)

Phase == {"starting", "serving", "leaving", "stopped"}
PC    == {"idle", "ask", "create", "poll", "unlocked", "read", "refused"}

\* left: the time to the deadline of its context, 0 before there is one and after.
\* items: what GetSecrets has yet to ask for; result: the items whose secrets it has got.
Goroutine ==
    [pc : PC, prompt : Prompt \cup {NoPrompt}, left : 0 .. PollTimeout,
     items : SUBSET Item, result : SUBSET Item]

Idle == [pc |-> "idle", prompt |-> NoPrompt, left |-> 0, items |-> {}, result |-> {}]

At(t, pc)     == thread[t].pc = pc
Goto(t, next) == thread' = [thread EXCEPT ![t] = next]
MoveTo(t, pc) == Goto(t, [thread[t] EXCEPT !.pc = pc])

\* Out of the polling, or of the requests before it: the context is cancelled.
Settle(t, pc) == Goto(t, [thread[t] EXCEPT !.pc = pc, !.left = 0])

IsPrompt(t) == thread[t].prompt # NoPrompt

\* Past ensureUnlocked, or past the polling of a prompt.
GoneOn(t) == At(t, "unlocked") \/ At(t, "read")

\* The bus dispatches calls from Export to the end of main().
Up == phase \in {"serving", "leaving"}

\* What a request about the proxy's session finds, after the WCM's lazy re-lock.
Known  == Owns(OwnerEmail, ProxySession)
Locked == Known /\ sessions[ProxySession].locked

\* Mutation: a session that is not known is registered there and then.
Ask_Registers ==
    IF Known THEN GetSession(OwnerEmail, ProxySession) ELSE Register(OwnerEmail, ProxySession)

Ask == GetSession(OwnerEmail, ProxySession)

\* What CheckLock makes of the answer: the body of a 404 decodes to a session that is
\* not locked.
SeenLocked == Locked'

----------------------------------------------------------------------------
(* The life of the proxy: main() *)

\* RegisterSession and Export.
Start ==
    /\ phase = "starting"
    /\ Register(OwnerEmail, ProxySession)
    /\ phase' = "serving"
    /\ UNCHANGED <<requests, approving, thread, exported, created, orphans, signals, granted>>

\* log.Fatal: the WCM does not answer, or the bus name is taken.
FailToStart ==
    /\ phase = "starting"
    /\ Register(OwnerEmail, ProxySession) \/ UNCHANGED sessions
    /\ phase' = "stopped"
    /\ UNCHANGED <<requests, approving, thread, exported, created, orphans, signals, granted>>

\* A signal arrives, and UnregisterSession is sent while the bus goes on dispatching.
\* Its result is only logged.
Shutdown ==
    /\ phase = "serving"
    /\ Unregister(OwnerEmail, ProxySession) \/ UNCHANGED sessions
    /\ phase' = "leaving"
    /\ UNCHANGED <<requests, approving, thread, exported, created, orphans, signals, granted>>

\* The unlock handlers whose clients are gone.  Bound of the model: none is added while
\* there is one; what it would do, a goroutine's own request does too.
Orphaned(clients) == IF orphans = {} THEN clients ELSE orphans

\* main returns, and with it every goroutine and every object on the bus.
Exit ==
    /\ phase = "leaving"
    /\ phase' = "stopped"
    /\ thread' = [t \in Thread |-> Idle]
    /\ orphans' = Orphaned({t \in Thread : At(t, "create")})
    /\ exported' = {}
    /\ UNCHANGED <<sessions, requests, approving, created, signals, granted>>

----------------------------------------------------------------------------
(* The requests of a goroutine to the WCM *)

\* GetSecrets and GetSecret begin with ensureUnlocked, and that with CheckLock.  A
\* CheckLock that fails ends the call before it began.
GetSecrets(t, items) ==
    /\ Up /\ At(t, "idle")
    /\ Ask
    /\ Goto(t, [Idle EXCEPT !.pc = IF SeenLocked THEN "ask" ELSE "unlocked", !.items = items])
    /\ UNCHANGED <<requests, approving, phase, exported, created, orphans, signals, granted>>

\* Mutation: polling gets a time-out of its own on top of the prompt's.
StartPolling_AddsTimeout(t) ==
    Goto(t, [thread[t] EXCEPT !.pc = "poll", !.left = @ + PollTimeout])

\* The goroutine's polling deadline: a prompt's began with the Prompt call.
StartPolling(t) ==
    Goto(t, [thread[t] EXCEPT !.pc = "poll", !.left = IF IsPrompt(t) THEN @ ELSE PollTimeout])

\* POST unlock, the lock check: 404 is an error, 200 goes on to poll.
RequestUnlock(t) ==
    /\ At(t, "ask")
    /\ Ask
    /\ \/ ~ Known /\ Settle(t, "refused")
       \/ Locked' /\ MoveTo(t, "create")
       \/ Known /\ ~ Locked' /\ StartPolling(t)
    /\ UNCHANGED <<requests, approving, phase, exported, created, orphans, signals, granted>>

\* GetOrCreate.  Bound of the model: an unlock that needs an id when all are drawn
\* times out.
FindOrCreate ==
    \/ FindPending(OwnerEmail, ProxySession)
    \/ \E id \in ApprovalID : CreatePending(id, OwnerEmail, ProxySession)

\* 202 and 409 go on to poll.
CreateRequest(t) ==
    /\ At(t, "create")
    /\ FindOrCreate
    /\ StartPolling(t)
    /\ UNCHANGED <<sessions, approving, phase, exported, created, orphans, signals, granted>>

\* The request, or its answer, is lost; or 30 seconds, or the deadline, pass without
\* an answer.  The WCM's handler may be running still.
LoseUnlock(t) ==
    /\ At(t, "ask") \/ At(t, "create")
    /\ orphans' = IF At(t, "create") THEN Orphaned({t}) ELSE orphans
    /\ Settle(t, "refused")
    /\ UNCHANGED <<sessions, requests, approving, phase, exported, created, signals, granted>>

\* The ticker fires and CheckLock gets an answer before the deadline.
Poll(t) ==
    /\ At(t, "poll") /\ thread[t].left > 0
    /\ Ask
    /\ IF SeenLocked THEN UNCHANGED thread ELSE Settle(t, "unlocked")
    /\ UNCHANGED <<requests, approving, phase, exported, created, orphans, signals, granted>>

\* Mutation: an error is taken for the zero value, not locked.
LosePoll_Unlocked(t) ==
    /\ At(t, "poll")
    /\ Settle(t, "unlocked")
    /\ UNCHANGED <<wcmVars, phase, exported, created, orphans, signals, granted>>

\* CheckLock fails: the polling ends with its error.
LosePoll(t) ==
    /\ At(t, "poll")
    /\ Settle(t, "refused")
    /\ UNCHANGED <<wcmVars, phase, exported, created, orphans, signals, granted>>

\* Mutation: polling without a deadline.
GiveUp_Never(t) == FALSE /\ UNCHANGED vars

\* The deadline passes, whatever became of the approval request.
GiveUp(t) ==
    /\ At(t, "poll") /\ thread[t].left = 0
    /\ MoveTo(t, "refused")
    /\ UNCHANGED <<sessions, requests, approving, phase, exported, created, orphans, signals, granted>>

\* Mutation: the request carries no X-Session-Id.
CheckCredential_NoSession(t) ==
    /\ At(t, "unlocked") /\ ~ IsPrompt(t) /\ thread[t].items # {}
    /\ MoveTo(t, "read")
    /\ UNCHANGED <<wcmVars, phase, exported, created, orphans, signals, granted>>

\* An item of the caller's list is asked for, and the WCM checks the lock.  423, 404 of
\* the session and a lost request skip the item.
CheckCredential(t) ==
    /\ At(t, "unlocked") /\ ~ IsPrompt(t) /\ thread[t].items # {}
    /\ Ask
    /\ \/ Known /\ ~ Locked' /\ MoveTo(t, "read")
       \/ \E i \in thread[t].items : Goto(t, [thread[t] EXCEPT !.items = @ \ {i}])
    /\ UNCHANGED <<requests, approving, phase, exported, created, orphans, signals, granted>>

\* The handler reads the store, with the lock manager's mutex given up, and answers.
\* 404 of the item and a lost answer skip it.  An answer on its way outlives the WCM.
ReadCredential(t, i) ==
    /\ At(t, "read") /\ i \in thread[t].items
    /\ \E got \in SUBSET {i} :
        Goto(t, [thread[t] EXCEPT !.pc = "unlocked", !.items = @ \ {i}, !.result = @ \cup got])
    /\ UNCHANGED <<wcmVars, phase, exported, created, orphans, signals, granted>>

\* At the end of the list GetSecrets returns what it has got; or the error of
\* ensureUnlocked.
Return(t) ==
    /\ ~ IsPrompt(t)
    /\ At(t, "refused") \/ (At(t, "unlocked") /\ thread[t].items = {})
    /\ Goto(t, Idle)
    /\ UNCHANGED <<wcmVars, phase, exported, created, orphans, signals, granted>>

----------------------------------------------------------------------------
(* Prompts *)

\* Unlock, of a collection or an item: nothing is asked of the WCM.
ServiceUnlock(k) ==
    /\ Up /\ k \notin created
    /\ created' = created \cup {k}
    /\ exported' = exported \cup {k}
    /\ UNCHANGED <<wcmVars, phase, thread, orphans, signals, granted>>

\* Prompt returns at once and leaves a goroutine behind, with its deadline.
StartPrompt(t, k) ==
    /\ Up /\ k \in exported /\ At(t, "idle")
    /\ Goto(t, [Idle EXCEPT !.pc = "ask", !.prompt = k, !.left = PollTimeout])
    /\ UNCHANGED <<wcmVars, phase, exported, created, orphans, signals, granted>>

\* The signal only: whoever emits it takes the prompt off the bus afterwards.
EmitCompleted(k, dismissed) == signals' = signals \cup {[prompt |-> k, dismissed |-> dismissed]}

\* Mutation: the goroutine that failed just returns.
Complete_SilentOnError(t) ==
    /\ IsPrompt(t) /\ (At(t, "unlocked") \/ At(t, "refused"))
    /\ IF At(t, "refused") THEN UNCHANGED signals ELSE EmitCompleted(thread[t].prompt, FALSE)
    /\ Goto(t, Idle)
    /\ UNCHANGED <<wcmVars, phase, exported, created, orphans, granted>>

\* The goroutine is done but for emitCompleted's last lines, also when the prompt has
\* been dismissed meanwhile.
Complete(t) ==
    /\ IsPrompt(t) /\ (At(t, "unlocked") \/ At(t, "refused"))
    /\ EmitCompleted(thread[t].prompt, At(t, "refused"))
    /\ Goto(t, Idle)
    /\ UNCHANGED <<wcmVars, phase, exported, created, orphans, granted>>

\* The goroutines of the prompt are left running.
Dismiss(k) ==
    /\ Up /\ k \in exported
    /\ EmitCompleted(k, TRUE)
    /\ UNCHANGED <<wcmVars, phase, thread, exported, created, orphans, granted>>

Answered == {signal.prompt : signal \in signals}

\* The end of emitCompleted.  Up to here an answered prompt can be started and
\* dismissed; a second un-export of it changes nothing.
Unexport(k) ==
    /\ k \in exported \cap Answered
    /\ exported' = exported \ {k}
    /\ UNCHANGED <<wcmVars, phase, thread, created, orphans, signals, granted>>

----------------------------------------------------------------------------
(* The WCM, and the person in front of it *)

ApproveRequest(id) ==
    /\ Approve(id)
    /\ IF Resolvable(id)
       THEN approving' = approving \cup {id} /\ granted' = granted \cup {id}
       ELSE UNCHANGED <<approving, granted>>
    /\ UNCHANGED <<sessions, proxyVars>>

UnlockSession(id) ==
    /\ id \in approving
    /\ Unlock(requests[id].user, requests[id].session)
    /\ approving' = approving \ {id}
    /\ UNCHANGED <<requests, proxyVars, granted>>

DenyRequest(id) == Deny(id) /\ UNCHANGED <<sessions, approving, proxyVars, granted>>

\* Service.Lock, or a click on the page.
ForceLock ==
    /\ Lock(OwnerEmail, ProxySession)
    /\ UNCHANGED <<requests, approving, proxyVars, granted>>

Sweep == ExpireOld /\ UNCHANGED <<sessions, approving, proxyVars, granted>>

\* An unlock handler that has lost its client goes on.
FinishOrphan(t) ==
    /\ t \in orphans
    /\ orphans' = orphans \ {t}
    /\ FindOrCreate
    /\ UNCHANGED <<sessions, approving, phase, thread, exported, created, signals, granted>>

\* Everything the WCM holds is in memory.  Connections are cut, handlers are gone; what
\* they have answered already may still be on its way.
RestartWCM ==
    /\ sessions' = [s \in SessionID |-> NoSession]
    /\ requests' = [id \in ApprovalID |-> NoRequest]
    /\ approving' = {}
    /\ orphans' = {}
    /\ thread' = [t \in Thread |-> IF At(t, "create")
                    THEN [thread[t] EXCEPT !.pc = "refused", !.left = 0] ELSE thread[t]]
    /\ UNCHANGED <<phase, exported, created, signals, granted>>

Tick ==
    /\ AgeSessions
    /\ AgeRequests
    /\ thread' = [t \in Thread |->
            [thread[t] EXCEPT !.left = IF @ > 0 THEN @ - 1 ELSE 0]]
    /\ UNCHANGED <<approving, phase, exported, created, orphans, signals, granted>>

----------------------------------------------------------------------------
Init ==
    /\ LockInit
    /\ ApprovalInit
    /\ approving = {}
    /\ phase = "starting"
    /\ thread = [t \in Thread |-> Idle]
    /\ exported = {}
    /\ created = {}
    /\ orphans = {}
    /\ signals = {}
    /\ granted = {}
    /\ openFor = {}

\* A D-Bus call arrives.
Arrival ==
    \/ \E t \in Thread :
        \/ \E items \in SUBSET Item \ {{}} : GetSecrets(t, items)
        \/ \E k \in Prompt : StartPrompt(t, k)
    \/ \E k \in Prompt : ServiceUnlock(k) \/ Dismiss(k)
    \/ ForceLock

\* A goroutine under way takes its next step.
Continue(t) ==
    \/ RequestUnlock(t)
    \/ CreateRequest(t)
    \/ LoseUnlock(t)
    \/ Poll(t)
    \/ LosePoll(t)
    \/ GiveUp(t)
    \/ CheckCredential(t)
    \/ \E i \in Item : ReadCredential(t, i)
    \/ Return(t)
    \/ Complete(t)

Main == Start \/ FailToStart \/ Shutdown \/ Exit

WCM ==
    \/ \E id \in ApprovalID : ApproveRequest(id) \/ UnlockSession(id) \/ DenyRequest(id)
    \/ \E t \in Thread : FinishOrphan(t)
    \/ Sweep
    \/ RestartWCM

Step ==
    \/ Arrival
    \/ \E t \in Thread : Continue(t)
    \/ \E k \in Prompt : Unexport(k)
    \/ Main
    \/ WCM
    \/ Tick

\* What a caller's request would find now: no session yet, one that is locked or
\* unlocked, or none any more.
Window ==
    IF phase = "starting" THEN "none"
    ELSE IF ~ Known THEN "lost"
    ELSE IF UnlockedNow(ProxySession) THEN "open" ELSE "shut"

Running == {k \in Prompt : \E t \in Thread : thread[t].prompt = k}

Watch ==
    openFor' = IF Window' \in {"open", "lost"} THEN openFor \cup Running' ELSE openFor

Next == Step /\ Watch

Spec == Init /\ [][Next]_vars

\* Time passes; a request is answered or times out; a context reports its deadline; a
\* goroutine that need not wait runs on through its list.  Nothing is assumed of the
\* WCM, of the person or of the callers, and polls may all come too late.
Fairness ==
    /\ WF_state(Tick)
    /\ \A t \in Thread :
        /\ WF_state(RequestUnlock(t) \/ CreateRequest(t) \/ LoseUnlock(t))
        /\ WF_state(GiveUp(t))
        /\ WF_state(CheckCredential(t) \/ (\E i \in Item : ReadCredential(t, i))
                    \/ Return(t) \/ Complete(t))

FairSpec == Spec /\ Fairness

----------------------------------------------------------------------------
(* Properties *)

\* Every variable holds a value the code's types allow.
ServiceTypeOK ==
    /\ LockTypeOK
    /\ ApprovalTypeOK
    /\ approving \subseteq ApprovalID
    /\ phase \in Phase
    /\ thread \in [Thread -> Goroutine]
    /\ exported \subseteq created /\ created \subseteq Prompt
    /\ orphans \subseteq Thread
    /\ signals \subseteq [prompt : Prompt, dismissed : BOOLEAN]
    /\ granted \subseteq ApprovalID
    /\ openFor \subseteq Prompt

\* Whatever the proxy takes a missing session for, and whoever else's prompt it was
\* that got approved: no D-Bus caller holds a secret before a person has approved a
\* request.
SecretsWereReleased ==
    \A t \in Thread : thread[t].result # {} => granted # {}

\* A prompt reports its objects as unlocked only if at some moment, while a goroutine of
\* that prompt was under way, the session was unlocked, or lost: not on a window that had
\* ended before the prompt was started, nor because a poll failed or the deadline passed
\* and no window was open meanwhile.  Whose request was approved it does not know: a
\* prompt that was denied succeeds if the session is unlocked for somebody else before
\* its deadline.
CompletedBacked ==
    \A signal \in signals : ~ signal.dismissed => signal.prompt \in openFor

\* The proxy registers once.  When the WCM restarts, or has unregistered the session,
\* no read of this proxy passes the lock check again.  A caller may still get one
\* secret, if its read had passed the check before.
NothingAdmittedOnceLost ==
    [][phase # "starting" /\ ~ Known =>
        /\ ~ Known'
        /\ \A t \in Thread :
            /\ At(t, "read")' => At(t, "read")
            /\ \/ thread'[t].result \subseteq thread[t].result
               \/ /\ At(t, "read") /\ ~ At(t, "read")'
                  /\ \E i \in Item : thread'[t].result = thread[t].result \cup {i}]_vars

Release == INSTANCE SecretRelease WITH
    Caller   <- Thread,
    Secret   <- Item,
    Approval <- ApprovalID,
    window   <- Window,
    owed     <- approving,
    admitted <- {t \in Thread : At(t, "read")},
    held     <- [t \in Thread |-> thread[t].result]

\* Whatever is lost, late, dismissed or restarted between the D-Bus caller and the WCM:
\* each secret a caller gets had a lock check of its own that found the session
\* unlocked, and the session unlocks only by using an approval, each one once.  By the
\* time the secret arrives the session may be locked again, or lost.
ReleaseSpec == Release!Spec

\* A prompt that was started is answered by a Completed signal, whatever becomes of the
\* approval and of the WCM, unless the proxy exits.
PromptsComplete ==
    \A k \in Prompt :
        (\E t \in Thread : thread[t].prompt = k)
            ~> phase = "stopped" \/ \E signal \in signals : signal.prompt = k

\* No D-Bus call, and no goroutine of a prompt, hangs: a denied caller is let go when
\* its deadline passes.
CallsReturn == \A t \in Thread : ~ At(t, "idle") ~> At(t, "idle")

\* proxy.go on ensureUnlocked: "Blocks until the session is unlocked or
\* approvalTimeout elapses."  While the proxy serves, its callers and prompts go on
\* only when the session is unlocked.
BlocksUntilUnlocked ==
    [][\A t \in Thread :
        phase = "serving" /\ ~ GoneOn(t) /\ GoneOn(t)' =>
            UnlockedNow(ProxySession)']_vars
=============================================================================
