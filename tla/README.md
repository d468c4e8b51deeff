# Workspace Credential Manager: a TLA+ verification project

This directory holds TLA+ models of the credential manager in this repository,
TLC configurations that check them on small instances, and TLAPS proofs of the
properties that matter most for every instance.

The program serves secrets to programs that run inside a workspace, and lets a
person decide, in a browser or an editor outside the workspace, when they may be
read. A workspace registers a *session*; a session is locked until a person
approves an *approval request* for it, and then stays unlocked for a while.

## 1. Inventory

### Components, their state and their operations

| Component | Source | State | Operations |
|---|---|---|---|
| Lock manager | `wcm/internal/lock/manager.go` | map session id -> user, locked, expiry | Register, GetSession, IsUnlocked, Unlock, Lock, List, Unregister |
| Approval manager | `wcm/internal/approval/manager.go` | map approval id -> user, session, status, expiry | GetOrCreate, Get, Approve, Deny, ExpireOld |
| SSE broker | `wcm/internal/sse/broker.go` | map user -> set of buffered channels | subscribe, unsubscribe, Publish, the loop of ServeHTTP |
| Unlock and approval API | `wcm/internal/api/approvals.go`, `sessions.go`, `router.go`, `events.go` | none of its own; the local variables of a handler that is between two manager calls | one handler per route |
| Credential API | `wcm/internal/api/credentials.go` | the same | search, get, create, update, delete |
| Credential store | `wcm/internal/store/memory.go` | map credential id -> record | Create, Get, Search, Update, Delete |
| Sweeper, start-up | `wcm/cmd/wcm/main.go` | the requests just expired and not yet announced | a round every 10 s |
| Proxy's WCM client | `proxy/internal/client/wcm.go` | session id | one method per route, PollUntilUnlocked |
| Proxy's D-Bus service | `proxy/internal/dbus/*.go`, `proxy/cmd/proxy/main.go` | exported items and their record, session and prompt counters, prompts under way | Unlock, Lock, GetSecrets, SearchItems, CreateItem, item methods, OpenSession, Close, Prompt, Dismiss; start and shutdown |
| Web UI | `wcm/ui-src/src/*.ts` | sessions and pending approvals as last heard, the open section, the rendered page and its listeners, the event stream, promise chains | navigation, event callbacks, clicks |

The built bundle, the static page and the D-Bus introspection text hold no
state.

### How they interact

- Proxy, browser and editor call the WCM over HTTP. net/http runs each request in
  its own goroutine.
- A handler calls the managers one after the other. Each manager has a mutex and
  every method holds it from start to end; no mutex is held from one call to the
  next. **Between two calls of a handler anything may happen.**
- The sweeper goroutine calls the approval manager and then publishes what it
  expired, one event at a time.
- Handlers and the sweeper publish to the broker, which never blocks: a full
  channel drops the event.
- Expiry is lazy. A session's window ends when GetSession or List looks at it; a
  request's deadline is noticed by whoever touches the request, or by the sweeper.
- Nothing is persisted.

### What is hard, and what must hold

| Part | Hard behaviour | What makes it correct |
|---|---|---|
| Lock manager | ids are overwritten by Register; expiry is lazy and behind a nil test | a window always has a deadline within the timeout; no call but Unlock opens or prolongs a window |
| Approval manager | strict comparisons on both sides of the deadline; stale requests marked while a map is ranged over | one pending request per session; a settled request is never pending again |
| Approve, deny, sweep | three kinds of actors race for one request, and act on it after the mutex is released | an approval is used once, for its own session and owner; one outcome is told, and it is the one that happened |
| Credential reads | the lock is checked before, and outside of, the store's mutex | what is read goes back to a person's approval |
| Events | publication order, dropped events, reconnects, ids shared by users | streams are private; nothing is told twice; what was decided is told |
| Liveness | settlement depends on a ticker and on handlers that run to their end | every request settles; every window closes |
| Credential store | read-modify-write across two calls (PUT), search-then-create (replace) | updates are not lost, deletions are final, replace does not duplicate |
| Proxy | polling, time-outs, prompts that are dismissed, a WCM that restarts, status codes that are not looked at | each secret has a lock check behind it that passed; a success had an open session; no call hangs; objects, their record and the paths callers hold agree |
| Web UI | no replay after a reconnect, two keys for one request, listeners added by each render | a resolved request's row goes away; an unlock that ends without an alert was granted; the page does not stay on Loading |

`PROJECT.json` lists every hazard at its line with the properties that cover it.

## 2. Plan

The order in which the modules were written, the most important behaviour first:

1. `WCMData`, `LockManager`, `ApprovalManager`, `SSEBroker`: the three stores, one
   action per method.
2. `ApprovalFlow`: the handlers and the sweeper over them. This is the core of the
   system: the only way a session is unlocked.
3. `ApprovalGate`: the abstract specification of that flow, and the refinement.
4. `ManagerProofs`, `ApprovalFlowProofs`, `BackedProofs`, `StreamProofs`: the
   invariants of the managers and of the flow, and that it implements the gate.
5. `CredentialStore` and `CredentialFlow`: the store's methods, and the calls that
   write credentials as the sequences of store operations they are, from browsers
   and from the proxy's item and collection objects. `CredentialProofs`.
6. `SecretService`: the proxy over the WCM's managers: unlocking, prompts, secrets,
   lost requests, a WCM that restarts, shutdown. `SecretRelease`: the abstract
   specification of what all that promises. `SecretServiceProofs`: the invariants, and
   the refinement.
7. `ItemObjects`: the proxy's objects on the bus over the credential store.
   `ItemObjectsProofs`.
8. `WebUI`: the page over the managers and its event stream. `WebUIProofs`.

`LockManager` and `ApprovalManager` are composed three times, with the handlers
(`ApprovalFlow`), with the proxy (`SecretService`) and with the page (`WebUI`);
`CredentialStore` twice (`CredentialFlow`, `ItemObjects`).

## 3. Modules

| Module | Models | State | Actions |
|---|---|---|---|
| `WCMData` | users, ids and time, shared by all | - | - |
| `LockManager` | `lock.Manager` | `sessions` | one per method, and `AgeSessions` |
| `ApprovalManager` | `approval.Manager` | `requests` | one per method (`FindPending` and `CreatePending` are the two results of GetOrCreate), and `AgeRequests` |
| `SSEBroker` | `sse.Broker` | `channels`; history `published` | `Publish`, `Subscribe`, `Unsubscribe`, `Deliver` |
| `ApprovalFlow` | the handlers of `wcm/internal/api` and the sweeper; EXTENDS the three | `call`, `sweep`; history `granted` | one per manager call of a handler |
| `ApprovalGate` | the abstract promise: tickets that open gates | `owner`, `open`, `state`, `for` | `Enter`, `Leave`, `Shut`, `Issue`, `Lapse`, `Grant`, `Spend` |
| `CredentialStore` | `store.MemoryStore` | `credentials`, `drawn` (the uuids used) | `Create`, `Update`, `Delete`; `Search` and `Has` (Get) are operators |
| `CredentialFlow` | the writes of `credentials.go`, and of `item.go`, `collection.go` in the proxy; EXTENDS the store | `call` | one per store operation of a call |
| `SecretService` | the proxy's `service.go`, `prompt.go`, `proxy.go`, `main.go` and its WCM client; EXTENDS the two managers | `phase`, `thread`, `exported`, `created`, `approving`, `orphans`, `signals`; histories `granted`, `openFor` | one per critical section of the WCM that a goroutine's request reaches, per signal, per un-export, and per step of main |
| `SecretRelease` | the abstract promise: callers are admitted by one window that approvals open, each admission is good for one secret | `window`, `owed`, `admitted`, `held` | `Begin`, `Approve`, `Use`, `Shut`, `Admit`, `Give`, `Miss`, `Finish`, `FinishAll`, `Lose`, `Forget` |
| `ItemObjects` | the exports of `proxy.go`, `item.go`, `collection.go`, `service.go`, `session.go`; EXTENDS the store | `objects`, `exportedItems`, `sessionID`, `dbSessions`, `call`; history `told` | one per HTTP request, bus operation or critical section of a call |
| `WebUI` | `main.ts`, `sse.ts`, `api.ts`; EXTENDS the two managers | `connected`, `stream`, `section`, `main`, `buttons`, `listeners`, `shown`, `rows`, `task`; history `released` | one per callback between two awaits |
| `MCApprovalFlow`, `MCCredentialFlow`, `MCSecretService`, `MCItemObjects`, `MCWebUI` | the symmetry sets for TLC | - | - |
| `*Proofs` | section 6 | - | - |

**Time.** The code stores instants and compares them with `time.Now()`, never with
each other. The models store the time that remains until the instant, which every
`Tick` lowers by one: `t > 0` is ahead (`Before`), `t < 0` has passed (`After`) and
at `t = 0`, the instant itself, neither holds, as in Go. Instants that have passed
stop ageing, so no bound on the clock is needed. The time-outs are any integers:
`getDuration` in `main.go` takes zero and negative values too.

**Handlers.** `call[p]` says where handler goroutine `p` is: idle, or between two
manager calls with the local variables it will use. For instance POST
`/approvals/{id}/approve` is

    ApproveRequest -> UnlockSession -> RefetchSession -> AnnounceApproval -> AnnounceUnlock

which are lines 101, 117, 120, 122 and 133 of `approvals.go`; the last step is
missing when the session was gone at the third. Handlers with one manager call
(GET and DELETE of sessions, GET of an approval) are one step and need no
record. A copy that a handler holds of a request is represented by the request's
id: the user and the session of a request never change (proved: `RecordsAreKept`),
and no handler reads the status of its copy. The copy of the session that approve
holds is kept (`seen`), since it can be out of date when it is used.

**Credential calls.** `call[p]` in `CredentialFlow` is the same for a call that
writes credentials, on either side of HTTP. PUT is `UpdateCredential` (line 137 of
`credentials.go`) and `WriteUpdate` (167) or `RejectBody` (149); the body is read in
between, so anything may happen there. In front of it the proxy has steps of its
own:

    CopyItem -> SetItem        -> (PUT)                            SetSecret, Set
    CreateItem -> ReplaceItem  -> (PUT) -- when it fails --> StoreItem    CreateItem

`otherwise` in a PUT's record is where its client goes when the PUT fails. `TimeOut`
is the client's 30 seconds: the client goes on and the handler does too, as another
call.

**Values.** A label or a secret is a word together with the user who supplied it
(`Supplied`). The code stores only the word; the supplier is there for
`ValuesStayHome` and nothing else reads it.

**The proxy's goroutines.** `thread[t]` in `SecretService` is a goroutine of the
proxy: a D-Bus call of GetSecrets or GetSecret, or a started prompt. Both ask for an
unlock and poll:

    GetSecrets -> RequestUnlock -> CreateRequest -> Poll
               -> (CheckCredential -> ReadCredential)* -> Return
    StartPrompt -> RequestUnlock -> CreateRequest -> Poll -> Complete -> Unexport
    Dismiss -> Unexport

An HTTP request is one step at the WCM, or two where the handler gives up the lock
manager's mutex and anything may come in between: `RequestUnlock` and `CreateRequest`
are the lock check and GetOrCreate of `/unlock`, `CheckCredential` and `ReadCredential`
the lock check (`credentials.go:71`) and the store read (86) of a credential. After
`CheckCredential` the session may be locked, expire, be unregistered by the shutdown, or
go down with the WCM while the answer is under way: the secret arrives all the same.
`items` are the items GetSecrets has yet to ask for; each is asked for once, and one
that fails is skipped. A request may be lost, or its answer may be (`LoseUnlock`,
`LosePoll`); a handler whose client has given up is an *orphan* and still makes its
second call.

Completed is emitted (`prompt.go:69`) before the prompt is taken off the bus (71, 72),
in calls of their own. Between `Complete` or `Dismiss` and `Unexport` the prompt is
answered and can still be started or dismissed; a goroutine started then outlives the
object.

`left` is what remains of a goroutine's context: `GetSecrets` gets a new one when it
starts to poll, a prompt's runs from Prompt on. `RestartWCM` empties the managers, and the proxy does not
register again: from then on every check is answered 404, which `CheckLock` takes
for unlocked. `phase` is where `main()` is; the bus dispatches calls until it returns.

**Objects on the bus.** `ItemObjects` has the bus (`objects`) and the record of it
(`exportedItems`) apart, since Delete un-exports first (`Unexport`) and takes the mutex
for the record afterwards (`Forget`), while searches go through
`ensureItemsExported`, one critical section. A search that read a credential before
its deletion may export it afterwards. OpenSession draws its number in one step and
records the session in another.

**The page.** JavaScript runs one callback at a time, so one step of `WebUI` is what
happens between two awaits, and `task[t]` is a promise chain that awaits an answer:

    Click -> PostUnlock -> PostApprove -> Reload -> FetchList -> ShowList      Unlock
    Click -> PostVerdict -> DropRow                                       Approve, Deny

Each WCM handler is one step there. The main element outlives what it shows and
every render adds a listener to it, so a click starts `listeners` chains, of which
`MaxListeners` are told apart. `main` is what is drawn, `section` what was asked
for: they may differ, since an answer is drawn when it comes. `buttons` are the
buttons that are drawn and enabled, each with the data attribute it was given.

**Histories.** `granted`, `released` (what was accepted), `published` (what was told),
`openFor` (the prompts that had a goroutine under way while the session was open, or
lost) and `told` (the paths that were returned) are read by no action but the one that
extends them; of `signals` (what was answered) `Unexport` alone reads whose they are.

**Mutations.** An operator named `Action_Change` is a plausible bug in `Action`
(a dropped guard, a missing reset, a wrong order). Each property is known to fail
when the named definition is replaced by such an operator; `PROJECT.json` lists the
pairs under `mutants`. No specification uses them.

**Left out of the modelled parts.** Labels (application name, workspace,
`UnlockedAt`), which nothing reads; JSON, HTML and log lines; HTTP status codes
except where they end a handler; the `X-Session-Id`-less credential reads of the UI,
which involve no session. In the credential modules: time stamps; what a call
reports, except where it decides what the client does; a call that fails before it
has touched the store (a lost connection, a body of POST that does not parse), which
changes nothing and is a stutter; the exporting of items on the bus, which is in
`ItemObjects`. A client that gives up before its PUT has read anything is
covered too: the handler is then an `UpdateCredential` of its own, and CreateItem
goes straight to create.

## 4. Runs

| Run | Question | Shows |
|---|---|---|
| `flow_safety` | three handlers, the sweeper, the clock, two users that may register the same id, and an event stream that connects, lags, overflows and reconnects as either | every unlock and every read goes back to an approval for that session and owner; an approval is used once; one pending request per session; one outcome is told and it is true; the news of an unlock follows the approval it is of; a stream carries its own user's approvals, and none twice |
| `flow_liveness` | started work runs on; every step against the gate | every request settles; accepted verdicts and swept expiries are told; every window closes; the flow implements `ApprovalGate`; no step but the unlock of an approve handler opens or prolongs a window |
| `flow_verdict_final` | *violated* | a click after the deadline rewrites an approved or denied request to expired |
| `flow_outcome_told` | *violated* | an expiry noticed by a handler before the sweeper is never announced |
| `credential_safety` | two calls of two users, deletions, a client that times out | nobody's label or secret gets into another user's credential; deletions are final; CreateItem never ends without its item stored |
| `credential_update` | *violated* | of two PUTs one gives a new secret; the other does not give it, writes later and puts the old one back |
| `credential_replace` | *violated* | CreateItem with replace overwrites an item with more attributes than given |
| `proxy_service` | D-Bus callers and a prompt, against lost requests, a restart of the WCM, a shutdown of the proxy and a person who may do nothing | each secret had a lock check of its own that found the session open; a prompt that reports success had an open session, or a lost one, while it ran; nothing passes the lock check of a session that is lost; every prompt is answered and every call returns; the whole implements `SecretRelease` |
| `proxy_items` | three D-Bus calls and a browser on the same credentials | bus, record and returned paths agree; sessions get different paths |
| `proxy_unlocked` | *violated* | after a restart of the WCM, GetSecrets goes on at once although nothing is unlocked |
| `web_ui` | two chains of the page, events that are dropped, reconnections, other clients | an unlock that ends without the alert was granted, and once; Loading gives way |
| `web_rows` | *violated* | the row of a request that was resolved stays on the page, and so does the badge |

The violated properties state what `docs/api-spec.md`, `docs/ui-spec.md` and comments
of `collection.go` and `proxy.go` say; `findings` in `PROJECT.json` quotes the lines.
None of them breaks the gate. Those of the flow are about what the API reports,
those of the credentials about updates that undo others, that of the proxy is about
a call that returns nothing instead of waiting, and that of the page about a map
that is written under one key and deleted by another. With the row stored under
`approvalId` (`RowKey(event) == event.approvalId`), `RowsGoAway` holds on the instance of
`web_rows`.

### Bounds, and why they are enough

- **Users, sessions.** Two users and one session give the takeovers (an id
  registered by another user while an approval is under way). Approvals that could
  open the wrong session need a second one; that they do not is proved for any
  number (`FlowImplementsGate`), so `flow_liveness`, which has two ids for one
  session, checks the gate on the instance its liveness properties can afford.
- **Approval ids.** Two: a request and the one that replaces it, or the requests of
  two sessions or two users. Uuids are drawn fresh and never reused. The model stops
  taking unlock requests when the ids are used up (`IDsLeft`); everything else goes
  on, so no behaviour is cut short before the second request has been settled.
- **Handlers.** Three in `flow_safety` (two approvers of one request, and a caller or
  a reader), two in the other runs.
- **Time-outs.** A time-out of 1 tick makes a request, or a window, pass through all
  of ahead, at the deadline and past it.
- **Streams.** One client with a buffer of two (16 in the code) reaches full, dropped
  and reconnected. `flow_liveness` takes `Client = {}`: streams feed nothing back.
- **Credentials.** Two users, two uuids and two calls: an update racing another or a
  deletion, two CreateItems racing for one item, and a handler that outlives its
  client. The secret may be empty (400 on create), there is one attribute, present
  or not. A third call would only repeat one of the first two, since calls meet in
  single store operations. `CreateCredential` and `CreateItem` are taken only while
  a uuid is left for each call that may still need one (`UuidsLeft`). `credential_replace`
  has two attributes, so that one set can be part of another.
- **Proxy.** Two goroutines (two callers, two of one prompt, or a caller and a prompt),
  one item, one prompt and one request: a caller is served by the approval of the
  other's request, the session is locked, lost or restarted between any two requests
  and between a lock check and its read, and a call is denied, times out or is cut off
  by the shutdown. A call names at least one item (an empty list is the same call
  without its loop), and at most one handler is an orphan at a time (`Orphaned`). With
  one request there is no second to be approved after a denial; a second id takes the
  run beyond what it can be given, so for a prompt that was denied and is served by
  another's approval there are the theorems only, which hold for any number. `proxy_items` has
  three calls on two credentials, which is two searches around a deletion, and two
  `OpenSession`s (`MaxSessions`).
- **Page.** One session, one request, two chains and two listeners: a double unlock,
  a load that is overtaken, an answer used after its request was taken by another
  client. A buffer of two is full after one approval. In `web_rows` one event at a
  time is enough.
- **Symmetry** permutes handlers, users, sessions and ids in the safety runs, in
  which no property names one of them. `flow_liveness` and `proxy_service` use none.

### Fairness

`FairSpec` assumes that time passes, that the sweeper's ticker fires and its loop
finishes the round, and that a handler that has started runs to its end. The Go
runtime gives these: handlers take mutexes that are held only for map operations,
Publish does not block, and no handler waits for another. Nothing is assumed of the
outside: nobody need send a request, answer an approval or read a stream. There is
no fairness on `Arrival`, `SessionCall`, `GetApproval` or `Stream`.

`FairSpec` of `SecretService` assumes that time passes, that a request to the WCM is
answered or times out (the client's 30 seconds), that a context reports its deadline
to the select of `PollUntilUnlocked`, and that a goroutine with nothing to wait for
runs on. Nothing is assumed of the WCM, of the person or of the callers; polls may
all fail. `WebUI` has no fairness: its properties are invariants.

## 5. Properties

The comments above each definition say what it means. The ones to start from:

- `UnlockBacked`, `ReadBacked`: an unlocked session, and a credential read that has
  passed the lock check, go back to a request *for that session and its present
  owner* that was approved.
- `SingleUse`: of two approve handlers that race for a request, one gets past
  `Approve`.
- `OneVerdict`, `ApprovedFollowsUnlock`: what subscribers are told of a request is one
  outcome, and approved is told of a request that was granted, when its call of Unlock
  is over. Whether that call unlocked anything is not looked at (`approvals.go:117`), and
  not claimed.
- `UnlockNewsBacked`: `lock_state_changed` is published three calls after Unlock, and says
  unlocked whatever the session is by then. It may be out of date (the page then shows
  what it says until its sessions are loaded again), but it is true of an approval of
  its reader, who was told of that approval before.
- `GateSpec`: the unlocking of sessions in one piece: the flow is a ticket gate. A ticket is pending,
  granted and spent (or void); a gate opens only by spending a ticket for it.
- `CreateItemDelivers`: an action property across three store operations and two
  programs: the item is stored when the call ends, whatever happened to the one it
  was to replace.
- `DeletedStaysDeleted`: no update under way, not even one whose client has gone,
  brings a credential back.
- `WindowOpensByApproval`: an action property. Looking at a session, listing or
  checking it never prolongs its window. In particular the request that a slow
  `/unlock` may create for a session that was opened meanwhile (`approvals.go:44`) opens
  nothing by itself.
- `SecretsWereReleased`: no secret before the first approval.
- `CompletedBacked`: a prompt that reports success had a goroutine under way at a moment
  when the session was open, or lost. It does not say whose request was approved: the
  WCM keeps one window for a session, and a poll reads that window.
- `NothingAdmittedOnceLost`: after a restart of the WCM, or the shutdown's Unregister, no
  read passes the lock check, although `CheckLock` takes 404 for unlocked. A read that
  had passed it gives one secret at most.
- `ReleaseSpec`: what the proxy and the WCM promise together, with no HTTP, deadline or
  prompt in it: the session is a window that is opened by using an approval, each one
  once; a caller is admitted only while it is open; an admission gives one secret at
  most, which may come after the window was shut or lost; and a window that was lost
  stays lost. `CheckLock` taking 404 for unlocked admits nobody.
- `PromptsComplete`, `CallsReturn`: liveness of the proxy when nobody answers.
- `RecordMatchesBus`, `ReturnedPathsWork`: searches that race deletions neither leave an
  object nobody will remove nor take away one that a caller was told of.
- `SessionsAreDistinct`: the number of a D-Bus session is drawn outside the mutex.
- `StreamsArePrivate`, `NothingToldTwice`: what an event stream may carry.
- `SilenceMeansGranted`: the page's Unlock uses the answer to its first call whatever
  its status; the second call still tells success from failure, also when one click
  has started two chains.
- `LoadingIsPursued`: overlapping chains and failed loads.
- `RowsGoAway` (violated): see `web_rows`.

## 6. Proofs

`tlapm` proves the theorems below for all values of the constants, under these
assumptions, each named in its module: the time-outs are integers, the channel
capacity is a positive number, and the null values (`NoTime`, `NoSession`,
`NoRequest`, `NoChannel`, `NoCredential`, `NoPrompt`) are none of the values they stand in
for (in the gate's mapping also of the users: `NobodyAssumption`); the collection
`"default"` exists; the proxy's own user and session are among the users and
sessions, and its polling time is a natural number; the page's channel capacity and
listener bound are natural numbers (`BoundsAssumption`). Users, ids, handlers, clients,
goroutines, prompts, items and promise chains are arbitrary sets, finite or not.

| Theorem | Module | States |
|---|---|---|
| `LockManagerCorrect` | `ManagerProofs` | the manager alone: types, a deadline on every unlock |
| `ApprovalManagerCorrect`, `RecordsAreKept` | `ManagerProofs` | the manager alone: types, one pending request per session; records are never lost, reassigned, put off or reopened |
| `TypeCorrect`, `AtMostOnePending`, `WindowsAreBounded` | `ApprovalFlowProofs` | `TypeOK`, `OnePending`, `WindowBounded` of the flow |
| `ApprovalsAreSingleUse`, `OutcomesAreUnique`, `ApprovedEventsFollow` | `ApprovalFlowProofs` | `SingleUse`, `OneVerdict`, `ApprovedFollowsUnlock` |
| `UnlocksAreBacked`, `ReadsAreBacked` | `BackedProofs` | `UnlockBacked`, `ReadBacked` |
| `FlowImplementsGate`, `WindowsOpenByApproval` | `BackedProofs` | `GateSpec`, the refinement; `WindowOpensByApproval` |
| `StreamsPrivate`, `NothingTwice`, `UnlockNewsIsBacked` | `StreamProofs` | `StreamsArePrivate`, `NothingToldTwice`, `UnlockNewsBacked` |
| `VerdictsArePursued`, `AnnouncementsAreNotDropped` | `StreamProofs` | an approval or denial that was given is published or owed by a handler; what is owed is not dropped |
| `StoreTypeCorrect`, `ValuesNeverCross`, `DeletionsAreFinal`, `ItemsAreDelivered` | `CredentialProofs` | `StoreTypeOK`, `ValuesStayHome`, `DeletedStaysDeleted`, `CreateItemDelivers` |
| `ServiceTypes`, `SecretsReleased`, `PromptsBacked`, `LostAdmitsNobody` | `SecretServiceProofs` | `ServiceTypeOK`, `SecretsWereReleased`, `CompletedBacked`, `NothingAdmittedOnceLost` |
| `ServiceImplementsRelease` | `SecretServiceProofs` | `ReleaseSpec`, the refinement |
| `PromptsArePursued` | `SecretServiceProofs` | a goroutine keeps its prompt and its deadline until it has answered |
| `ObjectsTypes`, `RecordIsRight`, `PathsWork`, `DistinctSessions` | `ItemObjectsProofs` | `ObjectsTypeOK`, `RecordMatchesBus`, `ReturnedPathsWork`, `SessionsAreDistinct` |
| `PageTypes`, `SilenceIsGranted`, `LoadsAreFollowedUp` | `WebUIProofs` | `UITypeOK`, `SilenceMeansGranted`, `LoadingIsPursued` |

The flow's inductive invariant comes in five layers, each inductive relative to the ones
before:

1. **`FlowTypes`** - the managers' own invariants, and that every handler's local
   variables refer to requests on record. A flow step is a step of each manager or
   leaves it alone (`FlowStepsLock`, `FlowStepsApproval`), so the managers' proofs are
   used as they stand.
2. **`Settled`** = `Outcomes /\ Truthful`. The stored status cannot carry this
   argument, since a late click overwrites it. What does is that granted, swept and
   being denied exclude each other and pending (`Outcomes`), and that each published
   verdict agrees with them and will go on doing so (`Truthful`). `SingleUse` is not
   inductive without it: two handlers at `unlock` are excluded because the second
   `Approve` finds the request no longer pending, which needs "an approving handler's
   request is granted, and what is granted is not pending". Steps that settle nothing
   are treated together (`Quiet`); the six that settle or tell an outcome have a lemma
   each.
3. **`Backed`** = `UnlockBacked /\ ReadBacked`. Grants are never taken back
   (`Remembers`), only Unlock opens a session (`OnlyUnlockOpens`), and the handler that
   calls it holds a granted request (`Settled`). A read starts from a session the lock
   check saw unlocked, which `UnlockBacked` covers.
4. **`StreamInv`** - about the events that are yet to be published: each is untold so
   far, and no two handlers owe the same one (`OwedOnce`); published events went to the
   request's user (`AboutOwn`), and buffers hold published events (`BuffersOK`).
5. **`NewsInv`** - the news of an unlock, told or about to be, follows the approval of a
   request of that user and session. It speaks of requests alone, because they are
   kept: the session itself may have been locked, or handed over, in every step since
   the unlock. That the approval was granted and its call of Unlock is over is then
   `ApprovedFollowsUnlock`.

The refinement needs the first two layers. `EveryStepIsTheGates` goes through the
steps of the flow and names the step of the gate that each one is: Register is
`Enter`, Unregister is `Leave`, GetSession, List and Lock are `Shut`, a new request is
`Issue` (which voids the stale one it replaces), an accepted Approve is `Grant`, the
call of Unlock is `Spend`, and everything else is a `Lapse`, of the tickets that were
denied or expired or of none. `WindowsOpenByApproval` rests on the same case split: a
step that makes a session usable, or its expiry later, is the Unlock of an approve
handler, and that handler's own.

For credentials one invariant is enough, `CredentialInv`: every stored record is its
owner's own (`IsOwn`), and so is what every call holds for it, the copy, the body
and the item to fall back on (`CallOK`). `ValuesStayHome` alone is not inductive,
since a PUT may hold anything; with `CallOK` a merge is again the owner's own
(`MergeIsOwn`). The two action properties follow step by step: only `Create` adds a
key, and it draws a new uuid (`NothingReturns`); only `WriteUpdate` and `StoreItem`
end a CreateItem, after they have stored its item (`ItemDelivered`).

For the proxy `ServiceInv` says what stands behind every goroutine and signal: an
approval, or a session that is *lost*, one the WCM does not know after the proxy has
started. Lost is for good, since the proxy registers in its first step only
(`LostForGood`), and an unlocked session was approved since `approving` handlers are
granted. `SecretsWereReleased` is not inductive by itself, because `CheckLock` lets a
goroutine go on for either reason, and a secret comes a step after its lock check: what
is inductive is that a goroutine at `read`, or with a secret, has an approval behind it
(`ThreadInv`). `CompletedBacked` needs that a prompt's goroutine that has gone on is in
`openFor`; a check that is not answered "locked" finds the session open or lost, before
the lazy re-lock and after it (`AskFinds`), and the goroutine is under way then.

`ServiceImplementsRelease` goes through the steps of the proxy and of the WCM
(`EveryStepIsARelease`). The window is the session as a request would find it now; what
is owed are the approve handlers that have not called Unlock yet, and admitted are the
goroutines at `read`. `Use` is that call, `Admit` is `CheckCredential` when it passes,
which it does only on an open window, `Give` and `Miss` are the two ends of
`ReadCredential`, `Begin` is the registration and `Forget` the restart; forced locks, lazy re-locks and overwritten
answers of `CheckLock` are `Shut` or nothing. It needs of `ServiceInv` that a handler's
request is no longer pending when it is accepted again (so that nothing is owed twice),
and that no session is known before the proxy has started.

For the objects `ItemInv` follows a deletion between its steps (`DeletionInv`): the WCM
confirms one DELETE of a uuid, and no uuid is drawn twice, so that from there on the
deletion has its object to itself. `DrawnInv` is what makes a search that read early
harmless: it exports uuids that have been drawn and will not come back.

For the page `PageInv` has the managers' invariants, the finiteness of the record (a
sweep publishes one event per request), the types, and `ReleasedSettled`: an
id whose approval was accepted is on record and not pending. `SilenceMeansGranted` is
inductive only with it: a second chain, or a second listener of one click, cannot have
the same id accepted because `Approve` accepts pending requests only, and a settled one
never becomes pending again. The types are not idle here: a chain may carry
`undefined` as its request, and that this is never an id is what makes the second call
of a direct unlock fail. `LoadingIsPursued` needs nothing but the types.

Of the liveness properties the half that fairness has no part in is proved: that
nothing on the way gives up what is to happen. For `EveryRequestSettles` it is
`RecordsAreKept`: a pending request stays on record with a deadline that does not move
away. For `VerdictsAnnounced`, every step but an accepted Approve or Deny
gives no verdict (`OthersGiveNone`), each of these leaves its handler owing the event
(`GivenIsOwed`), and no step drops a debt, a handler's or the sweeper's, other than by
publishing it (`StepsKeepDebts`), so that a verdict without its event always has a
handler about to publish it (`VerdictsArePursued`). For `PromptsComplete`, a goroutine keeps its prompt,
with the deadline that Prompt set, through every step up to its Completed
(`PromptsArePursued`); that needs `PromptInv`: an idle goroutine has no prompt, and
a prompt is created once, before it is started or answered. These four statements are
in the proof modules, and no run checks them.

Only model-checked: the liveness properties themselves (`EveryRequestSettles`,
`VerdictsAnnounced`, `WindowsClose`, `PromptsComplete`, `CallsReturn`). The rest of
their arguments goes through the fairness of actions and so through ENABLED, which the
prover does not have. The properties of the `violation` runs are false, with the counterexamples TLC
prints.

## 7. Not modelled

- Of the page: the credential form, the reveal button and Delete, which send the
  requests of `CredentialFlow` and draw the answer; the user prompt, countdowns,
  the modal and the layout. A DELETE that fails ends in an alert.
- Of the proxy: methods that answer a constant (ReadAlias, CreateCollection, Get of
  properties); Export and Emit that fail (godbus does so for malformed paths and a
  closed connection, after which the process is of no use); the poll interval,
  where a value of zero would make `time.NewTicker` panic; an unlock request that
  reaches the WCM for the first time after its client has given up.
- The built web bundle, static HTML and D-Bus introspection: generated or constant.
- Environment parsing, listening, CORS and JSON helpers: no state.
- An event that no line of the code sends: `docs/api-spec.md:392` has
  `lock_state_changed` also "re-locked after timeout", but the lazy re-lock of the lock
  manager publishes nothing, and neither does `forceLock`. The models follow the code.
- `docs/` also describes a VS Code extension; it is not in this repository. Its page
  (`vscode-spec.md:55`) has it send `Last-Event-ID` "so WCM can replay missed events";
  the broker keeps no events and never reads the header, so a client that reconnects
  has missed what was published meanwhile, here as in the models.

The documents say more of two modelled parts than the code does, and no run states it:

- `docs/api-spec.md:323` says of the 204 of approve: "The session is now unlocked for 10
  minutes." It is sent too when Unlock found the session gone or another user's, and
  the session may be locked again by then. `ApprovalFlow` reaches all of these.
- `docs/dbus-spec.md:79` and `:334`, and `prompt.go:13`, have a denial end the wait. The
  code never asks what became of the request: a caller that was denied polls until its
  deadline (`CallsReturn`, `PromptsComplete`) and is served if the session is unlocked
  for somebody else before that.

## 8. Running

    tlc -config flow_safety.cfg MCApprovalFlow
    tlc -config credential_safety.cfg MCCredentialFlow
    tlc -config proxy_service.cfg MCSecretService
    tlc -config proxy_items.cfg MCItemObjects
    tlc -config web_ui.cfg MCWebUI
    tlapm BackedProofs.tla
    tlapm StreamProofs.tla
    tlapm CredentialProofs.tla
    tlapm SecretServiceProofs.tla
    tlapm ItemObjectsProofs.tla
    tlapm WebUIProofs.tla

The longest run takes about three minutes with two workers; every proof module takes
seconds to a minute.
