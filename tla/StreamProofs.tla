---------------------------- MODULE StreamProofs ----------------------------
(***************************************************************************)
(* What event streams carry: their own user's approvals, and nothing      *)
(* twice.                                                                  *)
(*                                                                         *)
(* The invariant speaks of the events that handlers and the sweeper have  *)
(* yet to publish.  One of them owes an event that has not been told, and *)
(* no two owe the same: an announced request drew a fresh id, and a       *)
(* verdict was given to a request that was pending (Settled).             *)
(***************************************************************************)
EXTENDS ApprovalFlowProofs

\* Handler p has yet to publish the event e.
Owes(p, e) ==
    \/ At(p, "announce") /\ e = Requested(call[p].id)
    \/ call[p].pc \in {"unlock", "refetch", "resolved"} /\ e = Resolved(call[p].id, "approved")
    \/ At(p, "denied") /\ e = Resolved(call[p].id, "denied")

Untold(e) == \A m \in published : m.event # e

OwedOnce ==
    /\ \A p \in Handler : \A e \in Event : Owes(p, e) => Untold(e)
    /\ \A p, q \in Handler : \A e \in Event : Owes(p, e) /\ Owes(q, e) => p = q
    /\ \A id \in sweep : Untold(Resolved(id, "expired"))

\* Whom an event about a request was published to.
AboutOwn ==
    \A m \in published : m.event.type # "lock_state_changed" =>
        m.event.id \in Issued /\ m.user = UserOf(m.event.id)

\* A buffer holds published events of its user, and no event about a request twice.
BufferOK(channel) ==
    \A i \in 1 .. Len(channel.buffer) :
        /\ [user |-> channel.user, event |-> channel.buffer[i]] \in published
        /\ \A j \in 1 .. Len(channel.buffer) :
            /\ channel.buffer[i] = channel.buffer[j]
            /\ channel.buffer[i].type # "lock_state_changed"
            => i = j

BuffersOK == \A c \in Client : channels[c] # NoChannel => BufferOK(channels[c])

StreamInv == OwedOnce /\ AboutOwn /\ BuffersOK

----------------------------------------------------------------------------
(* What is owed *)

LEMMA EventsDiffer ==
    ASSUME NEW i, NEW j
    PROVE  /\ Requested(i) = Requested(j) => i = j
           /\ \A v, w \in {"approved", "denied", "expired"} :
                /\ Requested(i) # Resolved(j, v)
                /\ Resolved(i, v) = Resolved(j, w) => i = j /\ v = w
BY DEF Requested, Resolved

\* A handler that moves changes nothing about the others' debts.
LEMMA OthersOwe ==
    ASSUME FlowTypes, NEW p \in Handler, NEW next, Goto(p, next)
    PROVE  /\ call'[p] = next
           /\ \A q \in Handler \ {p} : \A e \in Event : Owes(q, e)' => Owes(q, e)
BY DEF FlowTypes, Goto, Owes, At

\* A step that tells nothing and incurs no debt.
LEMMA DebtsKept ==
    ASSUME OwedOnce, UNCHANGED published, sweep' \subseteq sweep,
           \A p \in Handler : \A e \in Event : Owes(p, e)' => Owes(p, e)
    PROVE  OwedOnce'
BY DEF OwedOnce, Untold

\* One handler comes to owe an event that is new.
LEMMA DebtIncurred ==
    ASSUME FlowTypes, OwedOnce, UNCHANGED <<published, sweep>>,
           NEW p \in Handler, NEW next, Goto(p, next), NEW new \in Event,
           Untold(new), \A q \in Handler : ~ Owes(q, new),
           \A e \in Event : Owes(p, e)' => e = new
    PROVE  OwedOnce'
BY OthersOwe DEF OwedOnce, Untold

\* A handler tells what it owes, and is done with it.
LEMMA DebtPaid ==
    ASSUME FlowTypes, OwedOnce, UNCHANGED sweep,
           NEW p \in Handler, NEW next, Goto(p, next), NEW u, NEW new \in Event,
           Owes(p, new), Publish(u, new), \A e \in Event : ~ Owes(p, e)'
    PROVE  OwedOnce'
<1>1. published' = published \cup {[user |-> u, event |-> new]}
    BY DEF Publish
<1>2. \A q \in Handler : \A e \in Event : Owes(q, e)' => q # p /\ Owes(q, e) /\ e # new
    BY OthersOwe DEF OwedOnce
<1>3. \A id : new # Resolved(id, "expired")
    BY EventsDiffer DEF Owes
<1>4. ASSUME NEW e, Untold(e), e # new
      PROVE  Untold(e)'
    BY <1>1, <1>4 DEF Untold
<1> QED BY <1>2, <1>3, <1>4 DEF OwedOnce

\* What was told stays told.
LEMMA PublishedGrows ==
    ASSUME [Next]_vars
    PROVE  published \subseteq published'
BY DEF Next, Arrival, Continue, RequestUnlock, CheckCredentials, ApproveRequest, DenyRequest,
    FindOrCreate, AnnounceRequest, UnlockSession, RefetchSession, AnnounceApproval,
    AnnounceUnlock, AnnounceDenial, ReadCredentials, SessionCall, GetApproval, AnnounceExpiry,
    Stream, Unsubscribe, Deliver, Subscribe, Sweep, Tick, Publish, vars

\* Nobody has told anything of a request that is not on record, nor a verdict on one
\* that is pending.
LEMMA FreshUntold ==
    ASSUME AboutOwn, NEW id, id \notin Issued
    PROVE  Untold(Requested(id))
BY DEF AboutOwn, Untold, Requested

LEMMA PendingUntold ==
    ASSUME Settled, NEW id \in Pending, NEW v
    PROVE  Untold(Resolved(id, v))
<1> SUFFICES ASSUME NEW m \in published, m.event = Resolved(id, v)
             PROVE  FALSE
    BY DEF Untold
<1>1. IsVerdict(m) /\ m.event.id = id
    BY DEF IsVerdict, Resolved
<1> QED BY <1>1 DEF Settled, Truthful, VerdictHolds

----------------------------------------------------------------------------
(* What is told *)

LEMMA SamePublished ==
    ASSUME KeepsRecord, UNCHANGED published, AboutOwn
    PROVE  AboutOwn'
BY StaysSettled DEF AboutOwn

LEMMA SameBuffers ==
    ASSUME UNCHANGED <<channels, published>>, BuffersOK
    PROVE  BuffersOK'
BY DEF BuffersOK, BufferOK

\* Publishing what has not been told to a buffer that is in order.
LEMMA AppendOK ==
    ASSUME NEW channel \in Channel, BufferOK(channel), NEW e \in Event,
           e.type # "lock_state_changed" => Untold(e),
           published' = published \cup {[user |-> channel.user, event |-> e]}
    PROVE  BufferOK([channel EXCEPT !.buffer = Append(@, e)])'
<1> DEFINE old == channel.buffer
           new == Append(old, e)
           after == [channel EXCEPT !.buffer = new]
<1>1. old \in Seq(Event)
    BY DEF Channel
<1>2. /\ Len(old) \in Nat /\ Len(new) = Len(old) + 1
      /\ new[Len(old) + 1] = e /\ \A i \in 1 .. Len(old) : new[i] = old[i]
    BY <1>1
<1>3. after.user = channel.user /\ after.buffer = new
    BY DEF Channel
<1>4. \A i \in 1 .. Len(old) : [user |-> channel.user, event |-> old[i]] \in published
    BY DEF BufferOK
<1>5. ASSUME NEW i \in 1 .. Len(old), old[i] = e, e.type # "lock_state_changed"
      PROVE  FALSE
    <2>1. [user |-> channel.user, event |-> e].event = e
        OBVIOUS
    <2> QED BY <1>4, <1>5, <2>1 DEF Untold
<1> HIDE DEF old, new, after
<1>6. ASSUME NEW i \in 1 .. Len(new)
      PROVE  [user |-> channel.user, event |-> new[i]] \in published'
    <2>1. CASE i = Len(old) + 1
        BY <1>2, <2>1
    <2>2. CASE i \in 1 .. Len(old)
        BY <1>2, <1>4, <2>2
    <2> QED BY <1>2, <1>6, <2>1, <2>2
<1>7. ASSUME NEW i \in 1 .. Len(new), NEW j \in 1 .. Len(new),
             new[i] = new[j], new[i].type # "lock_state_changed"
      PROVE  i = j
    <2>1. CASE i \in 1 .. Len(old) /\ j \in 1 .. Len(old)
        BY <1>2, <1>7, <2>1 DEF BufferOK, old
    <2>2. CASE i \in 1 .. Len(old) /\ j = Len(old) + 1
        BY <1>2, <1>5, <1>7, <2>2
    <2>3. CASE i = Len(old) + 1 /\ j \in 1 .. Len(old)
        BY <1>2, <1>5, <1>7, <2>3
    <2> QED BY <1>2, <1>7, <2>1, <2>2, <2>3
<1>8. BufferOK(after)'
    BY <1>3, <1>6, <1>7 DEF BufferOK
<1> QED BY <1>8 DEF after, new, old

LEMMA PublishKeeps ==
    ASSUME BrokerTypeOK, KeepsRecord, AboutOwn, BuffersOK,
           NEW u \in UserID, NEW e \in Event, Publish(u, e),
           e.type # "lock_state_changed" => Untold(e) /\ e.id \in Issued /\ u = UserOf(e.id)
    PROVE  AboutOwn' /\ BuffersOK'
<1>1. published' = published \cup {[user |-> u, event |-> e]}
    BY DEF Publish
<1>2. AboutOwn'
    BY <1>1, StaysSettled DEF AboutOwn
<1>3. ASSUME NEW c \in Client, channels'[c] # NoChannel
      PROVE  BufferOK(channels[c])'
    <2>1. CASE c \in Subscribed(u) /\ HasRoom(c)
        <3>1. /\ channels[c] \in Channel /\ channels[c].user = u
              /\ channels'[c] = [channels[c] EXCEPT !.buffer = Append(@, e)]
            BY <2>1 DEF Subscribed, Publish, BrokerTypeOK
        <3>2. BufferOK(channels[c])
            BY <2>1 DEF BuffersOK, Subscribed
        <3>3. PICK channel \in Channel : channel = channels[c]
            BY <3>1
        <3>4. BufferOK([channel EXCEPT !.buffer = Append(@, e)])'
            BY <1>1, <3>1, <3>2, <3>3, AppendOK
        <3> QED BY <3>1, <3>3, <3>4
    <2>2. CASE ~ (c \in Subscribed(u) /\ HasRoom(c))
        <3>1. channels'[c] = channels[c]
            BY <2>2 DEF Publish
        <3> QED BY <1>1, <1>3, <3>1 DEF BuffersOK, BufferOK
    <2> QED BY <2>1, <2>2
<1> QED BY <1>2, <1>3 DEF BuffersOK

\* A reader takes the events from the front; a stream that opens has none.
LEMMA StreamKeeps ==
    ASSUME BrokerTypeOK, BuffersOK, NEW c \in Client, Stream(c)
    PROVE  BuffersOK' /\ UNCHANGED published
<1>1. UNCHANGED published /\ \A d \in Client \ {c} : channels'[d] = channels[d]
    BY DEF Stream, Unsubscribe, Deliver, Subscribe, BrokerTypeOK
<1>2. ASSUME channels'[c] # NoChannel
      PROVE  BufferOK(channels[c])'
    <2>1. CASE Unsubscribe(c)
        BY <1>2, <2>1 DEF Unsubscribe, BrokerTypeOK
    <2>2. ASSUME NEW u \in UserID, Subscribe(c, u)
          PROVE  BufferOK(channels[c])'
        <3>1. channels'[c].buffer = <<>>
            BY <2>2 DEF Subscribe, BrokerTypeOK
        <3> QED BY <3>1 DEF BufferOK
    <2>3. CASE Deliver(c)
        <3> DEFINE old == channels[c].buffer
                   new == Tail(old)
        <3>1. channels[c] \in Channel /\ BufferOK(channels[c]) /\ old # <<>>
            BY <2>3 DEF Deliver, BrokerTypeOK, BuffersOK
        <3>2. old \in Seq(Event)
            BY <3>1 DEF Channel
        <3>3. /\ Len(old) \in Nat /\ Len(new) = Len(old) - 1
              /\ \A i \in 1 .. Len(new) : new[i] = old[i + 1]
            BY <3>1, <3>2
        <3>4. channels'[c].buffer = new /\ channels'[c].user = channels[c].user
            BY <2>3, <3>1 DEF Deliver, BrokerTypeOK, Channel
        <3> HIDE DEF new
        <3>5. \A i \in 1 .. Len(new) : i + 1 \in 1 .. Len(old)
            BY <3>3
        <3>6. ASSUME NEW i \in 1 .. Len(new)
              PROVE  [user |-> channels[c].user, event |-> new[i]] \in published'
            BY <1>1, <3>1, <3>3, <3>5 DEF BufferOK
        <3>7. ASSUME NEW i \in 1 .. Len(new), NEW j \in 1 .. Len(new),
                     new[i] = new[j], new[i].type # "lock_state_changed"
              PROVE  i = j
            <4>1. i + 1 \in 1 .. Len(old) /\ j + 1 \in 1 .. Len(old)
                BY <3>5
            <4>2. old[i + 1] = old[j + 1] /\ old[i + 1].type # "lock_state_changed"
                BY <3>3, <3>7
            <4>3. \A k, l \in 1 .. Len(old) :
                    old[k] = old[l] /\ old[k].type # "lock_state_changed" => k = l
                BY <3>1 DEF BufferOK
            <4>4. i + 1 = j + 1
                BY <4>1, <4>2, <4>3
            <4> QED BY <3>3, <4>4
        <3> QED BY <3>4, <3>6, <3>7 DEF BufferOK
    <2> QED BY <2>1, <2>2, <2>3 DEF Stream
<1>3. ASSUME NEW d \in Client, channels'[d] # NoChannel
      PROVE  BufferOK(channels[d])'
    <2>1. CASE d = c
        BY <1>2, <1>3, <2>1
    <2>2. CASE d # c
        BY <1>1, <1>3, <2>2 DEF BuffersOK, BufferOK
    <2> QED BY <2>1, <2>2
<1> QED BY <1>1, <1>3 DEF BuffersOK

----------------------------------------------------------------------------
(* One step per action *)

LEMMA FindKeeps ==
    ASSUME FlowTypes, KeepsRecord, StreamInv, NEW p \in Handler, FindOrCreate(p)
    PROVE  StreamInv'
<1>1. AboutOwn' /\ BuffersOK'
    BY SamePublished, SameBuffers DEF FindOrCreate, StreamInv
<1>2. CASE Goto(p, Idle)
    <2>1. \A e \in Event : ~ Owes(p, e)'
        BY <1>2, OthersOwe DEF Owes, At, Idle
    <2>2. OwedOnce'
        BY <1>2, <2>1, OthersOwe, DebtsKept DEF FindOrCreate, StreamInv
    <2> QED BY <1>1, <2>2 DEF StreamInv
<1>3. ASSUME NEW id \in ApprovalID, id \in FreshIDs, Goto(p, AtRequest("announce", id))
      PROVE  StreamInv'
    <2>1. Requested(id) \in Event /\ Untold(Requested(id))
        BY <1>3, FreshUntold DEF Event, FreshIDs, StreamInv
    <2>2. \A q \in Handler : At(q, "announce") => call[q].id \in Issued
        BY DEF FlowTypes, CallsOnRecord, HoldsRequest, At, RequestStep
    <2>3. \A q \in Handler : ~ Owes(q, Requested(id))
        BY <1>3, <2>2, EventsDiffer DEF Owes, FreshIDs
    <2>4. \A e \in Event : Owes(p, e)' => e = Requested(id)
        BY <1>3, OthersOwe DEF Owes, At, AtRequest
    <2>5. OwedOnce'
        BY <1>3, <2>1, <2>3, <2>4, DebtIncurred DEF FindOrCreate, StreamInv
    <2> QED BY <1>1, <2>5 DEF StreamInv
<1> QED BY <1>2, <1>3 DEF FindOrCreate, CreatePending

LEMMA VerdictKeeps ==
    ASSUME FlowTypes, KeepsRecord, Settled, StreamInv, NEW p \in Handler, NEW id \in ApprovalID,
           ApproveRequest(p, id) \/ DenyRequest(p, id)
    PROVE  StreamInv'
<1>1. UNCHANGED <<channels, published, sweep>>
    BY DEF ApproveRequest, DenyRequest
<1>2. AboutOwn' /\ BuffersOK'
    BY <1>1, SamePublished, SameBuffers DEF StreamInv
<1>3. CASE UNCHANGED call
    BY <1>1, <1>2, <1>3, DebtsKept DEF StreamInv, Owes, At
<1>4. CASE Resolvable(id) /\ Goto(p, AtRequest("unlock", id))
    <2> DEFINE new == Resolved(id, "approved")
    <2>1. new \in Event /\ Untold(new)
        BY <1>4, PendingUntold DEF Resolvable, Event
    <2>2. \A q \in Handler : Approving(q) => call[q].id # id
        BY <1>4 DEF Settled, Outcomes, Resolvable
    <2>3. \A q \in Handler : ~ Owes(q, new)
        BY <2>2, EventsDiffer DEF Owes, Approving, ApproveStep
    <2>4. \A e \in Event : Owes(p, e)' => e = new
        BY <1>4, OthersOwe DEF Owes, At, AtRequest
    <2> HIDE DEF new
    <2>5. OwedOnce'
        BY <1>1, <1>4, <2>1, <2>3, <2>4, DebtIncurred DEF StreamInv
    <2> QED BY <1>2, <2>5 DEF StreamInv
<1>5. CASE Resolvable(id) /\ Goto(p, AtRequest("denied", id))
    <2> DEFINE new == Resolved(id, "denied")
    <2>1. new \in Event /\ Untold(new)
        BY <1>5, PendingUntold DEF Resolvable, Event
    <2>2. \A q \in Handler : Denying(q) => call[q].id # id
        BY <1>5 DEF Settled, Outcomes, Resolvable
    <2>3. \A q \in Handler : ~ Owes(q, new)
        BY <2>2, EventsDiffer DEF Owes, Denying
    <2>4. \A e \in Event : Owes(p, e)' => e = new
        BY <1>5, OthersOwe DEF Owes, At, AtRequest
    <2> HIDE DEF new
    <2>5. OwedOnce'
        BY <1>1, <1>5, <2>1, <2>3, <2>4, DebtIncurred DEF StreamInv
    <2> QED BY <1>2, <2>5 DEF StreamInv
<1> QED BY <1>3, <1>4, <1>5 DEF ApproveRequest, DenyRequest

\* A handler publishes what it owes, to the user of the request.
LEMMA TellKeeps ==
    ASSUME FlowTypes, KeepsRecord, StreamInv, NEW p \in Handler,
           AnnounceRequest(p) \/ AnnounceApproval(p) \/ AnnounceDenial(p)
    PROVE  StreamInv'
<1> DEFINE id == call[p].id
<1>1. PICK new \in {Requested(id), Resolved(id, "approved"), Resolved(id, "denied")} :
        Publish(UserOf(id), new) /\ Owes(p, new)
    BY DEF AnnounceRequest, AnnounceApproval, AnnounceDenial, Owes, At
<1>2. PICK next : Goto(p, next) /\ next.pc \notin {"announce", "unlock", "refetch", "resolved", "denied"}
    <2>1. CASE AnnounceApproval(p)
        <3>1. call[p] \in [pc : SeenStep, id : ApprovalID, seen : Seen]
            BY <2>1 DEF AnnounceApproval, At, FlowTypes, Call, Idle, SessionStep, RequestStep
        <3> DEFINE moved == [call[p] EXCEPT !.pc = "lockChanged"]
        <3>2. moved.pc = "lockChanged"
            BY <3>1
        <3>3. Goto(p, Idle) \/ Goto(p, moved)
            BY <2>1 DEF AnnounceApproval
        <3> HIDE DEF moved
        <3> QED BY <3>2, <3>3 DEF Idle
    <2>2. CASE AnnounceRequest(p) \/ AnnounceDenial(p)
        BY <2>2 DEF AnnounceRequest, AnnounceDenial, Idle
    <2> QED BY <2>1, <2>2
<1>3. id \in Issued /\ id \in ApprovalID /\ UserOf(id) \in UserID
    <2>1. id \in Issued
        BY DEF AnnounceRequest, AnnounceApproval, AnnounceDenial, At, FlowTypes,
            CallsOnRecord, HoldsRequest, RequestStep, SeenStep
    <2> QED BY <2>1, IssuedFields DEF FlowTypes, ApprovalInv
<1> HIDE DEF id
<1>4. new \in Event /\ new.id = id
    BY <1>1, <1>3 DEF Event, Requested, Resolved
<1>5. UNCHANGED sweep
    BY DEF AnnounceRequest, AnnounceApproval, AnnounceDenial
<1>6. \A e \in Event : ~ Owes(p, e)'
    BY <1>2, OthersOwe DEF Owes, At
<1>7. OwedOnce'
    BY <1>1, <1>2, <1>4, <1>5, <1>6, DebtPaid DEF StreamInv
<1>8. AboutOwn' /\ BuffersOK'
    BY <1>1, <1>3, <1>4, PublishKeeps DEF StreamInv, FlowTypes, OwedOnce
<1> QED BY <1>7, <1>8 DEF StreamInv

\* Handlers that are about something else.
LEMMA MoveKeeps ==
    ASSUME FlowTypes, KeepsRecord, StreamInv, NEW p \in Handler,
           \/ UnlockSession(p) \/ RefetchSession(p) \/ ReadCredentials(p)
           \/ \E u \in UserID, s \in SessionID : RequestUnlock(p, u, s) \/ CheckCredentials(p, u, s)
    PROVE  StreamInv'
<1>1. UNCHANGED <<channels, published, sweep>>
    BY DEF UnlockSession, RefetchSession, ReadCredentials, RequestUnlock, CheckCredentials
<1>2. AboutOwn' /\ BuffersOK'
    BY <1>1, SamePublished, SameBuffers DEF StreamInv
<1>3. CASE UNCHANGED call
    BY <1>1, <1>2, <1>3, DebtsKept DEF StreamInv, Owes, At
<1>4. ASSUME NEW next, Goto(p, next),
             \/ next.pc \in {"idle", "create", "read"}
             \/ /\ At(p, "unlock") \/ At(p, "refetch")
                /\ next.pc \in {"refetch", "resolved"} /\ next.id = call[p].id
      PROVE  StreamInv'
    <2>1. \A e \in Event : Owes(p, e)' => Owes(p, e)
        BY <1>4, OthersOwe DEF Owes, At
    <2>2. OwedOnce'
        BY <1>1, <1>4, <2>1, OthersOwe, DebtsKept DEF StreamInv
    <2> QED BY <1>2, <2>2 DEF StreamInv
<1>5. CASE ReadCredentials(p)
    BY <1>4, <1>5 DEF ReadCredentials, Idle
<1>6. CASE UnlockSession(p)
    BY <1>4, <1>6 DEF UnlockSession, AtRequest
<1>7. CASE RefetchSession(p)
    <2>1. PICK seen \in Seen : Goto(p, AtSeen("resolved", call[p].id, seen)) /\ At(p, "refetch")
        BY <1>7 DEF RefetchSession, Seen
    <2> QED BY <1>4, <2>1 DEF AtSeen
<1>8. ASSUME NEW u \in UserID, NEW s \in SessionID, RequestUnlock(p, u, s) \/ CheckCredentials(p, u, s)
      PROVE  StreamInv'
    BY <1>3, <1>4, <1>8 DEF RequestUnlock, CheckCredentials, AtSession
<1> QED BY <1>5, <1>6, <1>7, <1>8

LEMMA UnlockToldKeeps ==
    ASSUME FlowTypes, KeepsRecord, StreamInv, NEW p \in Handler, AnnounceUnlock(p)
    PROVE  StreamInv'
<1> DEFINE id  == call[p].id
           set == call[p].seen = "unlocked"
<1>1. id \in Issued
    BY DEF AnnounceUnlock, At, FlowTypes, CallsOnRecord, HoldsRequest, SeenStep
<1>2. UserOf(id) \in UserID /\ SessionOf(id) \in SessionID
    BY <1>1, IssuedFields DEF FlowTypes, ApprovalInv
<1>3. PICK new : new = LockChanged(SessionOf(id), set)
    OBVIOUS
<1>4. new \in Event
    <2>1. set \in BOOLEAN
        OBVIOUS
    <2>2. \A s \in SessionID, b \in BOOLEAN : LockChanged(s, b) \in Event
        BY DEF Event
    <2> HIDE DEF set
    <2> QED BY <1>2, <1>3, <2>1, <2>2, Zenon
<1>5. new.type = "lock_state_changed"
    BY <1>3 DEF LockChanged
<1>6. Publish(UserOf(id), new) /\ Goto(p, Idle) /\ UNCHANGED sweep
    BY <1>3 DEF AnnounceUnlock
<1> HIDE DEF id, set
<1>7. AboutOwn' /\ BuffersOK'
    BY <1>2, <1>4, <1>5, <1>6, PublishKeeps DEF StreamInv, FlowTypes
<1>8. \A q \in Handler : \A e \in Event : Owes(q, e)' => Owes(q, e) /\ e.type # "lock_state_changed"
    <2>1. \A e \in Event : ~ Owes(p, e)'
        BY <1>6, OthersOwe DEF Owes, At, Idle
    <2>2. \A q \in Handler : \A e \in Event : Owes(q, e) => e.type # "lock_state_changed"
        BY DEF Owes, Requested, Resolved
    <2> QED BY <1>6, <2>1, <2>2, OthersOwe
<1>9. \A e : Untold(e) /\ e.type # "lock_state_changed" => Untold(e)'
    BY <1>5, <1>6 DEF Untold, Publish
<1>10. \A i : Resolved(i, "expired").type # "lock_state_changed"
    BY DEF Resolved
<1>11. OwedOnce'
    BY <1>6, <1>8, <1>9, <1>10 DEF StreamInv, OwedOnce
<1> QED BY <1>7, <1>11 DEF StreamInv

LEMMA SweepKeeps ==
    ASSUME FlowTypes, KeepsRecord, Settled, StreamInv, Sweep
    PROVE  StreamInv'
<1>1. AboutOwn' /\ BuffersOK'
    BY SamePublished, SameBuffers DEF Sweep, StreamInv
<1>2. \A id \in sweep' : Untold(Resolved(id, "expired"))
    BY PendingUntold DEF Sweep, Stale
<1>3. OwedOnce'
    BY <1>2 DEF Sweep, StreamInv, OwedOnce, Owes, At, Untold
<1> QED BY <1>1, <1>3 DEF StreamInv

LEMMA ExpiryToldKeeps ==
    ASSUME FlowTypes, KeepsRecord, StreamInv, NEW id \in ApprovalID, AnnounceExpiry(id)
    PROVE  StreamInv'
<1>1. id \in sweep /\ id \in Issued /\ UserOf(id) \in UserID
    BY IssuedFields DEF AnnounceExpiry, FlowTypes, ApprovalInv
<1>2. PICK new \in Event : new = Resolved(id, "expired")
    BY DEF Event
<1>3. Publish(UserOf(id), new) /\ sweep' = sweep \ {id} /\ UNCHANGED call
    BY <1>2 DEF AnnounceExpiry
<1>4. new.id = id /\ Untold(new)
    BY <1>1, <1>2 DEF Resolved, StreamInv, OwedOnce
<1>5. AboutOwn' /\ BuffersOK'
    BY <1>1, <1>3, <1>4, PublishKeeps DEF StreamInv, FlowTypes
<1>6. \A e : Untold(e) /\ e # new => Untold(e)'
    BY <1>3 DEF Untold, Publish
<1>7. \A q \in Handler : \A e \in Event : Owes(q, e)' => Owes(q, e) /\ e # new
    BY <1>2, <1>3, EventsDiffer DEF Owes, At
<1>8. \A i \in sweep' : Resolved(i, "expired") # new
    BY <1>2, <1>3, EventsDiffer
<1>9. OwedOnce'
    BY <1>3, <1>6, <1>7, <1>8 DEF StreamInv, OwedOnce
<1> QED BY <1>5, <1>9 DEF StreamInv

\* Whatever else happens, nobody speaks.
LEMMA SilenceKeeps ==
    ASSUME FlowTypes, KeepsRecord, StreamInv,
           \/ \E u \in UserID, s \in SessionID : SessionCall(u, s)
           \/ \E id \in ApprovalID : GetApproval(id)
           \/ \E c \in Client : Stream(c)
           \/ Tick
           \/ UNCHANGED vars
    PROVE  StreamInv'
<1>1. UNCHANGED <<call, sweep, published>> /\ BuffersOK'
    <2>1. ASSUME NEW c \in Client, Stream(c)
          PROVE  UNCHANGED <<call, sweep, published>> /\ BuffersOK'
        BY <2>1, StreamKeeps DEF Stream, StreamInv, FlowTypes
    <2>2. CASE UNCHANGED <<channels, published, call, sweep>>
        BY <2>2, SameBuffers DEF StreamInv
    <2> QED BY <2>1, <2>2 DEF SessionCall, GetApproval, Tick, vars
<1>2. AboutOwn'
    BY <1>1, SamePublished DEF StreamInv
<1>3. OwedOnce'
    BY <1>1, DebtsKept DEF StreamInv, Owes, At
<1> QED BY <1>1, <1>2, <1>3 DEF StreamInv

----------------------------------------------------------------------------
(* The theorems *)

LEMMA StreamInvPreserved ==
    ASSUME FlowTypes, Settled, StreamInv, [Next]_vars
    PROVE  StreamInv'
<1>1. KeepsRecord
    BY ManagersPreserve
<1> QED
    BY <1>1, FindKeeps, VerdictKeeps, TellKeeps, MoveKeeps, UnlockToldKeeps, SweepKeeps,
        ExpiryToldKeeps, SilenceKeeps
    DEF Next, Arrival, Continue

LEMMA StreamInvInit == Init => StreamInv
BY DEF Init, BrokerInit, StreamInv, OwedOnce, Owes, At, Idle, AboutOwn, BuffersOK

LEMMA StreamInvHolds == Spec => []StreamInv
<1>1. FlowTypes /\ Settled /\ StreamInv /\ [Next]_vars => StreamInv'
    BY StreamInvPreserved
<1> QED BY FlowTypesHold, SettledHolds, StreamInvInit, <1>1, PTL DEF Spec

\* A stream carries the approvals of its own user and no others.
THEOREM StreamsPrivate == Spec => []StreamsArePrivate
<1>1. StreamInv => StreamsArePrivate
    <2> SUFFICES ASSUME StreamInv, NEW c \in Client, channels[c] # NoChannel,
                        NEW i \in 1 .. Len(channels[c].buffer),
                        channels[c].buffer[i].type # "lock_state_changed"
                 PROVE  UserOf(channels[c].buffer[i].id) = channels[c].user
        BY DEF StreamsArePrivate
    <2> DEFINE m == [user |-> channels[c].user, event |-> channels[c].buffer[i]]
    <2>1. m \in published
        BY DEF StreamInv, BuffersOK, BufferOK
    <2>2. m.event = channels[c].buffer[i] /\ m.user = channels[c].user
        OBVIOUS
    <2> HIDE DEF m
    <2> QED BY <2>1, <2>2 DEF StreamInv, AboutOwn
<1> QED BY StreamInvHolds, <1>1, PTL

\* Nothing about a request is in a stream twice.
THEOREM NothingTwice == Spec => []NothingToldTwice
<1>1. StreamInv => NothingToldTwice
    BY DEF StreamInv, BuffersOK, BufferOK, NothingToldTwice
<1> QED BY StreamInvHolds, <1>1, PTL

----------------------------------------------------------------------------
(* The news of an unlock.  The session it names may have been locked or    *)
(* taken over since, so that nothing about sessions is inductive here.     *)
(* What holds is about requests, which are kept: the news follows the      *)
(* approval it is of.                                                       *)

\* The request whose approval this is the news of, and whose approval was told.
NewsOf(m, id) ==
    /\ id \in Issued /\ UserOf(id) = m.user /\ SessionOf(id) = m.event.session
    /\ Told(id, "approved")

IsNews(m) == m.event.type = "lock_state_changed"

NewsInv ==
    /\ \A m \in published : IsNews(m) => \E id \in Issued : NewsOf(m, id)
    /\ \A p \in Handler : At(p, "lockChanged") => Told(call[p].id, "approved")

\* What was told of a request stays told, under the same user and session.
LEMMA NewsStays ==
    ASSUME KeepsRecord, published \subseteq published', NEW id \in Issued
    PROVE  /\ id \in Issued'
           /\ Told(id, "approved") => Told(id, "approved")'
           /\ \A m : NewsOf(m, id) => NewsOf(m, id)'
BY StaysSettled DEF NewsOf, Told

\* A step that tells no news and lets no handler on to tell any.
LEMMA NewsKept ==
    ASSUME KeepsRecord, NewsInv, published \subseteq published',
           \A m \in published' \ published : ~ IsNews(m),
           \A p \in Handler : At(p, "lockChanged")' => call'[p] = call[p]
    PROVE  NewsInv'
<1>1. ASSUME NEW m \in published', IsNews(m)
      PROVE  \E id \in Issued' : NewsOf(m, id)'
    <2>1. PICK id \in Issued : NewsOf(m, id)
        BY <1>1 DEF NewsInv
    <2> QED BY <2>1, NewsStays
<1>2. ASSUME NEW p \in Handler, At(p, "lockChanged")'
      PROVE  Told(call[p].id, "approved")'
    <2>1. call'[p] = call[p] /\ Told(call[p].id, "approved")
        BY <1>2 DEF NewsInv, At
    <2>2. PICK id \in Issued : id = call[p].id /\ Told(id, "approved")
        BY <2>1 DEF Told
    <2>3. Told(id, "approved")'
        BY <2>2, NewsStays
    <2> QED BY <2>1, <2>2, <2>3
<1>3. \A m : IsNews(m)' <=> IsNews(m)
    BY DEF IsNews
<1> QED BY <1>1, <1>2, <1>3 DEF NewsInv

\* approve publishes the verdict, and then the news of it.
LEMMA NewsFollows ==
    ASSUME FlowTypes, KeepsRecord, NewsInv, NEW p \in Handler, AnnounceApproval(p)
    PROVE  NewsInv'
<1>1. PICK id \in Issued : id = call[p].id
    BY DEF AnnounceApproval, At, FlowTypes, CallsOnRecord, HoldsRequest, SeenStep
<1>2. /\ published' = published \cup {[user |-> UserOf(id), event |-> Resolved(id, "approved")]}
      /\ UNCHANGED requests
    BY <1>1 DEF AnnounceApproval, Publish
<1>3. Told(id, "approved")'
    BY <1>1, <1>2 DEF Told, Issued, UserOf
<1>4. call'[p].pc = "lockChanged" => call'[p].id = id
    <2>1. call[p] \in [pc : SeenStep, id : ApprovalID, seen : Seen]
        BY DEF AnnounceApproval, At, FlowTypes, Call, Idle, SessionStep, RequestStep
    <2> QED BY <1>1, <2>1 DEF AnnounceApproval, Goto, FlowTypes, Idle
<1>5. \A q \in Handler \ {p} : call'[q] = call[q]
    BY DEF AnnounceApproval, Goto, FlowTypes
<1>6. ASSUME NEW m \in published', IsNews(m)
      PROVE  \E i \in Issued' : NewsOf(m, i)'
    <2>1. m \in published
        BY <1>2, <1>6 DEF IsNews, Resolved
    <2>2. PICK i \in Issued : NewsOf(m, i)
        BY <1>6, <2>1 DEF NewsInv
    <2> QED BY <1>2, <2>2, NewsStays
<1>7. ASSUME NEW q \in Handler, At(q, "lockChanged")'
      PROVE  Told(call[q].id, "approved")'
    <2>1. CASE q = p
        BY <1>3, <1>4, <1>7, <2>1 DEF At
    <2>2. CASE q # p
        <3>1. call'[q] = call[q] /\ Told(call[q].id, "approved")
            BY <1>5, <1>7, <2>2 DEF NewsInv, At
        <3> QED BY <1>2, <3>1 DEF Told, Issued, UserOf
    <2> QED BY <2>1, <2>2
<1>8. \A m : IsNews(m)' <=> IsNews(m)
    BY DEF IsNews
<1> QED BY <1>6, <1>7, <1>8 DEF NewsInv

LEMMA NewsTold ==
    ASSUME FlowTypes, KeepsRecord, NewsInv, NEW p \in Handler, AnnounceUnlock(p)
    PROVE  NewsInv'
<1>1. PICK id \in Issued : id = call[p].id /\ Told(id, "approved")
    BY DEF AnnounceUnlock, NewsInv, Told
<1> DEFINE news == [user |-> UserOf(id), event |-> LockChanged(SessionOf(id), call[p].seen = "unlocked")]
<1>2. published' = published \cup {news}
    BY <1>1 DEF AnnounceUnlock, Publish
<1>3. news.user = UserOf(id) /\ news.event.session = SessionOf(id)
    BY DEF LockChanged
<1>4. NewsOf(news, id)
    BY <1>1, <1>3 DEF NewsOf
<1>5. \A q \in Handler : At(q, "lockChanged")' => call'[q] = call[q]
    BY DEF AnnounceUnlock, Goto, FlowTypes, At, Idle
<1> HIDE DEF news
<1>6. ASSUME NEW m \in published', IsNews(m)
      PROVE  \E i \in Issued' : NewsOf(m, i)'
    <2>1. PICK i \in Issued : NewsOf(m, i)
        BY <1>1, <1>2, <1>4, <1>6 DEF NewsInv
    <2> QED BY <1>2, <2>1, NewsStays
<1>7. ASSUME NEW q \in Handler, At(q, "lockChanged")'
      PROVE  Told(call[q].id, "approved")'
    <2>1. call'[q] = call[q] /\ Told(call[q].id, "approved")
        BY <1>5, <1>7 DEF NewsInv, At
    <2>2. PICK i \in Issued : i = call[q].id /\ Told(i, "approved")
        BY <2>1 DEF Told
    <2>3. Told(i, "approved")'
        BY <1>2, <2>2, NewsStays
    <2> QED BY <2>1, <2>2, <2>3
<1>8. \A m : IsNews(m)' <=> IsNews(m)
    BY DEF IsNews
<1> QED BY <1>6, <1>7, <1>8 DEF NewsInv

\* Every other step: a handler that moves does not move on to the news, and what is
\* published is about a request.
LEMMA NewsInvPreserved ==
    ASSUME FlowTypes, NewsInv, [Next]_vars
    PROVE  NewsInv'
<1> USE ManagersPreserve
<1>1. ASSUME NEW p \in Handler, NEW next, Goto(p, next), next.pc # "lockChanged"
      PROVE  \A q \in Handler : At(q, "lockChanged")' => call'[q] = call[q]
    BY <1>1 DEF Goto, At, FlowTypes
<1>2. ASSUME UNCHANGED published,
             \/ UNCHANGED call
             \/ \E p \in Handler : \E next : Goto(p, next) /\ next.pc # "lockChanged"
      PROVE  NewsInv'
    BY <1>1, <1>2, NewsKept DEF At
<1>3. ASSUME NEW u, NEW e, Publish(u, e), e.type # "lock_state_changed",
             \/ UNCHANGED call
             \/ \E p \in Handler : \E next : Goto(p, next) /\ next.pc # "lockChanged"
      PROVE  NewsInv'
    <2>1. published' = published \cup {[user |-> u, event |-> e]}
        BY <1>3 DEF Publish
    <2>2. \A m \in published' \ published : ~ IsNews(m)
        BY <1>3, <2>1 DEF IsNews
    <2> QED BY <1>1, <1>3, <2>1, <2>2, NewsKept DEF At
<1> DEFINE Elsewhere(p) == \E next : Goto(p, next) /\ next.pc # "lockChanged"
<1>4. \A p, next : Goto(p, next) /\ next.pc # "lockChanged" => Elsewhere(p)
    OBVIOUS
<1> HIDE DEF Elsewhere
<1>5. ASSUME NEW p \in Handler, Arrival(p)
      PROVE  NewsInv'
    <2>1. UNCHANGED published
        BY <1>5 DEF Arrival, RequestUnlock, CheckCredentials, ApproveRequest, DenyRequest
    <2>2. \A u, s, pc : pc # "lockChanged" /\ Goto(p, AtSession(pc, u, s)) => Elsewhere(p)
        BY <1>4 DEF AtSession
    <2>3. \A id, pc : pc # "lockChanged" /\ Goto(p, AtRequest(pc, id)) => Elsewhere(p)
        BY <1>4 DEF AtRequest
    <2>4. UNCHANGED call \/ Elsewhere(p)
        BY <1>5, <2>2, <2>3
        DEF Arrival, RequestUnlock, CheckCredentials, ApproveRequest, DenyRequest
    <2> QED BY <1>2, <2>1, <2>4 DEF Elsewhere
<1>6. ASSUME NEW p \in Handler, FindOrCreate(p) \/ UnlockSession(p) \/ RefetchSession(p) \/ ReadCredentials(p)
      PROVE  NewsInv'
    <2>1. UNCHANGED published
        BY <1>6 DEF FindOrCreate, UnlockSession, RefetchSession, ReadCredentials
    <2>2. Goto(p, Idle) => Elsewhere(p)
        BY <1>4 DEF Idle
    <2>3. \A id, pc : pc # "lockChanged" /\ Goto(p, AtRequest(pc, id)) => Elsewhere(p)
        BY <1>4 DEF AtRequest
    <2>4. \A id, seen : Goto(p, AtSeen("resolved", id, seen)) => Elsewhere(p)
        BY <1>4 DEF AtSeen
    <2>5. Elsewhere(p)
        BY <1>6, <2>2, <2>3, <2>4 DEF FindOrCreate, UnlockSession, RefetchSession, ReadCredentials
    <2> QED BY <1>2, <2>1, <2>5 DEF Elsewhere
<1>7. ASSUME NEW p \in Handler, AnnounceRequest(p) \/ AnnounceDenial(p)
      PROVE  NewsInv'
    <2>1. Goto(p, Idle) /\ Idle.pc # "lockChanged"
        BY <1>7 DEF AnnounceRequest, AnnounceDenial, Idle
    <2> QED BY <1>3, <1>7, <2>1 DEF AnnounceRequest, AnnounceDenial, Requested, Resolved
<1>8. ASSUME NEW id \in ApprovalID, AnnounceExpiry(id)
      PROVE  NewsInv'
    BY <1>3, <1>8 DEF AnnounceExpiry, Resolved
<1>9. ASSUME NEW p \in Handler, AnnounceApproval(p) \/ AnnounceUnlock(p)
      PROVE  NewsInv'
    BY <1>9, NewsFollows, NewsTold
<1>10. ASSUME \/ \E u \in UserID, s \in SessionID : SessionCall(u, s)
              \/ \E id \in ApprovalID : GetApproval(id)
              \/ \E c \in Client : Stream(c)
              \/ Sweep \/ Tick \/ UNCHANGED vars
      PROVE  NewsInv'
    BY <1>2, <1>10 DEF SessionCall, GetApproval, Stream, Unsubscribe, Deliver, Subscribe,
        Sweep, Tick, vars
<1> QED BY <1>5, <1>6, <1>7, <1>8, <1>9, <1>10 DEF Next, Continue

LEMMA NewsInvInit == Init => NewsInv
BY DEF Init, BrokerInit, NewsInv, At, Idle

\* Whoever reads that a session was unlocked was told before that a request of theirs
\* for it was approved, and the unlock of that approval has been made.
THEOREM UnlockNewsIsBacked == Spec => []UnlockNewsBacked
<1>1. FlowTypes /\ NewsInv /\ [Next]_vars => NewsInv'
    BY NewsInvPreserved
<1>2. NewsInv /\ ApprovedFollowsUnlock => UnlockNewsBacked
    <2> SUFFICES ASSUME NewsInv, ApprovedFollowsUnlock, NEW m \in published, IsNews(m)
                 PROVE  \E id \in GrantedFor(m.user, m.event.session) :
                            /\ Unlocking(id) = {}
                            /\ [user |-> m.user, event |-> Resolved(id, "approved")] \in published
        BY DEF UnlockNewsBacked, IsNews
    <2>1. PICK id \in Issued : NewsOf(m, id)
        BY DEF NewsInv
    <2> DEFINE told == [user |-> m.user, event |-> Resolved(id, "approved")]
    <2>2. told \in published
        BY <2>1 DEF NewsOf, Told
    <2>3. /\ told.event.type = "approval_resolved" /\ told.event.status = "approved"
          /\ told.event.id = id
        BY DEF Resolved
    <2> HIDE DEF told
    <2>4. id \in granted /\ Unlocking(id) = {}
        BY <2>2, <2>3 DEF ApprovedFollowsUnlock
    <2>5. id \in GrantedFor(m.user, m.event.session)
        BY <2>1, <2>4 DEF NewsOf, GrantedFor
    <2> QED BY <2>2, <2>4, <2>5 DEF told
<1> QED BY FlowTypesHold, ApprovedEventsFollow, NewsInvInit, <1>1, <1>2, PTL DEF Spec

----------------------------------------------------------------------------
(* What is owed is told.  That it is told in the end is a liveness property *)
(* and left to the model checker; that nothing on the way gives it up is    *)
(* proved: neither an error, nor a session that is gone, nor a full buffer  *)
(* makes a handler, or the sweeper, end without it.                         *)

Announced(e) == e.id \in Issued /\ [user |-> UserOf(e.id), event |-> e] \in published

\* What a step does not tell, its handler or the sweeper still owes after it.
KeepsDebts ==
    /\ \A p \in Handler : \A e \in Event : Owes(p, e) => Owes(p, e)' \/ Announced(e)'
    /\ \A id \in sweep : id \in sweep' \/ Announced(Resolved(id, "expired"))'

\* No handler, and not the sweeper, gives up an event it has yet to publish.
NothingDropped == [][KeepsDebts]_vars

\* A verdict on record has been told to its user, or a handler is about to.
VerdictsPursued ==
    \A id \in Issued : \A v \in Verdict :
        requests[id].status = v =>
            Told(id, v) \/ \E p \in Handler : Owes(p, Resolved(id, v))

LEMMA OneMoves ==
    ASSUME FlowTypes, NEW p \in Handler, NEW next, Goto(p, next), sweep' = sweep,
           \A e \in Event : Owes(p, e) => Owes(p, e)' \/ Announced(e)'
    PROVE  KeepsDebts
<1>1. \A q \in Handler \ {p} : \A e : Owes(q, e) => Owes(q, e)'
    BY DEF FlowTypes, Goto, Owes, At
<1> QED BY <1>1 DEF KeepsDebts

LEMMA NobodyMoves ==
    ASSUME call' = call, sweep' = sweep
    PROVE  KeepsDebts
BY DEF KeepsDebts, Owes, At

\* What has been published, to its request's user, is announced.
LEMMA PublishedIsAnnounced ==
    ASSUME NEW id \in Issued, UNCHANGED requests, NEW e, e.id = id, Publish(UserOf(id), e)
    PROVE  Announced(e)'
BY DEF Announced, Publish, Issued, UserOf

LEMMA StepsKeepDebts ==
    ASSUME FlowTypes, [Next]_vars
    PROVE  KeepsDebts
<1>1. ASSUME NEW p \in Handler, AnnounceRequest(p) \/ AnnounceApproval(p) \/ AnnounceDenial(p)
      PROVE  KeepsDebts
    <2>1. PICK id \in Issued : id = call[p].id
        BY <1>1 DEF AnnounceRequest, AnnounceApproval, AnnounceDenial, At, FlowTypes,
            CallsOnRecord, HoldsRequest, RequestStep, SeenStep
    <2>2. PICK new : new.id = id /\ Publish(UserOf(id), new) /\ \A e : Owes(p, e) => e = new
        BY <1>1, <2>1 DEF AnnounceRequest, AnnounceApproval, AnnounceDenial, Owes, At,
            Requested, Resolved
    <2>3. Announced(new)'
        BY <1>1, <2>2, PublishedIsAnnounced DEF AnnounceRequest, AnnounceApproval, AnnounceDenial
    <2>4. sweep' = sweep /\ \E next : Goto(p, next)
        BY <1>1 DEF AnnounceRequest, AnnounceApproval, AnnounceDenial
    <2> QED BY <2>2, <2>3, <2>4, OneMoves
<1>2. ASSUME NEW p \in Handler, UnlockSession(p) \/ RefetchSession(p)
      PROVE  KeepsDebts
    <2>1. PICK next : /\ Goto(p, next) /\ next.pc \in {"refetch", "resolved"} /\ next.id = call[p].id
                      /\ At(p, "unlock") \/ At(p, "refetch")
        <3>1. CASE UnlockSession(p)
            BY <3>1 DEF UnlockSession, AtRequest
        <3>2. CASE RefetchSession(p)
            BY <3>2 DEF RefetchSession, AtSeen
        <3> QED BY <1>2, <3>1, <3>2
    <2>2. \A e : Owes(p, e) => Owes(p, e)'
        BY <2>1 DEF FlowTypes, Goto, Owes, At
    <2> QED BY <1>2, <2>1, <2>2, OneMoves DEF UnlockSession, RefetchSession
<1>3. ASSUME NEW p \in Handler, NEW next, Goto(p, next), sweep' = sweep,
             At(p, "idle") \/ At(p, "create") \/ At(p, "read") \/ At(p, "lockChanged")
      PROVE  KeepsDebts
    <2>1. \A e : ~ Owes(p, e)
        BY <1>3 DEF Owes, At
    <2> QED BY <1>3, <2>1, OneMoves
<1>4. ASSUME NEW p \in Handler, FindOrCreate(p) \/ AnnounceUnlock(p) \/ ReadCredentials(p)
      PROVE  KeepsDebts
    BY <1>3, <1>4 DEF FindOrCreate, AnnounceUnlock, ReadCredentials
<1>5. ASSUME NEW p \in Handler, Arrival(p)
      PROVE  KeepsDebts
    BY <1>3, <1>5, NobodyMoves DEF Arrival, RequestUnlock, CheckCredentials, ApproveRequest, DenyRequest
<1>6. ASSUME NEW id \in ApprovalID, AnnounceExpiry(id)
      PROVE  KeepsDebts
    <2>1. id \in Issued /\ UNCHANGED requests
        BY <1>6 DEF AnnounceExpiry, FlowTypes
    <2>2. PICK new : new = Resolved(id, "expired")
        OBVIOUS
    <2>3. Announced(new)'
        BY <1>6, <2>1, <2>2, PublishedIsAnnounced DEF AnnounceExpiry, Resolved
    <2> QED BY <1>6, <2>2, <2>3 DEF AnnounceExpiry, KeepsDebts, Owes, At
<1>7. CASE Sweep
    BY <1>7 DEF Sweep, KeepsDebts, Owes, At
<1>8. CASE \/ \E u \in UserID, s \in SessionID : SessionCall(u, s)
           \/ \E id \in ApprovalID : GetApproval(id)
           \/ \E c \in Client : Stream(c)
           \/ Tick \/ UNCHANGED vars
    BY <1>8, NobodyMoves DEF SessionCall, GetApproval, Stream, Tick, vars
<1> QED BY <1>1, <1>2, <1>4, <1>5, <1>6, <1>7, <1>8 DEF Next, Continue

\* A step that gives a verdict is taken by a handler that then owes the news of it.
LEMMA GivenIsOwed ==
    ASSUME FlowTypes, [Next]_vars,
           NEW id \in Issued', NEW v \in Verdict, requests'[id].status = v
    PROVE  \/ id \in Issued /\ requests[id].status = v
           \/ \E p \in Handler : Owes(p, Resolved(id, v))'
<1> DEFINE Given == id \in Issued /\ requests[id].status = v
<1>1. NoVerdictGiven => Given
    BY DEF NoVerdictGiven
<1>2. ApprovalTypeOK
    BY DEF FlowTypes, ApprovalInv
<1>3. ASSUME NEW p \in Handler, NEW i \in ApprovalID, ApproveRequest(p, i), ~ Given
      PROVE  Owes(p, Resolved(id, v))'
    <2>1. id = i /\ v = "approved" /\ Resolvable(i)
        BY <1>2, <1>3, ResolveGivesOne DEF ApproveRequest, Approve
    <2>2. call'[p] = AtRequest("unlock", i)
        BY <1>3, <2>1 DEF ApproveRequest, Goto, FlowTypes
    <2> QED BY <2>1, <2>2 DEF Owes, AtRequest
<1>4. ASSUME NEW p \in Handler, NEW i \in ApprovalID, DenyRequest(p, i), ~ Given
      PROVE  Owes(p, Resolved(id, v))'
    <2>1. id = i /\ v = "denied" /\ Resolvable(i)
        BY <1>2, <1>4, ResolveGivesOne DEF DenyRequest, Deny
    <2>2. call'[p] = AtRequest("denied", i)
        BY <1>4, <2>1 DEF DenyRequest, Goto, FlowTypes
    <2> QED BY <2>1, <2>2 DEF Owes, At, AtRequest
<1> HIDE DEF Given
<1>5. ASSUME NEW p \in Handler, FindOrCreate(p)
      PROVE  Given
    <2>1. call[p].user \in UserID /\ call[p].session \in SessionID
        BY <1>5, CallFields DEF FindOrCreate, At, FlowTypes, SessionStep
    <2> QED BY <1>1, <1>2, <1>5, <2>1, OthersGiveNone DEF FindOrCreate
<1>6. ASSUME Sweep \/ Tick \/ \E i \in ApprovalID : GetApproval(i)
      PROVE  Given
    BY <1>1, <1>2, <1>6, OthersGiveNone DEF Sweep, Tick, GetApproval
<1>7. ASSUME UNCHANGED requests
      PROVE  Given
    BY <1>1, <1>2, <1>7, OthersGiveNone
<1>8. ASSUME NEW p \in Handler, Continue(p)
      PROVE  Given
    BY <1>5, <1>7, <1>8 DEF Continue, AnnounceRequest, UnlockSession, RefetchSession,
        AnnounceApproval, AnnounceUnlock, AnnounceDenial, ReadCredentials
<1>9. ASSUME NEW p \in Handler, Arrival(p), ~ Given
      PROVE  \E q \in Handler : Owes(q, Resolved(id, v))'
    BY <1>3, <1>4, <1>7, <1>9 DEF Arrival, RequestUnlock, CheckCredentials
<1>10. ASSUME \/ \E u \in UserID, s \in SessionID : SessionCall(u, s)
              \/ \E c \in Client : Stream(c)
              \/ \E i \in ApprovalID : AnnounceExpiry(i)
              \/ UNCHANGED vars
       PROVE  Given
    BY <1>7, <1>10 DEF SessionCall, Stream, AnnounceExpiry, vars
<1> QED BY <1>6, <1>8, <1>9, <1>10 DEF Next, Given

LEMMA VerdictsPursuedPreserved ==
    ASSUME FlowTypes, VerdictsPursued, [Next]_vars
    PROVE  VerdictsPursued'
<1> SUFFICES ASSUME NEW id \in Issued', NEW v \in Verdict, requests'[id].status = v
             PROVE  Told(id, v)' \/ \E p \in Handler : Owes(p, Resolved(id, v))'
    BY DEF VerdictsPursued
<1>1. CASE \E p \in Handler : Owes(p, Resolved(id, v))'
    BY <1>1
<1>2. CASE id \in Issued /\ requests[id].status = v
    <2>1. CASE Told(id, v)
        <3>1. published \subseteq published'
            BY PublishedGrows
        <3>2. KeepsRecord
            BY ManagersPreserve
        <3> QED BY <2>1, <3>1, <3>2, StaysSettled DEF Told
    <2>2. ASSUME NEW p \in Handler, Owes(p, Resolved(id, v))
          PROVE  Told(id, v)' \/ Owes(p, Resolved(id, v))'
        <3>1. Resolved(id, v) \in Event /\ Resolved(id, v).id = id
            BY DEF Event, Verdict, Resolved, Issued
        <3>2. Owes(p, Resolved(id, v))' \/ Announced(Resolved(id, v))'
            BY <2>2, <3>1, StepsKeepDebts DEF KeepsDebts
        <3> QED BY <3>1, <3>2 DEF Announced, Told
    <2> QED BY <1>2, <2>1, <2>2 DEF VerdictsPursued
<1> QED BY <1>1, <1>2, GivenIsOwed

\* Whatever becomes of the session and of the request, a verdict that was given has been
\* published or is owed by a handler still: the safe half of VerdictsAnnounced,
\* for approvals and denials.
THEOREM VerdictsArePursued == Spec => []VerdictsPursued
<1>1. Init => VerdictsPursued
    BY DEF Init, ApprovalInit, VerdictsPursued, Issued
<1>2. FlowTypes /\ VerdictsPursued /\ [Next]_vars => VerdictsPursued'
    BY VerdictsPursuedPreserved
<1> QED BY FlowTypesHold, <1>1, <1>2, PTL DEF Spec

\* A handler that has an event to publish, and the sweeper, end no other way than by
\* publishing it.
THEOREM AnnouncementsAreNotDropped == Spec => NothingDropped
<1>1. FlowTypes /\ [Next]_vars => [KeepsDebts]_vars
    BY StepsKeepDebts
<1> QED BY FlowTypesHold, <1>1, PTL DEF Spec, NothingDropped
=============================================================================
