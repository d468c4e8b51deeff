----------------------------- MODULE SSEBroker -----------------------------
(***************************************************************************)
(* The fan-out of events to the connected browsers and editors            *)
(* (wcm/internal/sse/broker.go).  Publish never blocks: a subscriber      *)
(* whose buffer is full misses the event, and nothing is replayed to one  *)
(* that reconnects.                                                        *)
(***************************************************************************)
EXTENDS WCMData, Sequences

CONSTANTS
    Client,         \* event-stream connections that may be open at once
    BufferSize,     \* capacity of a subscriber's channel (16 in the code)
    NoChannel       \* a connection that is not subscribed

ASSUME BufferSizeAssumption == BufferSize \in Nat \ {0}

VARIABLES
    channels,       \* Broker.clients: the channel of each subscriber
    published       \* history: every event ever handed to Publish

\* The events the WCM publishes; data.sessionId, expiresAt and the labels that
\* the properties do not tell apart are left out.  LockChanged always says
\* locked: false; dated tells whether its expiresAt is set.
Requested(id)       == [type |-> "approval_requested", id |-> id]
Resolved(id, v)     == [type |-> "approval_resolved", id |-> id, status |-> v]
LockChanged(s, set) == [type |-> "lock_state_changed", session |-> s, dated |-> set]

Event ==
    {Requested(id) : id \in ApprovalID}
        \cup {Resolved(id, v) : id \in ApprovalID, v \in {"approved", "denied", "expired"}}
        \cup {LockChanged(s, set) : s \in SessionID, set \in BOOLEAN}

Channel == [user : UserID, buffer : Seq(Event)]

ASSUME NoChannelAssumption == NoChannel \notin Channel

BrokerTypeOK ==
    /\ channels \in [Client -> Channel \cup {NoChannel}]
    /\ \A c \in Client : channels[c] # NoChannel => Len(channels[c].buffer) <= BufferSize
    /\ published \subseteq [user : UserID, event : Event]

----------------------------------------------------------------------------
\* Mutation: events are not filtered by user.
Subscribed_All(u) == {c \in Client : channels[c] # NoChannel}

Subscribed(u) == {c \in Client : channels[c] # NoChannel /\ channels[c].user = u}

HasRoom(c) == Len(channels[c].buffer) < BufferSize

Publish(u, event) ==
    /\ channels' = [c \in Client |->
                        IF c \in Subscribed(u) /\ HasRoom(c)
                        THEN [channels[c] EXCEPT !.buffer = Append(@, event)]
                        ELSE channels[c]]
    /\ published' = published \cup {[user |-> u, event |-> event]}

Subscribe(c, u) ==
    /\ channels[c] = NoChannel
    /\ channels' = [channels EXCEPT ![c] = [user |-> u, buffer |-> <<>>]]
    /\ UNCHANGED published

\* The request context ends: what is still buffered is lost.
Unsubscribe(c) ==
    /\ channels[c] # NoChannel
    /\ channels' = [channels EXCEPT ![c] = NoChannel]
    /\ UNCHANGED published

\* ServeHTTP takes the next event and writes it to the connection.
Deliver(c) ==
    /\ channels[c] # NoChannel
    /\ channels[c].buffer # <<>>
    /\ channels' = [channels EXCEPT ![c].buffer = Tail(@)]
    /\ UNCHANGED published

----------------------------------------------------------------------------
BrokerInit ==
    /\ channels = [c \in Client |-> NoChannel]
    /\ published = {}

BrokerNext ==
    \/ \E c \in Client :
        \/ Unsubscribe(c)
        \/ Deliver(c)
        \/ \E u \in UserID : Subscribe(c, u)
    \/ \E u \in UserID, event \in Event : Publish(u, event)

BrokerSpec == BrokerInit /\ [][BrokerNext]_<<channels, published>>
=============================================================================
