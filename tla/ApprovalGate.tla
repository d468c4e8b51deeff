---------------------------- MODULE ApprovalGate ----------------------------
(***************************************************************************)
(* What the unlock flow promises, with no handlers, no clock and no       *)
(* events.                                                                 *)
(*                                                                         *)
(* A gate stands before each session's secrets.  A ticket is issued for   *)
(* one gate and one owner, and a person grants it or it becomes void.  A  *)
(* gate opens only by spending a granted ticket, a ticket is spent once,  *)
(* it opens nothing but the gate and the owner it was issued for, and at  *)
(* most one ticket of a gate and owner awaits a person's answer.          *)
(***************************************************************************)
CONSTANTS
    Gate,           \* the places to guard
    Owner,          \* who may stand behind them
    Ticket,         \* what may be issued
    Nobody          \* the owner of a gate that is not there

VARIABLES
    owner,          \* owner[g]: who registered the gate, or Nobody
    open,           \* the gates that are open
    state,          \* state[t]: unissued, pending, granted, spent or void
    for             \* for[t]: the gate and owner t was issued for, once issued

vars == <<owner, open, state, for>>

TicketState == {"unissued", "pending", "granted", "spent", "void"}

Init ==
    /\ owner = [g \in Gate |-> Nobody]
    /\ open = {}
    /\ state = [t \in Ticket |-> "unissued"]
    /\ for = [t \in Ticket |-> Nobody]

\* A gate is put up, closed, whether or not there was one.
Enter(g, o) ==
    /\ owner' = [owner EXCEPT ![g] = o]
    /\ open' = open \ {g}
    /\ UNCHANGED <<state, for>>

Leave(g) ==
    /\ owner' = [owner EXCEPT ![g] = Nobody]
    /\ open' = open \ {g}
    /\ UNCHANGED <<state, for>>

\* Any gates may close at any time.
Shut ==
    /\ open' \in SUBSET open
    /\ UNCHANGED <<owner, state, for>>

\* Tickets that are not answered in time become void.
Void(lapsed) == [t \in Ticket |-> IF t \in lapsed THEN "void" ELSE state[t]]

PendingTickets == {t \in Ticket : state[t] = "pending"}

Lapse ==
    /\ \E lapsed \in SUBSET PendingTickets : state' = Void(lapsed)
    /\ UNCHANGED <<owner, open, for>>

\* A new ticket replaces those of the same gate and owner that are pending still.
Issue(t, g, o) ==
    /\ state[t] = "unissued"
    /\ state' = [Void({x \in PendingTickets : for[x] = <<g, o>>}) EXCEPT ![t] = "pending"]
    /\ for' = [for EXCEPT ![t] = <<g, o>>]
    /\ UNCHANGED <<owner, open>>

Grant(t) ==
    /\ state[t] = "pending"
    /\ state' = [state EXCEPT ![t] = "granted"]
    /\ UNCHANGED <<owner, open, for>>

\* The only step that opens a gate.  If the gate is gone, or someone else's by
\* now, the ticket is spent for nothing.
Spend(t) ==
    /\ state[t] = "granted"
    /\ state' = [state EXCEPT ![t] = "spent"]
    /\ open' = open \cup {g \in Gate : owner[g] # Nobody /\ for[t] = <<g, owner[g]>>}
    /\ UNCHANGED <<owner, for>>

Next ==
    \/ \E g \in Gate : Leave(g) \/ \E o \in Owner : Enter(g, o)
    \/ \E t \in Ticket :
        \/ Grant(t)
        \/ Spend(t)
        \/ \E g \in Gate, o \in Owner : Issue(t, g, o)
    \/ Shut
    \/ Lapse

Spec == Init /\ [][Next]_vars
=============================================================================
