--------------------------- MODULE SecretRelease ---------------------------
(***************************************************************************)
(* What the proxy and the WCM together promise a desktop, with no HTTP,   *)
(* no deadlines, no prompts and no clock.                                  *)
(*                                                                         *)
(* Callers get secrets through one window.  It is opened by using an      *)
(* approval that a person gave, each is used once.  While it is open a    *)
(* caller may be admitted, and each admission is good for one secret at   *)
(* most, which may come after the window was shut.  Once the window is    *)
(* lost, or the approvals are forgotten, nothing brings them back.         *)
(***************************************************************************)
CONSTANTS
    Caller,         \* who asks for secrets
    Secret,         \* what there is to get
    Approval        \* what a person may give

VARIABLES
    window,         \* none (not there yet), shut, open or lost
    owed,           \* the approvals given and not yet used
    admitted,       \* the callers that are about to get a secret
    held            \* held[c]: the secrets c has got

vars == <<window, owed, admitted, held>>

Init ==
    /\ window = "none"
    /\ owed = {}
    /\ admitted = {}
    /\ held = [c \in Caller |-> {}]

Begin ==
    /\ window = "none"
    /\ window' = "shut"
    /\ UNCHANGED <<owed, admitted, held>>

Approve(a) ==
    /\ a \notin owed
    /\ owed' = owed \cup {a}
    /\ UNCHANGED <<window, admitted, held>>

\* The only step that opens the window.  An approval may come too late to open it.
Use(a) ==
    /\ a \in owed
    /\ owed' = owed \ {a}
    /\ window' \in IF window \in {"shut", "open"} THEN {"shut", "open"} ELSE {window}
    /\ UNCHANGED <<admitted, held>>

Shut ==
    /\ window = "open"
    /\ window' = "shut"
    /\ UNCHANGED <<owed, admitted, held>>

\* The only step that lets a caller through.
Admit(c) ==
    /\ window = "open" /\ c \notin admitted
    /\ admitted' = admitted \cup {c}
    /\ UNCHANGED <<window, owed, held>>

\* The only step that gives anyone a secret, and it uses up the admission.
Give(c, secret) ==
    /\ c \in admitted
    /\ admitted' = admitted \ {c}
    /\ held' = [held EXCEPT ![c] = @ \cup {secret}]
    /\ UNCHANGED <<window, owed>>

\* There is no such secret, or it is lost on the way.
Miss(c) ==
    /\ c \in admitted
    /\ admitted' = admitted \ {c}
    /\ UNCHANGED <<window, owed, held>>

\* A caller is done, or all of them are.
Finish(c) ==
    /\ c \notin admitted
    /\ held' = [held EXCEPT ![c] = {}]
    /\ UNCHANGED <<window, owed, admitted>>

FinishAll ==
    /\ admitted' = {}
    /\ held' = [c \in Caller |-> {}]
    /\ UNCHANGED <<window, owed>>

Lose ==
    /\ window' = "lost"
    /\ UNCHANGED <<owed, admitted, held>>

Forget ==
    /\ owed' = {}
    /\ window' = IF window = "none" THEN "none" ELSE "lost"
    /\ UNCHANGED <<admitted, held>>

Next ==
    \/ Begin \/ Shut \/ Lose \/ Forget \/ FinishAll
    \/ \E a \in Approval : Approve(a) \/ Use(a)
    \/ \E c \in Caller :
        \/ Admit(c) \/ Miss(c) \/ Finish(c)
        \/ \E secret \in Secret : Give(c, secret)

Spec == Init /\ [][Next]_vars
=============================================================================
