------------------------------ MODULE WCMData ------------------------------
(***************************************************************************)
(* What every part of the Workspace Credential Manager shares: users,     *)
(* session identifiers and time.                                          *)
(*                                                                         *)
(* An instant is stored as the time that remains until it: t > 0 lies     *)
(* ahead, 0 is the present instant, t < 0 has passed.  The code only      *)
(* compares instants with time.Now(), so nothing more is needed, and no   *)
(* bound on the clock.                                                    *)
(***************************************************************************)
EXTENDS Integers

CONSTANTS
    UserID,         \* the users of the WCM
    SessionID,      \* the identifiers a proxy may register
    ApprovalID,     \* the uuids approval requests may draw
    NoTime          \* the nil *time.Time

ASSUME NoTimeAssumption == NoTime \notin Int

\* time.Now().After(t) and time.Now().Before(t).  At t itself neither holds.
Passed(t) == t < 0
Ahead(t)  == t > 0

\* An instant after one unit of time.  A past instant stays past.
Aged(t) == IF t = NoTime \/ Passed(t) THEN t ELSE t - 1
=============================================================================
