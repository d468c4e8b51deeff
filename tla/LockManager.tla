---------------------------- MODULE LockManager ----------------------------
(***************************************************************************)
(* The session registry of the Workspace Credential Manager               *)
(* (wcm/internal/lock/manager.go): which sessions are registered, to whom *)
(* they belong, and whether their unlock window is open.                  *)
(*                                                                         *)
(* Every method of lock.Manager runs under its mutex, so every method is  *)
(* one action.                                                            *)
(***************************************************************************)
EXTENDS WCMData

CONSTANTS
    LockTimeout,    \* WCM_LOCK_TIMEOUT; getDuration accepts zero and negatives
    NoSession       \* a key the sessions map does not hold

ASSUME LockTimeoutAssumption == LockTimeout \in Int

VARIABLE sessions   \* Manager.sessions

Session == [user : UserID, locked : BOOLEAN, expires : Int \cup {NoTime}]

ASSUME NoSessionAssumption == NoSession \notin Session

LockTypeOK == sessions \in [SessionID -> Session \cup {NoSession}]

----------------------------------------------------------------------------
(* The methods of lock.Manager *)

\* Mutation: any registered session will do, whoever owns it.
Owns_AnyUser(u, s) == sessions[s] # NoSession

\* m.sessions[sessionID] exists and belongs to userID.
Owns(u, s) == sessions[s] # NoSession /\ sessions[s].user = u

LockedSession(u)   == [user |-> u, locked |-> TRUE, expires |-> NoTime]
UnlockedSession(u) == [user |-> u, locked |-> FALSE, expires |-> LockTimeout]

WindowPassed(session) ==
    /\ ~ session.locked
    /\ session.expires # NoTime
    /\ Passed(session.expires)

\* The lazy re-lock that GetSession and List share.
Relocked(session) ==
    IF WindowPassed(session) THEN LockedSession(session.user) ELSE session

\* An id that is already registered is overwritten, whoever owned it.
Register(u, s) == sessions' = [sessions EXCEPT ![s] = LockedSession(u)]

\* Mutation: a sliding window, every look at an unlocked session renews it.
GetSession_Renews(u, s) ==
    sessions' = IF ~ Owns(u, s) THEN sessions
                ELSE IF sessions[s].locked \/ WindowPassed(sessions[s])
                     THEN [sessions EXCEPT ![s] = Relocked(@)]
                     ELSE [sessions EXCEPT ![s].expires = LockTimeout]

\* The copy GetSession returns is sessions'[s], when Owns(u, s).
GetSession(u, s) ==
    sessions' = IF Owns(u, s) THEN [sessions EXCEPT ![s] = Relocked(@)] ELSE sessions

\* Mutations: no owner check; no expiry set.
Unlock_AnyOwner(u, s) ==
    sessions' = IF sessions[s] # NoSession
                THEN [sessions EXCEPT ![s] = UnlockedSession(@.user)]
                ELSE sessions

Unlock_NoExpiry(u, s) ==
    sessions' = IF Owns(u, s)
                THEN [sessions EXCEPT ![s] = [LockedSession(u) EXCEPT !.locked = FALSE]]
                ELSE sessions

Unlock(u, s) ==
    sessions' = IF Owns(u, s)
                THEN [sessions EXCEPT ![s] = UnlockedSession(u)]
                ELSE sessions

\* Mutation: the expiry is not cleared.
Lock_KeepsExpiry(u, s) ==
    Owns(u, s) /\ sessions' = [sessions EXCEPT ![s].locked = TRUE]

Lock(u, s) == Owns(u, s) /\ sessions' = [sessions EXCEPT ![s] = LockedSession(u)]

List(u) ==
    sessions' = [s \in SessionID |->
                    IF Owns(u, s) THEN Relocked(sessions[s]) ELSE sessions[s]]

Unregister(u, s) == Owns(u, s) /\ sessions' = [sessions EXCEPT ![s] = NoSession]

\* One unit of time passes.  Nothing re-locks by itself: only a later call does.
AgeSessions ==
    sessions' = [s \in SessionID |->
                    IF sessions[s] = NoSession THEN NoSession
                    ELSE [sessions[s] EXCEPT !.expires = Aged(@)]]

----------------------------------------------------------------------------
LockInit == sessions = [s \in SessionID |-> NoSession]

LockNext ==
    \/ AgeSessions
    \/ \E u \in UserID :
        \/ List(u)
        \/ \E s \in SessionID :
            \/ Register(u, s)
            \/ GetSession(u, s)
            \/ Unlock(u, s)
            \/ Lock(u, s)
            \/ Unregister(u, s)

LockSpec == LockInit /\ [][LockNext]_sessions

----------------------------------------------------------------------------
\* A session a caller would be served from right now: GetSession would
\* return it with Locked = false.
UnlockedNow(s) ==
    /\ sessions[s] # NoSession
    /\ ~ sessions[s].locked
    /\ ~ WindowPassed(sessions[s])

\* No unlock lasts for ever: an unlocked session has an expiry, at most the
\* configured timeout away, and a locked one has none, so that the re-lock
\* test of GetSession and List (Locked, ExpiresAt, now) can never be skipped.
WindowBounded ==
    \A s \in SessionID : sessions[s] # NoSession =>
        IF sessions[s].locked
        THEN sessions[s].expires = NoTime
        ELSE sessions[s].expires # NoTime /\ sessions[s].expires <= LockTimeout
=============================================================================
