-------------------------------- MODULE LocalAuth -------------------------------
(* Local accounts and revocable sessions (local_auth.py, routers/local_auth.py,   *)
(* local_accounts.py).  Login, password change and reset hold the credential row  *)
(* from their read to their commit, so each is one step; a request resolves its   *)
(* session without a lock, touches it in a second commit, and only then acts.     *)
(* One account; passwords are versions, and a wrong password is any other one.    *)
EXTENDS Integers, Sequences, FiniteSets

CONSTANTS
    MaxTokens,         \* bound: session tokens; one is never drawn twice, so they are numbered
    Request,           \* overlapping authenticated requests
    FAILURE_WINDOW,
    MaxFailures,       \* failures in a row that lock the account (5 in the code)
    SESSION_LIFETIME,
    IDLE_LIFETIME,
    MaxTime,           \* bound: the last instant of a behaviour
    MaxPassword        \* bound: password changes

ASSUME AuthAssumption ==
    /\ FAILURE_WINDOW \in Nat \ {0} /\ MaxFailures \in Nat \ {0}
    /\ SESSION_LIFETIME \in Nat \ {0} /\ IDLE_LIFETIME \in Nat \ {0}
    /\ MaxTime \in Nat /\ MaxPassword \in Nat \ {0} /\ MaxTokens \in Nat

VARIABLES
    now,               \* the wall clock
    credential,        \* the LocalCredential row; password 0 before bootstrap
    sessions,          \* token -> LocalSession row, with the password it was issued under
    drawn,             \* how many tokens were handed out so far
    request,           \* request -> what it holds between its steps
    guesses            \* instants of failed verifications since the last success or reset

authVars == <<now, credential, sessions, drawn, request, guesses>>

Idle == [stage |-> "idle"]
Resolved(t) == [stage |-> "resolved", token |-> t]
Never == -1

AuthInit ==
    /\ now = 0
    /\ credential = [password |-> 0, failed_attempts |-> 0,
                     last_failure_at |-> Never, locked_until |-> Never]
    /\ sessions = <<>> /\ drawn = 0
    /\ request = [r \in Request |-> Idle]
    /\ guesses = <<>>

AuthTick ==
    /\ now < MaxTime
    /\ now' = now + 1
    /\ UNCHANGED <<credential, sessions, drawn, request, guesses>>

\* The singleton row makes a second bootstrap an integrity error.
Bootstrap ==
    /\ credential.password = 0
    /\ credential' = [credential EXCEPT !.password = 1]
    /\ UNCHANGED <<now, sessions, drawn, request, guesses>>

---------------------------------------------------------------------------------
(* verify_login *)

Blocked == credential.locked_until > now

Cleared(password) == [password |-> password, failed_attempts |-> 0,
                      last_failure_at |-> Never, locked_until |-> Never]

\* Mutant of Failure: the lock is set only past the threshold.
FailureLate ==
    LET stale == credential.last_failure_at <= now - FAILURE_WINDOW
        count == (IF stale THEN 0 ELSE credential.failed_attempts) + 1
    IN  [credential EXCEPT !.failed_attempts = count,
                           !.last_failure_at = now,
                           !.locked_until = IF count > MaxFailures THEN now + FAILURE_WINDOW ELSE @]

\* A failure restarts the count after a quiet window and locks at the threshold.
Failure ==
    LET stale == \/ credential.last_failure_at = Never
                 \/ credential.last_failure_at <= now - FAILURE_WINDOW
        count == (IF stale THEN 0 ELSE credential.failed_attempts) + 1
    IN  [credential EXCEPT !.failed_attempts = count,
                           !.last_failure_at = now,
                           !.locked_until = IF count >= MaxFailures THEN now + FAILURE_WINDOW ELSE @]

\* Both the login form and the password form verify a password; a blocked account
\* answers as a failure and changes nothing.
FailedVerification ==
    /\ credential.password # 0 /\ ~Blocked
    /\ credential' = Failure
    /\ guesses' = Append(guesses, now)
    /\ UNCHANGED <<now, sessions, drawn, request>>

---------------------------------------------------------------------------------
(* issue_session *)

Without(f, keys) == [k \in DOMAIN f \ keys |-> f[k]]

\* Drops the previous session and every expired one, then adds the new row.
Issued(rows, t, dropped, password) ==
    LET kept == Without(rows, dropped \cup {k \in DOMAIN rows : rows[k].expires_at <= now})
    IN  [k \in DOMAIN kept \cup {t} |->
            IF k = t THEN [last_seen_at |-> now, expires_at |-> now + SESSION_LIFETIME,
                           under |-> password]
            ELSE kept[k]]

Login(previous) ==
    /\ credential.password # 0 /\ ~Blocked /\ drawn < MaxTokens
    /\ credential' = Cleared(credential.password)
    /\ guesses' = <<>>
    /\ drawn' = drawn + 1
    /\ sessions' = Issued(sessions, drawn + 1, previous, credential.password)
    /\ UNCHANGED <<now, request>>

\* local_accounts.py reset-password: a new password and no sessions.
ResetPassword ==
    /\ credential.password # 0 /\ credential.password < MaxPassword
    /\ credential' = Cleared(credential.password + 1)
    /\ sessions' = <<>>
    /\ guesses' = <<>>
    /\ UNCHANGED <<now, drawn, request>>

---------------------------------------------------------------------------------
(* Requests that carry a session cookie. *)

Usable(row, instant) ==
    /\ row.expires_at > instant
    /\ row.last_seen_at > instant - IDLE_LIFETIME

\* resolve_session up to its commit.  A row seen within the minute is not touched.
ResolveSession(r, t) ==
    /\ request[r] = Idle
    /\ t \in DOMAIN sessions /\ Usable(sessions[t], now)
    /\ request' = [request EXCEPT ![r] =
           IF sessions[t].last_seen_at <= now - 1
           THEN [stage |-> "touch", token |-> t, instant |-> now] ELSE Resolved(t)]
    /\ UNCHANGED <<now, credential, sessions, drawn, guesses>>

\* Mutant of TouchSession: the row is written whether or not it is still there.
TouchUpserts(r) ==
    /\ request[r].stage = "touch"
    /\ LET t == request[r].token
       IN  /\ sessions' = [k \in DOMAIN sessions \cup {t} |->
                  IF k = t THEN [last_seen_at |-> request[r].instant,
                                 expires_at |-> request[r].instant + SESSION_LIFETIME,
                                 under |-> credential.password]
                  ELSE sessions[k]]
           /\ request' = [request EXCEPT ![r] = Resolved(t)]
    /\ UNCHANGED <<now, credential, drawn, guesses>>

\* The UPDATE of a row deleted since is a StaleDataError: the request is refused.
TouchSession(r) ==
    /\ request[r].stage = "touch"
    /\ LET t == request[r].token
       IN  IF t \in DOMAIN sessions
           THEN /\ sessions' = [sessions EXCEPT ![t].last_seen_at = request[r].instant]
                /\ request' = [request EXCEPT ![r] = Resolved(t)]
           ELSE request' = [request EXCEPT ![r] = Idle] /\ UNCHANGED sessions
    /\ UNCHANGED <<now, credential, drawn, guesses>>

FinishRequest(r) ==
    /\ request[r].stage = "resolved"
    /\ request' = [request EXCEPT ![r] = Idle]
    /\ UNCHANGED <<now, credential, sessions, drawn, guesses>>

Logout(r) ==
    /\ request[r].stage = "resolved"
    /\ sessions' = Without(sessions, {request[r].token})
    /\ request' = [request EXCEPT ![r] = Idle]
    /\ UNCHANGED <<now, credential, drawn, guesses>>

\* Mutant of ChangePassword: only the caller's own session is revoked.
ChangeKeepsOthers(r) ==
    /\ request[r].stage = "resolved"
    /\ ~Blocked /\ credential.password < MaxPassword
    /\ drawn < MaxTokens
    /\ credential' = Cleared(credential.password + 1)
    /\ sessions' = Issued(sessions, drawn + 1, {request[r].token}, credential.password + 1)
    /\ drawn' = drawn + 1
    /\ guesses' = <<>>
    /\ request' = [request EXCEPT ![r] = Idle]
    /\ UNCHANGED now

\* The current password is verified under the row lock; every session goes.
ChangePassword(r) ==
    /\ request[r].stage = "resolved"
    /\ ~Blocked /\ credential.password < MaxPassword
    /\ drawn < MaxTokens
    /\ credential' = Cleared(credential.password + 1)
    /\ sessions' = Issued(<<>>, drawn + 1, {}, credential.password + 1)
    /\ drawn' = drawn + 1
    /\ guesses' = <<>>
    /\ request' = [request EXCEPT ![r] = Idle]
    /\ UNCHANGED now

AuthNext ==
    \/ AuthTick
    \/ Bootstrap
    \/ FailedVerification
    \/ ResetPassword
    \/ Login({}) \/ \E p \in DOMAIN sessions : Login({p})
    \/ \E r \in Request : \/ \E t \in DOMAIN sessions : ResolveSession(r, t)
                          \/ TouchSession(r) \/ FinishRequest(r) \/ Logout(r)
                          \/ ChangePassword(r)

AuthSpec == AuthInit /\ [][AuthNext]_authVars

---------------------------------------------------------------------------------
(* Properties. *)

AuthTypeOK ==
    /\ now \in 0..MaxTime
    /\ credential.password \in 0..MaxPassword
    /\ credential.failed_attempts \in 0..MaxFailures
    /\ credential.last_failure_at \in {Never} \cup 0..now
    /\ credential.locked_until \in {Never} \cup Nat
    /\ DOMAIN sessions \subseteq 1..drawn /\ drawn <= MaxTokens
    /\ \A t \in DOMAIN sessions : sessions[t].last_seen_at \in 0..now
    /\ \A r \in Request : request[r].stage \in {"idle", "touch", "resolved"}

\* However failures are spread over the lock and the quiet window, no span of
\* FAILURE_WINDOW holds more than MaxFailures failed verifications, unless a success or
\* a reset lies between them: the one MaxFailures later comes a whole window later
\* (local_auth.verify_login).
GuessesBounded ==
    \A i, j \in DOMAIN guesses :
        j = i + MaxFailures => guesses[j] >= guesses[i] + FAILURE_WINDOW

\* Every stored session was issued under the present password, whatever logins,
\* changes, resets and delayed touches overlap.
SessionsFollowPassword ==
    \A t \in DOMAIN sessions : sessions[t].under = credential.password

\* A revoked session stays revoked: no step brings back a token that was handed out
\* and is no longer stored, not even the touch of a request that read it before.
RevokedStaysRevoked ==
    [][\A t \in (1..drawn) \ DOMAIN sessions : t \notin DOMAIN sessions']_authVars
===============================================================================
