----------------------------- MODULE ServicesProofs -----------------------------
(***************************************************************************)
(* Proofs about the services beside the execution core, for every instance *)
(* of MCServices: who gets in and what they reach (LocalAuth, ApiKeys,     *)
(* Access), captured traffic and findings (ApiSurface, FindingRecords),    *)
(* the inventory, and what all of them promise together.                   *)
(***************************************************************************)
EXTENDS MCServices, FiniteSetTheorems, TLAPS

-------------------------------------------------------------------------------
(* LocalAuth.                                                              *)

Credential ==
    [password : 0..MaxPassword, failed_attempts : 0..MaxFailures,
     last_failure_at : {Never} \cup Nat, locked_until : {Never} \cup Nat]

SessionRow == [last_seen_at : Nat, expires_at : Nat, under : 0..MaxPassword]

Holding ==
    {Idle} \cup [stage : {"touch"}, token : Nat, instant : Nat]
           \cup [stage : {"resolved"}, token : Nat]

AuthTyped ==
    /\ now \in 0..MaxTime /\ drawn \in 0..MaxTokens
    /\ credential \in Credential /\ credential.last_failure_at <= now
    /\ sessions \in [DOMAIN sessions -> SessionRow]
    /\ DOMAIN sessions \subseteq 1..drawn
    /\ \A t \in DOMAIN sessions : sessions[t].last_seen_at <= now
    /\ request \in [Request -> Holding]
    /\ \A r \in Request : request[r].stage = "touch" => request[r].instant <= now
    /\ guesses \in Seq(Nat)

\* A full count has locked the account for a window after its last failure, and an
\* empty one goes with no failure at all.
LockCovers ==
    /\ credential.failed_attempts = 0 <=> credential.last_failure_at = Never
    /\ credential.failed_attempts = MaxFailures =>
          credential.locked_until >= credential.last_failure_at + FAILURE_WINDOW

\* The count is the length of the current run of guesses; a run starts a window after
\* every guess before it.
CountIsRun ==
    LET before == Len(guesses) - credential.failed_attempts
    IN  /\ before >= 0
        /\ \A i \in DOMAIN guesses :
              /\ guesses[i] <= credential.last_failure_at
              /\ \A j \in DOMAIN guesses :
                    i <= before /\ before < j => guesses[j] >= guesses[i] + FAILURE_WINDOW

\* Before the bootstrap there is nothing to hold a session under.
NobodyBeforeBootstrap == credential.password = 0 => DOMAIN sessions = {}

AuthInv ==
    /\ AuthTyped /\ LockCovers /\ CountIsRun /\ GuessesBounded
    /\ NobodyBeforeBootstrap /\ SessionsFollowPassword

\* The start: no credential, no session, no failure.
LEMMA AuthInitInv == AuthInit => AuthInv
  <1> SUFFICES ASSUME AuthInit PROVE AuthInv
    OBVIOUS
  <1> USE AuthAssumption DEF AuthAssumption, AuthInit, Never
  <1>1. AuthTyped
    BY DEF AuthTyped, Credential, SessionRow, Holding, Idle
  <1>2. LockCovers /\ CountIsRun /\ GuessesBounded
    BY DEF LockCovers, CountIsRun, GuessesBounded
  <1>3. NobodyBeforeBootstrap /\ SessionsFollowPassword
    BY DEF NobodyBeforeBootstrap, SessionsFollowPassword
  <1> QED
    BY <1>1, <1>2, <1>3 DEF AuthInv

\* The invariant implies the type invariant that the runs check.
LEMMA AuthInvType == AuthInv => AuthTypeOK
  <1> SUFFICES ASSUME AuthInv PROVE AuthTypeOK
    OBVIOUS
  <1>1. \A r \in Request : request[r].stage \in {"idle", "touch", "resolved"}
    BY DEF AuthInv, AuthTyped, Holding, Idle
  <1>2. /\ credential.password \in 0..MaxPassword /\ credential.failed_attempts \in 0..MaxFailures
        /\ credential.last_failure_at \in {Never} \cup Nat
        /\ credential.locked_until \in {Never} \cup Nat
    BY DEF AuthInv, AuthTyped, Credential
  <1>3. \A t \in DOMAIN sessions : sessions[t].last_seen_at \in 0..now
    BY AuthAssumption DEF AuthInv, AuthTyped, SessionRow, AuthAssumption
  <1> QED
    BY <1>1, <1>2, <1>3, AuthAssumption DEF AuthInv, AuthTyped, AuthTypeOK, AuthAssumption

\* A failed verification (verify_login) extends the run or starts one.
LEMMA FailureKeepsInv ==
    ASSUME AuthInv, FailedVerification PROVE AuthInv'
  <1> USE AuthAssumption DEF AuthAssumption
  <1> DEFINE k == credential.failed_attempts
             n == Len(guesses)
             last == credential.last_failure_at
             stale == last = Never \/ last <= now - FAILURE_WINDOW
             count == (IF stale THEN 0 ELSE k) + 1
  <1>1. /\ k \in 0..MaxFailures /\ n \in Nat /\ last \in {Never} \cup Nat /\ last <= now
        /\ now \in Nat /\ FAILURE_WINDOW \in Nat /\ credential.locked_until \in {Never} \cup Nat
        /\ credential.password \in 0..MaxPassword /\ guesses \in Seq(Nat)
    BY DEF AuthInv, AuthTyped, Credential
  <1>2. /\ credential.locked_until <= now /\ credential.password # 0
        /\ guesses' = Append(guesses, now) /\ UNCHANGED <<now, sessions, drawn, request>>
    BY <1>1 DEF FailedVerification, Blocked, Never
  <1>3. /\ credential' \in [password : 0..MaxPassword, failed_attempts : Nat,
                            last_failure_at : Nat, locked_until : {Never} \cup Nat]
        /\ credential'.password = credential.password
        /\ credential'.failed_attempts = count
        /\ credential'.last_failure_at = now
        /\ credential'.locked_until = IF count >= MaxFailures THEN now + FAILURE_WINDOW
                                      ELSE credential.locked_until
    <2>1. credential' = [credential EXCEPT !.failed_attempts = count, !.last_failure_at = now,
             !.locked_until = IF count >= MaxFailures THEN now + FAILURE_WINDOW ELSE @]
      BY DEF FailedVerification, Failure
    <2>2. credential \in Credential /\ count \in Nat
      BY <1>1 DEF AuthInv, AuthTyped
    <2> HIDE DEF count
    <2>3. now + FAILURE_WINDOW \in Nat
      BY <1>1
    <2> QED
      BY <1>1, <2>1, <2>2, <2>3 DEF Credential
  <1>4. ~stale => k < MaxFailures /\ k > 0
    BY <1>1, <1>2 DEF AuthInv, LockCovers, Never
  <1>5. count \in 1..MaxFailures /\ count <= n + 1
    BY <1>1, <1>4 DEF AuthInv, CountIsRun
  <1>c. (stale => count = 1) /\ (~stale => count = k + 1)
    BY <1>1
  <1> HIDE DEF count, stale
  <1>6. AuthTyped'
    <2>1. credential' \in Credential
      BY <1>3, <1>5 DEF Credential
    <2> QED
      BY <1>1, <1>2, <1>3, <2>1 DEF AuthInv, AuthTyped
  <1>7. LockCovers'
    BY <1>1, <1>3, <1>5 DEF LockCovers, Never
  <1>8. /\ Len(guesses') = n + 1 /\ DOMAIN guesses' = 1..(n + 1) /\ DOMAIN guesses = 1..n
        /\ guesses'[n + 1] = now
        /\ \A i \in 1..n : guesses'[i] = guesses[i] /\ guesses[i] \in Nat
    BY <1>1, <1>2
  <1>9. ASSUME NEW i \in 1..n, stale \/ i <= n - k
        PROVE  now >= guesses[i] + FAILURE_WINDOW
    <2>1. guesses[i] <= last
      BY <1>8 DEF AuthInv, CountIsRun
    <2>2. CASE stale
      BY <1>1, <1>8, <2>1, <2>2 DEF Never, stale
    <2>3. CASE ~stale
      <3>1. n \in 1..n /\ n - k < n /\ i <= n - k
        BY <1>1, <1>4, <1>9, <2>3
      <3>2. guesses[n] <= last /\ guesses[n] >= guesses[i] + FAILURE_WINDOW
        BY <1>8, <3>1 DEF AuthInv, CountIsRun
      <3> QED
        BY <1>1, <1>8, <3>1, <3>2 DEF Never
    <2> QED
      BY <2>2, <2>3
  <1>10. CountIsRun'
    <2>1. ASSUME NEW i \in 1..(n + 1) PROVE guesses'[i] <= now
      <3>1. \A h \in 1..n : guesses[h] <= last
        BY <1>8 DEF AuthInv, CountIsRun
      <3>2. last \in Int
        BY <1>1 DEF Never
      <3>3. CASE i = n + 1
        BY <1>1, <1>8, <3>3
      <3>4. CASE i # n + 1
        <4>1. i \in 1..n
          BY <1>1, <3>4
        <4> QED
          BY <1>1, <1>8, <3>1, <3>2, <4>1
      <3> QED
        BY <3>3, <3>4
    <2>2. ASSUME NEW i \in 1..(n + 1), NEW j \in 1..(n + 1), i <= n + 1 - count, n + 1 - count < j
          PROVE  guesses'[j] >= guesses'[i] + FAILURE_WINDOW
      <3>1. i \in 1..n /\ (stale \/ i <= n - k)
        BY <1>1, <1>5, <1>c, <2>2
      <3>2. CASE j = n + 1
        BY <1>8, <1>9, <3>1, <3>2
      <3>3. CASE j # n + 1
        <4>1. j \in 1..n /\ ~stale /\ n - k < j /\ i <= n - k
          <5>1. n \in Nat /\ k \in Nat
            BY <1>1
          <5> HIDE DEF n, k
          <5>2. j \in 1..n
            BY <2>2, <3>3, <5>1
          <5>3. ~stale
            BY <1>c, <2>2, <5>1, <5>2
          <5> QED
            BY <1>c, <2>2, <3>1, <5>1, <5>2, <5>3
        <4> QED
          BY <1>8, <3>1, <4>1 DEF AuthInv, CountIsRun
      <3> QED
        BY <3>2, <3>3
    <2> QED
      <3>1. (Len(guesses) - credential.failed_attempts)' = n + 1 - count
        BY <1>3, <1>8
      <3>2. n + 1 - count >= 0
        BY <1>1, <1>5
      <3> HIDE DEF n
      <3> QED
        BY <1>3, <1>8, <2>1, <2>2, <3>1, <3>2 DEF CountIsRun
  <1>11. GuessesBounded'
    <2> SUFFICES ASSUME NEW i \in 1..(n + 1), NEW j \in 1..(n + 1), j = i + MaxFailures
                 PROVE  guesses'[j] >= guesses'[i] + FAILURE_WINDOW
      BY <1>8 DEF GuessesBounded
    <2>1. CASE j = n + 1
      <3>1. i \in 1..n /\ (stale \/ i <= n - k)
        BY <1>1, <1>4, <2>1
      <3> QED
        BY <1>8, <1>9, <2>1, <3>1
    <2>2. CASE j # n + 1
      <3>1. i \in 1..n /\ j \in 1..n
        BY <1>1, <2>2
      <3> QED
        BY <1>8, <3>1 DEF AuthInv, GuessesBounded
    <2> QED
      BY <2>1, <2>2
  <1>12. NobodyBeforeBootstrap' /\ SessionsFollowPassword'
    BY <1>2, <1>3 DEF AuthInv, NobodyBeforeBootstrap, SessionsFollowPassword
  <1> QED
    BY <1>6, <1>7, <1>10, <1>11, <1>12 DEF AuthInv

\* issue_session keeps some of the rows as they are and adds one under the password given.
LEMMA IssuedRows ==
    ASSUME NEW held, held \in [DOMAIN held -> SessionRow], NEW t, NEW gone,
           NEW password \in 0..MaxPassword, now \in Nat, SESSION_LIFETIME \in Nat
    PROVE  LET new == Issued(held, t, gone, password)
           IN  /\ new \in [DOMAIN new -> SessionRow]
               /\ t \in DOMAIN new /\ DOMAIN new \subseteq DOMAIN held \cup {t}
               /\ new[t].under = password /\ new[t].last_seen_at = now
               /\ \A k \in DOMAIN new : k # t => k \in DOMAIN held /\ new[k] = held[k]
  <1> DEFINE kept == Without(held, gone \cup {k \in DOMAIN held : held[k].expires_at <= now})
             new == Issued(held, t, gone, password)
             row == [last_seen_at |-> now, expires_at |-> now + SESSION_LIFETIME, under |-> password]
  <1>1. DOMAIN kept \subseteq DOMAIN held /\ \A k \in DOMAIN kept : kept[k] = held[k]
    BY DEF Without
  <1>2. new = [k \in DOMAIN kept \cup {t} |-> IF k = t THEN row ELSE kept[k]]
    BY DEF Issued
  <1>3. row \in SessionRow /\ row.under = password /\ row.last_seen_at = now
    BY DEF SessionRow
  <1> HIDE DEF kept, row, new
  <1>4. DOMAIN new = DOMAIN kept \cup {t} /\ new[t] = row
    BY <1>2
  <1>5. \A k \in DOMAIN new : k # t => k \in DOMAIN held /\ new[k] = held[k]
    BY <1>1, <1>2
  <1>6. \A k \in DOMAIN new : new[k] \in SessionRow
    BY <1>3, <1>4, <1>5
  <1>7. new \in [DOMAIN new -> SessionRow]
    BY <1>2, <1>4, <1>6
  <1> QED
    BY <1>1, <1>3, <1>4, <1>5, <1>7 DEF new

\* The parts about failures do not depend on requests, sessions or a later clock.
LEMMA GuessesFramed ==
    ASSUME AuthInv, UNCHANGED guesses,
           credential'.failed_attempts = credential.failed_attempts,
           credential'.last_failure_at = credential.last_failure_at,
           credential'.locked_until = credential.locked_until
    PROVE  LockCovers' /\ CountIsRun' /\ GuessesBounded'
  BY DEF AuthInv, LockCovers, CountIsRun, GuessesBounded

\* A success or a reset clears the count and what it counts.
LEMMA ClearedKeepsGuesses ==
    ASSUME AuthInv, guesses' = <<>>, NEW password \in 0..MaxPassword,
           credential' = Cleared(password)
    PROVE  /\ LockCovers' /\ CountIsRun' /\ GuessesBounded'
           /\ credential' \in Credential /\ credential'.password = password
           /\ credential'.last_failure_at = -1
  <1>1. /\ credential' = [password |-> password, failed_attempts |-> 0,
                          last_failure_at |-> -1, locked_until |-> -1]
        /\ MaxFailures \in Nat \ {0}
    BY AuthAssumption DEF Cleared, Never, AuthAssumption
  <1>2. credential' \in Credential
    BY <1>1 DEF Credential, Never
  <1> QED
    BY <1>1, <1>2 DEF LockCovers, CountIsRun, GuessesBounded, Never

\* The clock and the bootstrap.
LEMMA ClockKeepsInv ==
    ASSUME AuthInv, AuthTick \/ Bootstrap PROVE AuthInv'
  <1> USE AuthAssumption DEF AuthAssumption
  <1>1. /\ UNCHANGED <<guesses, sessions, drawn, request>>
        /\ credential'.failed_attempts = credential.failed_attempts
        /\ credential'.last_failure_at = credential.last_failure_at
        /\ credential'.locked_until = credential.locked_until
        /\ credential' \in Credential
        /\ now' \in 0..MaxTime /\ now <= now' /\ now \in Nat
        /\ credential.last_failure_at \in Int
    <2>1. /\ credential \in Credential /\ now \in 0..MaxTime
          /\ credential.last_failure_at \in Int
      BY DEF AuthInv, AuthTyped, Credential, Never
    <2>2. CASE AuthTick
      BY <2>1, <2>2 DEF AuthTick
    <2>3. CASE Bootstrap
      <3>1. credential' = [credential EXCEPT !.password = 1] /\ 1 \in 0..MaxPassword
        BY <2>3 DEF Bootstrap
      <3> QED
        BY <2>1, <2>3, <3>1 DEF Bootstrap, Credential
    <2> QED
      BY <2>2, <2>3
  <1>2. LockCovers' /\ CountIsRun' /\ GuessesBounded'
    BY <1>1, GuessesFramed
  <1>3. AuthTyped'
    <2>1. ASSUME NEW t \in DOMAIN sessions PROVE sessions[t].last_seen_at <= now'
      BY <1>1 DEF AuthInv, AuthTyped, SessionRow
    <2>2. ASSUME NEW r \in Request, request[r].stage = "touch" PROVE request[r].instant <= now'
      <3>1. request[r] \in Holding /\ request[r].instant <= now
        BY <2>2 DEF AuthInv, AuthTyped
      <3>2. request[r].instant \in Nat
        BY <2>2, <3>1 DEF Holding, Idle
      <3> QED
        BY <1>1, <3>1, <3>2
    <2>3. credential'.last_failure_at <= now'
      BY <1>1 DEF AuthInv, AuthTyped
    <2> QED
      BY <1>1, <2>1, <2>2, <2>3 DEF AuthInv, AuthTyped
  <1>4. NobodyBeforeBootstrap' /\ SessionsFollowPassword'
    BY <1>1 DEF AuthTick, Bootstrap, AuthInv, AuthTyped, Credential, NobodyBeforeBootstrap,
                SessionsFollowPassword
  <1> QED
    BY <1>2, <1>3, <1>4 DEF AuthInv

\* Steps that replace the sessions: login, reset and password change.
LEMMA CredentialKeepsInv ==
    ASSUME AuthInv,
           \/ ResetPassword
           \/ \E previous \in SUBSET DOMAIN sessions : Login(previous)
           \/ \E r \in Request : ChangePassword(r)
    PROVE  AuthInv'
  <1> USE AuthAssumption DEF AuthAssumption
  <1>0. /\ now \in Nat /\ drawn \in 0..MaxTokens /\ credential.password \in 0..MaxPassword
        /\ sessions \in [DOMAIN sessions -> SessionRow]
        /\ DOMAIN sessions \subseteq 1..drawn
    BY DEF AuthInv, AuthTyped, Credential
  <1>1. CASE ResetPassword
    <2>1. /\ credential' = Cleared(credential.password + 1) /\ sessions' = <<>> /\ guesses' = <<>>
          /\ credential.password + 1 \in 0..MaxPassword /\ UNCHANGED <<now, drawn, request>>
      BY <1>0, <1>1 DEF ResetPassword
    <2>2. /\ LockCovers' /\ CountIsRun' /\ GuessesBounded'
          /\ credential' \in Credential /\ credential'.last_failure_at = -1
      BY <2>1, ClearedKeepsGuesses
    <2>3. AuthTyped'
      BY <1>0, <2>1, <2>2 DEF AuthInv, AuthTyped
    <2>4. NobodyBeforeBootstrap' /\ SessionsFollowPassword'
      BY <2>1 DEF NobodyBeforeBootstrap, SessionsFollowPassword
    <2> QED
      BY <2>2, <2>3, <2>4 DEF AuthInv
  <1>2. ASSUME NEW held, held \in [DOMAIN held -> SessionRow], DOMAIN held \subseteq DOMAIN sessions,
               NEW gone, NEW password \in 1..MaxPassword, drawn < MaxTokens,
               \A k \in DOMAIN held : held[k] = sessions[k] /\ held[k].under = password,
               credential' = Cleared(password), guesses' = <<>>, drawn' = drawn + 1,
               sessions' = Issued(held, drawn + 1, gone, password), UNCHANGED now,
               request' \in [Request -> Holding],
               \A r \in Request : request'[r].stage = "touch" => request'[r] = request[r]
        PROVE  AuthInv'
    <2>1. /\ LockCovers' /\ CountIsRun' /\ GuessesBounded' /\ credential'.password = password
          /\ credential' \in Credential /\ credential'.last_failure_at = -1
      BY <1>2, ClearedKeepsGuesses
    <2>2. /\ sessions' \in [DOMAIN sessions' -> SessionRow]
          /\ DOMAIN sessions' \subseteq DOMAIN held \cup {drawn + 1}
          /\ sessions'[drawn + 1].under = password /\ sessions'[drawn + 1].last_seen_at = now
          /\ \A k \in DOMAIN sessions' : k # drawn + 1 => k \in DOMAIN held /\ sessions'[k] = held[k]
      BY <1>0, <1>2, IssuedRows
    <2>3. AuthTyped'
      <3>1. DOMAIN sessions' \subseteq 1..drawn' /\ drawn' \in 0..MaxTokens
        BY <1>0, <1>2, <2>2
      <3>2. \A t \in DOMAIN sessions' : sessions'[t].last_seen_at <= now'
        BY <1>0, <1>2, <2>2 DEF AuthInv, AuthTyped
      <3>3. \A r \in Request : request'[r].stage = "touch" => request'[r].instant <= now'
        BY <1>2 DEF AuthInv, AuthTyped
      <3> QED
        BY <1>0, <1>2, <2>1, <2>2, <3>1, <3>2, <3>3 DEF AuthInv, AuthTyped
    <2>4. NobodyBeforeBootstrap' /\ SessionsFollowPassword'
      BY <1>2, <2>1, <2>2 DEF NobodyBeforeBootstrap, SessionsFollowPassword
    <2> QED
      BY <2>1, <2>3, <2>4 DEF AuthInv
  <1>3. ASSUME NEW previous \in SUBSET DOMAIN sessions, Login(previous) PROVE AuthInv'
    <2>1. credential.password \in 1..MaxPassword
      BY <1>0, <1>3 DEF Login
    <2>2. \A k \in DOMAIN sessions : sessions[k].under = credential.password
      BY DEF AuthInv, SessionsFollowPassword
    <2>3. UNCHANGED <<request, now>> /\ request \in [Request -> Holding]
      BY <1>3 DEF Login, AuthInv, AuthTyped
    <2> QED
      BY <1>0, <1>2, <1>3, <2>1, <2>2, <2>3 DEF Login
  <1>4. ASSUME NEW r \in Request, ChangePassword(r) PROVE AuthInv'
    <2>1. credential.password + 1 \in 1..MaxPassword
      BY <1>0, <1>4 DEF ChangePassword
    <2>2. request' = [request EXCEPT ![r] = Idle] /\ request \in [Request -> Holding]
      BY <1>4 DEF ChangePassword, AuthInv, AuthTyped
    <2>3. /\ request' \in [Request -> Holding]
          /\ \A q \in Request : request'[q].stage = "touch" => request'[q] = request[q]
      BY <2>2 DEF Holding, Idle
    <2>4. <<>> \in [DOMAIN <<>> -> SessionRow] /\ DOMAIN <<>> = {}
      OBVIOUS
    <2> QED
      BY <1>0, <1>2, <1>4, <2>1, <2>3, <2>4 DEF ChangePassword
  <1> QED
    BY <1>1, <1>3, <1>4

\* Steps of a request that holds a session cookie: resolve_session, its touch, the end of
\* the request and logout.
LEMMA RequestKeepsInv ==
    ASSUME AuthInv, NEW r \in Request,
           \/ \E t \in DOMAIN sessions : ResolveSession(r, t)
           \/ TouchSession(r) \/ FinishRequest(r) \/ Logout(r)
    PROVE  AuthInv'
  <1> USE AuthAssumption DEF AuthAssumption
  <1>0. /\ now \in Nat /\ drawn \in 0..MaxTokens /\ request \in [Request -> Holding]
        /\ sessions \in [DOMAIN sessions -> SessionRow]
        /\ DOMAIN sessions \subseteq 1..drawn
        /\ UNCHANGED <<now, credential, drawn, guesses>>
    BY DEF AuthInv, AuthTyped, ResolveSession, TouchSession, FinishRequest, Logout
  <1>1. LockCovers' /\ CountIsRun' /\ GuessesBounded'
    BY <1>0, GuessesFramed
  <1>2. ASSUME NEW held \in Holding, request' = [request EXCEPT ![r] = held],
               held.stage = "touch" => held.instant <= now
        PROVE  /\ request' \in [Request -> Holding]
               /\ \A q \in Request : request'[q].stage = "touch" => request'[q].instant <= now'
    BY <1>0, <1>2 DEF AuthInv, AuthTyped
  <1>3. ASSUME sessions' \in [DOMAIN sessions' -> SessionRow], DOMAIN sessions' \subseteq DOMAIN sessions,
               \A k \in DOMAIN sessions' : /\ sessions'[k].under = sessions[k].under
                                           /\ sessions'[k].last_seen_at <= now,
               request' \in [Request -> Holding],
               \A q \in Request : request'[q].stage = "touch" => request'[q].instant <= now'
        PROVE  AuthInv'
    <2>1. AuthTyped'
      BY <1>0, <1>3 DEF AuthInv, AuthTyped
    <2>2. NobodyBeforeBootstrap' /\ SessionsFollowPassword'
      BY <1>0, <1>3 DEF AuthInv, NobodyBeforeBootstrap, SessionsFollowPassword
    <2> QED
      BY <1>1, <2>1, <2>2 DEF AuthInv
  <1>4. \A k \in DOMAIN sessions : sessions[k].last_seen_at <= now
    BY DEF AuthInv, AuthTyped
  <1>5. ASSUME NEW t \in DOMAIN sessions, ResolveSession(r, t) PROVE AuthInv'
    <2> DEFINE held == IF sessions[t].last_seen_at <= now - 1
                       THEN [stage |-> "touch", token |-> t, instant |-> now] ELSE Resolved(t)
    <2>1. held \in Holding /\ (held.stage = "touch" => held.instant <= now)
      BY <1>0 DEF Holding, Resolved
    <2>2. request' = [request EXCEPT ![r] = held] /\ UNCHANGED sessions
      BY <1>5 DEF ResolveSession
    <2> HIDE DEF held
    <2> QED
      BY <1>0, <1>2, <1>3, <1>4, <2>1, <2>2
  <1>6. CASE FinishRequest(r)
    <2>1. request' = [request EXCEPT ![r] = Idle] /\ Idle \in Holding /\ Idle.stage # "touch"
      BY <1>6 DEF FinishRequest, Idle, Holding
    <2> QED
      BY <1>0, <1>2, <1>3, <1>4, <1>6, <2>1 DEF FinishRequest
  <1>7. CASE Logout(r)
    <2>1. request' = [request EXCEPT ![r] = Idle] /\ Idle \in Holding /\ Idle.stage # "touch"
      BY <1>7 DEF Logout, Idle, Holding
    <2>2. /\ sessions' \in [DOMAIN sessions' -> SessionRow]
          /\ DOMAIN sessions' \subseteq DOMAIN sessions
          /\ \A k \in DOMAIN sessions' : sessions'[k] = sessions[k]
      BY <1>0, <1>7 DEF Logout, Without
    <2> QED
      BY <1>2, <1>3, <1>4, <2>1, <2>2
  <1>8. CASE TouchSession(r)
    <2> DEFINE t == request[r].token
    <2>1. request[r].instant \in Nat /\ request[r].instant <= now /\ t \in Nat
      BY <1>0, <1>8 DEF TouchSession, Holding, Idle, AuthInv, AuthTyped
    <2>2. CASE t \in DOMAIN sessions
      <3>1. /\ sessions' = [sessions EXCEPT ![t].last_seen_at = request[r].instant]
            /\ request' = [request EXCEPT ![r] = Resolved(t)]
        BY <1>8, <2>2 DEF TouchSession
      <3>2. /\ sessions' \in [DOMAIN sessions -> SessionRow] /\ DOMAIN sessions' = DOMAIN sessions
            /\ \A k \in DOMAIN sessions : k # t => sessions'[k] = sessions[k]
            /\ sessions'[t].under = sessions[t].under
            /\ sessions'[t].last_seen_at = request[r].instant
        BY <1>0, <2>1, <2>2, <3>1 DEF SessionRow
      <3>3. Resolved(t) \in Holding /\ Resolved(t).stage # "touch"
        BY <2>1 DEF Resolved, Holding
      <3> QED
        BY <1>2, <1>3, <1>4, <2>1, <3>1, <3>2, <3>3
    <2>3. CASE t \notin DOMAIN sessions
      <3>1. request' = [request EXCEPT ![r] = Idle] /\ UNCHANGED sessions
        BY <1>8, <2>3 DEF TouchSession
      <3>2. Idle \in Holding /\ Idle.stage # "touch"
        BY DEF Idle, Holding
      <3> QED
        BY <1>0, <1>2, <1>3, <1>4, <3>1, <3>2
    <2> QED
      BY <2>2, <2>3
  <1> QED
    BY <1>5, <1>6, <1>7, <1>8

\* The invariant of local authentication is inductive.
LEMMA AuthInductive == AuthInv /\ [AuthNext]_authVars => AuthInv'
  <1> SUFFICES ASSUME AuthInv, [AuthNext]_authVars PROVE AuthInv'
    OBVIOUS
  <1>1. CASE UNCHANGED authVars
    BY <1>1 DEF authVars, AuthInv, AuthTyped, LockCovers, CountIsRun, GuessesBounded,
                NobodyBeforeBootstrap, SessionsFollowPassword
  <1>2. CASE AuthNext
    <2>1. CASE Login({}) \/ \E p \in DOMAIN sessions : Login({p})
      BY <2>1, CredentialKeepsInv
    <2> QED
      BY <1>2, <2>1, FailureKeepsInv, ClockKeepsInv, CredentialKeepsInv, RequestKeepsInv DEF AuthNext
  <1> QED
    BY <1>1, <1>2

\* A token that was handed out and is gone is never stored again.
LEMMA RevokedStep ==
    ASSUME AuthInv, AuthNext
    PROVE  \A t \in (1..drawn) \ DOMAIN sessions : t \notin DOMAIN sessions'
  <1> SUFFICES ASSUME NEW t \in (1..drawn) \ DOMAIN sessions, t \in DOMAIN sessions' PROVE FALSE
    OBVIOUS
  <1>0. drawn \in Nat /\ t # drawn + 1
    BY DEF AuthInv, AuthTyped
  <1>1. ASSUME NEW held, NEW gone, NEW password, DOMAIN held \subseteq DOMAIN sessions
        PROVE  sessions' # Issued(held, drawn + 1, gone, password)
    BY <1>0, <1>1 DEF Issued, Without
  <1>2. DOMAIN <<>> \subseteq DOMAIN sessions /\ sessions' # <<>>
    OBVIOUS
  <1>3. ~ResetPassword /\ \A previous : ~Login(previous)
    BY <1>1, <1>2 DEF ResetPassword, Login
  <1>4. ASSUME NEW r \in Request PROVE ~ChangePassword(r) /\ ~Logout(r) /\ ~TouchSession(r)
    BY <1>1, <1>2 DEF ChangePassword, Logout, TouchSession, Without
  <1> QED
    BY <1>3, <1>4 DEF AuthNext, AuthTick, Bootstrap, FailedVerification, ResolveSession,
                      FinishRequest

\* However failures, locks, successes and resets alternate, no window holds more than
\* MaxFailures guesses (local_auth.verify_login).
THEOREM GuessesTheorem == AuthSpec => []GuessesBounded
  <1>1. AuthInv => GuessesBounded
    BY DEF AuthInv
  <1> QED
    BY <1>1, AuthInitInv, AuthInductive, PTL DEF AuthSpec

\* Whatever logins, changes, resets and delayed touches overlap, no session outlives the
\* password it was issued under (routers/local_auth.py).
THEOREM SessionsTheorem == AuthSpec => []SessionsFollowPassword
  <1>1. AuthInv => SessionsFollowPassword
    BY DEF AuthInv
  <1> QED
    BY <1>1, AuthInitInv, AuthInductive, PTL DEF AuthSpec

-------------------------------------------------------------------------------
(* ApiKeys.                                                                *)

KeyRow == [user : KeyOwner, scope : {"full", "runner"}]

KeyHolding ==
    {NoKeyCall} \cup [stage : {"stamp"}, key : Key, row : KeyRow]
                \cup [stage : {"admitted"}, user : KeyOwner, scope : {"full", "runner"}, key : Key]
                \cup [stage : {"create"}, user : KeyOwner, scope : {"full", "runner"}]

\* Requests that counted u's keys and have not inserted theirs yet.
Pending(u) == {c \in KeyCall : keyCall[c].stage = "create" /\ keyCall[c].user = u}

\* A stored key was never revoked, and there are finitely many.
KeysTyped ==
    /\ keys \in [DOMAIN keys -> KeyRow] /\ DOMAIN keys \subseteq Key
    /\ IsFiniteSet(DOMAIN keys)
    /\ keyCall \in [KeyCall -> KeyHolding]
    /\ DOMAIN keys \cap revoked = {}

KeysInv == KeysTyped /\ KeysOvershootByOverlap

\* The keys of a user and the requests about to add one are finitely many.
LEMMA KeySetsFinite ==
    ASSUME KeysTyped, NEW u \in KeyOwner
    PROVE  /\ IsFiniteSet(KeysOf(u)) /\ Cardinality(KeysOf(u)) \in Nat
           /\ IsFiniteSet(Pending(u)) /\ Cardinality(Pending(u)) \in Nat
           /\ Cardinality(Pending(u)) <= Cardinality(KeyCall) /\ Cardinality(KeyCall) \in Nat
  <1>1. KeysOf(u) \subseteq DOMAIN keys /\ Pending(u) \subseteq KeyCall
    BY DEF KeysOf, Pending
  <1>2. IsFiniteSet(KeyCall) /\ IsFiniteSet(DOMAIN keys)
    BY KeysAssumption DEF KeysAssumption, KeysTyped
  <1> QED
    BY <1>1, <1>2, FS_Subset, FS_CardinalityType

\* The start: no key and no request.
LEMMA KeysInitInv == KeysInit => KeysInv
  <1> SUFFICES ASSUME KeysInit PROVE KeysInv
    OBVIOUS
  <1>1. DOMAIN keys = {} /\ keys \in [DOMAIN keys -> KeyRow]
    BY DEF KeysInit
  <1>2. KeysTyped
    BY <1>1, FS_EmptySet DEF KeysInit, KeysTyped, KeyHolding
  <1>3. ASSUME NEW u \in KeyOwner
        PROVE  Cardinality(KeysOf(u)) + Cardinality(Pending(u)) <= MaxKeys + Cardinality(KeyCall) - 1
    <2>1. KeysOf(u) = {} /\ Pending(u) = {}
      BY <1>1 DEF KeysInit, KeysOf, Pending, NoKeyCall
    <2>2. Cardinality({}) = 0
      BY FS_EmptySet
    <2> QED
      BY <1>2, <2>1, <2>2, KeySetsFinite, KeysAssumption DEF KeysAssumption
  <1> QED
    BY <1>2, <1>3 DEF KeysInv, KeysOvershootByOverlap, Pending

\* A request that holds nothing to insert does not count towards the overshoot.
LEMMA CallsKeepKeys ==
    ASSUME KeysInv, NEW c \in KeyCall, NEW held \in KeyHolding,
           held.stage # "create", keyCall' = [keyCall EXCEPT ![c] = held], UNCHANGED <<keys, revoked>>
    PROVE  KeysInv'
  <1>1. KeysTyped'
    BY DEF KeysInv, KeysTyped
  <1>2. ASSUME NEW u \in KeyOwner
        PROVE  Cardinality(KeysOf(u)') + Cardinality(Pending(u)')
                   <= MaxKeys + Cardinality(KeyCall) - 1
    <2>1. KeysOf(u)' = KeysOf(u) /\ Pending(u)' \subseteq Pending(u)
      BY DEF KeysInv, KeysTyped, KeysOf, Pending
    <2>2. Cardinality(Pending(u)') <= Cardinality(Pending(u)) /\ Cardinality(Pending(u)') \in Nat
      BY <2>1, KeySetsFinite, FS_Subset, FS_CardinalityType DEF KeysInv
    <2>3. Cardinality(KeysOf(u)) + Cardinality(Pending(u)) <= MaxKeys + Cardinality(KeyCall) - 1
      BY DEF KeysInv, KeysOvershootByOverlap, Pending
    <2> QED
      BY <2>1, <2>2, <2>3, KeySetsFinite, KeysAssumption DEF KeysInv, KeysAssumption
  <1> QED
    BY <1>1, <1>2 DEF KeysInv, KeysOvershootByOverlap, Pending, KeysOf

\* Every step of apikeys.py and of the request's identification keeps the invariant.
LEMMA KeysNextInv == KeysInv /\ KeysNext => KeysInv'
  <1> SUFFICES ASSUME KeysInv, NEW c \in KeyCall,
                 \/ _resolve_api_key(c) \/ Leave(c)
                 \/ \E k \in Key : ReadKey(c, k) \/ InsertKey(c, k)
                 \/ \E u \in KeyOwner : \/ \E scope \in {"full", "runner"} : CountKeys(c, u, scope)
                                        \/ \E k \in Key : revoke_api_key(c, u, k)
               PROVE  KeysInv'
    BY DEF KeysNext
  <1> DEFINE bound == MaxKeys + Cardinality(KeyCall) - 1
  <1>0. /\ NoKeyCall \in KeyHolding /\ NoKeyCall.stage # "create"
        /\ keyCall \in [KeyCall -> KeyHolding] /\ MaxKeys \in Nat
        /\ keys \in [DOMAIN keys -> KeyRow] /\ DOMAIN keys \subseteq Key
    BY KeysAssumption DEF KeyHolding, NoKeyCall, KeysInv, KeysTyped, KeysAssumption
  <1>1. CASE _resolve_api_key(c)
    <2> DEFINE k == keyCall[c].key
               held == IF k \in DOMAIN keys THEN Admitted(keys[k].user, keys[k].scope, k) ELSE NoKeyCall
    <2>1. held \in KeyHolding /\ held.stage # "create"
      BY <1>0 DEF KeyHolding, KeyRow, Admitted
    <2>2. keyCall' = [keyCall EXCEPT ![c] = held] /\ UNCHANGED <<keys, revoked>>
      BY <1>1 DEF _resolve_api_key
    <2> HIDE DEF held
    <2> QED
      BY <2>1, <2>2, CallsKeepKeys
  <1>2. CASE Leave(c)
    BY <1>0, <1>2, CallsKeepKeys DEF Leave
  <1>3. ASSUME NEW k \in Key, ReadKey(c, k) PROVE KeysInv'
    <2> DEFINE held == [stage |-> "stamp", key |-> k, row |-> keys[k]]
    <2>1. held \in KeyHolding /\ held.stage # "create"
      BY <1>0, <1>3 DEF KeyHolding, ReadKey
    <2>2. keyCall' = [keyCall EXCEPT ![c] = held] /\ UNCHANGED <<keys, revoked>>
      BY <1>3 DEF ReadKey
    <2> HIDE DEF held
    <2> QED
      BY <2>1, <2>2, CallsKeepKeys
  <1>4. ASSUME NEW u \in KeyOwner, NEW scope \in {"full", "runner"}, CountKeys(c, u, scope)
        PROVE  KeysInv'
    <2> DEFINE held == [stage |-> "create", user |-> u, scope |-> scope]
    <2>1. held \in KeyHolding /\ held.stage = "create" /\ held.user = u
      BY DEF KeyHolding
    <2>2. /\ keyCall' = [keyCall EXCEPT ![c] = held] /\ UNCHANGED <<keys, revoked>>
          /\ Cardinality(KeysOf(u)) < MaxKeys
      BY <1>4 DEF CountKeys
    <2> HIDE DEF held
    <2>3. KeysTyped'
      BY <1>0, <2>1, <2>2 DEF KeysInv, KeysTyped
    <2>4. ASSUME NEW v \in KeyOwner
          PROVE  Cardinality(KeysOf(v)') + Cardinality(Pending(v)') <= bound
      <3>1. /\ Cardinality(KeysOf(v)) \in Nat /\ Cardinality(Pending(v)) \in Nat
            /\ Cardinality(Pending(v)') \in Nat /\ Cardinality(KeyCall) \in Nat
            /\ Cardinality(Pending(v)') <= Cardinality(KeyCall) /\ IsFiniteSet(Pending(v))
        <4>1. /\ Cardinality(KeysOf(v)) \in Nat /\ Cardinality(Pending(v)) \in Nat
              /\ Cardinality(KeyCall) \in Nat /\ IsFiniteSet(Pending(v))
          BY KeySetsFinite DEF KeysInv
        <4>2. Pending(v)' \subseteq KeyCall /\ IsFiniteSet(KeyCall)
          BY KeysAssumption DEF Pending, KeysAssumption
        <4> QED
          BY <4>1, <4>2, FS_Subset, FS_CardinalityType
      <3>2. KeysOf(v)' = KeysOf(v)
        BY <2>2 DEF KeysOf
      <3>3. CASE v = u
        BY <1>0, <2>2, <3>1, <3>2, <3>3
      <3>4. CASE v # u
        <4>1. Pending(v)' \subseteq Pending(v)
          BY <1>0, <2>1, <2>2, <3>4 DEF Pending
        <4>2. Cardinality(Pending(v)') <= Cardinality(Pending(v))
          BY <3>1, <4>1, FS_Subset
        <4> QED
          BY <1>0, <3>1, <3>2, <4>2 DEF KeysInv, KeysOvershootByOverlap, Pending
      <3> QED
        BY <3>3, <3>4
    <2> QED
      BY <2>3, <2>4 DEF KeysInv, KeysOvershootByOverlap, Pending, KeysOf
  <1>5. ASSUME NEW k \in Key, InsertKey(c, k) PROVE KeysInv'
    <2> DEFINE w == keyCall[c].user
               row == [user |-> w, scope |-> keyCall[c].scope]
    <2>1. w \in KeyOwner /\ row \in KeyRow /\ row.user = w /\ keyCall[c].stage = "create"
      BY <1>0, <1>5 DEF InsertKey, KeyHolding, NoKeyCall, KeyRow
    <2>2. /\ k \notin DOMAIN keys /\ k \notin revoked /\ UNCHANGED revoked
          /\ keys' = [x \in DOMAIN keys \cup {k} |-> IF x = k THEN row ELSE keys[x]]
          /\ keyCall' = [keyCall EXCEPT ![c] = NoKeyCall]
      BY <1>5 DEF InsertKey
    <2> HIDE DEF row
    <2>3. /\ DOMAIN keys' = DOMAIN keys \cup {k} /\ keys'[k] = row
          /\ \A x \in DOMAIN keys : keys'[x] = keys[x]
      BY <2>2
    <2>4. KeysTyped'
      <3>1. IsFiniteSet(DOMAIN keys')
        BY <2>3, FS_AddElement DEF KeysInv, KeysTyped
      <3>2. keys' \in [DOMAIN keys' -> KeyRow] /\ DOMAIN keys' \cap revoked' = {}
        BY <1>0, <2>1, <2>2, <2>3 DEF KeysInv, KeysTyped
      <3>3. keyCall' \in [KeyCall -> KeyHolding]
        BY <1>0, <2>2
      <3> QED
        BY <1>0, <2>3, <3>1, <3>2, <3>3 DEF KeysTyped
    <2>5. ASSUME NEW v \in KeyOwner
          PROVE  Cardinality(KeysOf(v)') + Cardinality(Pending(v)') <= bound
      <3>1. /\ Cardinality(KeysOf(v)) \in Nat /\ Cardinality(Pending(v)) \in Nat
            /\ IsFiniteSet(Pending(v)) /\ IsFiniteSet(KeysOf(v)) /\ Cardinality(KeyCall) \in Nat
            /\ Cardinality(KeysOf(v)) + Cardinality(Pending(v)) <= bound
        BY KeySetsFinite DEF KeysInv, KeysOvershootByOverlap, Pending
      <3>2. CASE v = w
        <4>1. KeysOf(v)' = KeysOf(v) \cup {k} /\ k \notin KeysOf(v)
          BY <2>1, <2>2, <2>3, <3>2 DEF KeysOf
        <4>2. Pending(v)' = Pending(v) \ {c} /\ c \in Pending(v)
          BY <1>0, <2>1, <2>2, <3>2 DEF Pending, NoKeyCall
        <4>3. Cardinality(KeysOf(v)') = Cardinality(KeysOf(v)) + 1
          BY <3>1, <4>1, FS_AddElement
        <4>4. Cardinality(Pending(v)') = Cardinality(Pending(v)) - 1
          BY <3>1, <4>2, FS_RemoveElement
        <4> QED
          BY <3>1, <4>3, <4>4
      <3>3. CASE v # w
        <4>1. KeysOf(v)' = KeysOf(v)
          BY <2>1, <2>2, <2>3, <3>3 DEF KeysOf
        <4>2. Pending(v)' = Pending(v)
          BY <1>0, <2>1, <2>2, <3>3 DEF Pending, NoKeyCall
        <4> QED
          BY <3>1, <4>1, <4>2
      <3> QED
        BY <3>2, <3>3
    <2> QED
      BY <2>4, <2>5 DEF KeysInv, KeysOvershootByOverlap, Pending, KeysOf
  <1>6. ASSUME NEW u \in KeyOwner, NEW k \in Key, revoke_api_key(c, u, k) PROVE KeysInv'
    <2>1. /\ keys' = [x \in DOMAIN keys \ {k} |-> keys[x]] /\ revoked' = revoked \cup {k}
          /\ keyCall' = [keyCall EXCEPT ![c] = NoKeyCall]
      BY <1>6 DEF revoke_api_key
    <2>2. DOMAIN keys' = DOMAIN keys \ {k} /\ \A x \in DOMAIN keys' : keys'[x] = keys[x]
      BY <2>1
    <2>3. KeysTyped'
      <3>1. IsFiniteSet(DOMAIN keys')
        BY <2>2, FS_Subset DEF KeysInv, KeysTyped
      <3> QED
        BY <1>0, <2>1, <2>2, <3>1 DEF KeysInv, KeysTyped
    <2>4. ASSUME NEW v \in KeyOwner
          PROVE  Cardinality(KeysOf(v)') + Cardinality(Pending(v)') <= bound
      <3>1. KeysOf(v)' \subseteq KeysOf(v) /\ Pending(v)' \subseteq Pending(v)
        BY <1>0, <2>1, <2>2 DEF KeysOf, Pending, NoKeyCall
      <3>2. /\ Cardinality(KeysOf(v)) \in Nat /\ Cardinality(Pending(v)) \in Nat
            /\ IsFiniteSet(Pending(v)) /\ IsFiniteSet(KeysOf(v)) /\ Cardinality(KeyCall) \in Nat
            /\ Cardinality(KeysOf(v)) + Cardinality(Pending(v)) <= bound
        BY KeySetsFinite DEF KeysInv, KeysOvershootByOverlap, Pending
      <3>3. /\ Cardinality(KeysOf(v)') <= Cardinality(KeysOf(v)) /\ Cardinality(KeysOf(v)') \in Nat
            /\ Cardinality(Pending(v)') <= Cardinality(Pending(v)) /\ Cardinality(Pending(v)') \in Nat
        BY <3>1, <3>2, FS_Subset, FS_CardinalityType
      <3> QED
        BY <1>0, <3>2, <3>3
    <2> QED
      BY <2>3, <2>4 DEF KeysInv, KeysOvershootByOverlap, Pending, KeysOf
  <1> QED
    BY <1>1, <1>2, <1>3, <1>4, <1>5, <1>6

\* The invariant of the keys is inductive.
LEMMA KeysInductive == KeysInv /\ [KeysNext]_keyVars => KeysInv'
  <1>1. KeysInv /\ UNCHANGED keyVars => KeysInv'
    BY DEF keyVars, KeysInv, KeysTyped, KeysOvershootByOverlap, KeysOf
  <1> QED
    BY <1>1, KeysNextInv

\* Only the stamp admits a request, and it finds the key stored, so not revoked.
LEMMA AdmittedStep ==
    ASSUME KeysInv, KeysNext, NEW c \in KeyCall,
           keyCall'[c].stage = "admitted", keyCall[c].stage # "admitted"
    PROVE  keyCall'[c].key \notin revoked
  <1>0. keyCall \in [KeyCall -> KeyHolding] /\ DOMAIN keys \cap revoked = {}
    BY DEF KeysInv, KeysTyped
  <1>1. PICK d \in KeyCall :
           \/ _resolve_api_key(d) \/ Leave(d)
           \/ \E k \in Key : ReadKey(d, k) \/ InsertKey(d, k)
           \/ \E u \in KeyOwner : \/ \E scope \in {"full", "runner"} : CountKeys(d, u, scope)
                                  \/ \E k \in Key : revoke_api_key(d, u, k)
    BY DEF KeysNext
  <1>2. CASE _resolve_api_key(d)
    BY <1>0, <1>2 DEF _resolve_api_key, Admitted, NoKeyCall
  <1>3. CASE Leave(d)
    BY <1>0, <1>3 DEF Leave, NoKeyCall
  <1>4. ASSUME NEW k \in Key, ReadKey(d, k) \/ InsertKey(d, k) PROVE FALSE
    BY <1>0, <1>4 DEF ReadKey, InsertKey, NoKeyCall
  <1>5. ASSUME NEW u \in KeyOwner, NEW scope \in {"full", "runner"}, CountKeys(d, u, scope)
        PROVE  FALSE
    <2>1. keyCall' = [keyCall EXCEPT ![d] = [stage |-> "create", user |-> u, scope |-> scope]]
      BY <1>5 DEF CountKeys
    <2> QED
      BY <1>0, <2>1
  <1>6. ASSUME NEW u \in KeyOwner, NEW k \in Key, revoke_api_key(d, u, k) PROVE FALSE
    BY <1>0, <1>6 DEF revoke_api_key, NoKeyCall
  <1> QED
    BY <1>1, <1>2, <1>3, <1>4, <1>5, <1>6

-------------------------------------------------------------------------------
(* Access.                                                                 *)

Role == DOMAIN ROLE_RANK
Grants == [User -> Role \cup {Absent}]
OrgRow == [personal_for : User \cup {Absent}, roles : Grants]
EngagementRow == [owner : User, org : Org, client : ClientId \cup {Absent}, members : Grants]
ClientRow == [owner : User, org : Org]

CallerHolding ==
    {NoCall} \cup [stage : {"add_member"}, engagement : EngagementId, member : User, role : Role]
             \cup [stage : {"create"}, kind : {"client", "engagement"}, user : User,
                   org : Org \cup {Absent}, link : ClientId \cup {Absent}]
             \cup [stage : {"link"}, engagement : EngagementId, link : ClientId \cup {Absent}]

AccessTyped ==
    /\ orgs \in [DOMAIN orgs -> OrgRow] /\ DOMAIN orgs \subseteq Org
    /\ engagements \in [DOMAIN engagements -> EngagementRow]
    /\ DOMAIN engagements \subseteq EngagementId
    /\ clients \in [DOMAIN clients -> ClientRow] /\ DOMAIN clients \subseteq ClientId
    /\ caller \in [Caller -> CallerHolding]
    /\ \A c \in Caller : caller[c].stage \in {"add_member", "link"} =>
                             caller[c].engagement \in DOMAIN engagements

\* A personal organization has its one owner, and everything but the shared engagement
\* lies, or is about to, in a personal organization of the one who owns it.
TenantsOwnTheirs ==
    /\ \A o \in DOMAIN orgs : orgs[o].personal_for # Absent =>
          \A v \in User : orgs[o].roles[v] # Absent <=> v = orgs[o].personal_for
    /\ \A e \in DOMAIN engagements :
          /\ engagements[e].org \in DOMAIN orgs
          /\ e # SharedEngagement => orgs[engagements[e].org].personal_for = engagements[e].owner
    /\ \A id \in DOMAIN clients :
          /\ clients[id].org \in DOMAIN orgs
          /\ orgs[clients[id].org].personal_for = clients[id].owner
    /\ \A c \in Caller : caller[c].stage = "create" /\ caller[c].org # Absent =>
          /\ caller[c].org \in DOMAIN orgs
          /\ orgs[caller[c].org].personal_for = caller[c].user

AccessInv == AccessTyped /\ TenantsOwnTheirs /\ NoDanglingClient /\ MembersOvershootByOverlap

\* Requests that counted e's members and have not inserted theirs yet.
Inviting(e) == {c \in Caller : caller[c].stage = "add_member" /\ caller[c].engagement = e}
MemberBound == MaxMembers + Cardinality(Caller) - 1

\* The strings that name roles, and that none of them is absence.
LEMMA RoleFacts ==
    /\ Role = {"viewer", "member", "admin", "owner"} /\ Absent \notin Role
    /\ Absent \notin User /\ Absent \notin Org
    /\ ROLE_RANK \in [Role -> Nat]
  BY AccessAssumption DEF AccessAssumption, Role, ROLE_RANK

\* The members of an engagement and the invitations under way are finitely many.
LEMMA MemberSetsFinite ==
    ASSUME NEW e
    PROVE  /\ IsFiniteSet(Members(e)) /\ Cardinality(Members(e)) \in Nat
           /\ IsFiniteSet(Inviting(e)) /\ Cardinality(Inviting(e)) \in Nat
           /\ Cardinality(Inviting(e)) <= Cardinality(Caller)
           /\ IsFiniteSet(Members(e)') /\ Cardinality(Members(e)') \in Nat
           /\ IsFiniteSet(Inviting(e)') /\ Cardinality(Inviting(e)') \in Nat
           /\ Cardinality(Inviting(e)') <= Cardinality(Caller)
           /\ Cardinality(Caller) \in Nat \ {0} /\ MemberBound \in Nat
  <1>1. IsFiniteSet(User) /\ IsFiniteSet(Caller) /\ Caller # {} /\ MaxMembers \in Nat \ {0}
    BY AccessAssumption DEF AccessAssumption
  <1>2. /\ Members(e) \subseteq User /\ Members(e)' \subseteq User
        /\ Inviting(e) \subseteq Caller /\ Inviting(e)' \subseteq Caller
    BY DEF Members, Inviting
  <1>3. Cardinality(Caller) \in Nat \ {0}
    BY <1>1, FS_CardinalityType, FS_EmptySet
  <1> QED
    BY <1>1, <1>2, <1>3, FS_Subset, FS_CardinalityType DEF MemberBound

\* The bound, engagement by engagement.
LEMMA OvershootSplit ==
    /\ MembersOvershootByOverlap <=>
          \A e \in DOMAIN engagements :
              Cardinality(Members(e)) + Cardinality(Inviting(e)) <= MemberBound
    /\ MembersOvershootByOverlap' <=>
          \A e \in DOMAIN engagements' :
              Cardinality(Members(e)') + Cardinality(Inviting(e)') <= MemberBound
  BY DEF MembersOvershootByOverlap, Inviting, MemberBound, Members

\* The shared organization at the start is a state the invariant allows.
LEMMA AccessInitInv == AccessInit => AccessInv
  <1> SUFFICES ASSUME AccessInit PROVE AccessInv
    OBVIOUS
  <1>1. PICK roles \in SharedRoles, u \in User, invitation \in {Absent, "member"} :
          /\ invitation # Absent => Cardinality({v \in User : roles[v] = Absent}) <= MaxMembers
          /\ orgs = With(<<>>, SharedOrg, [personal_for |-> Absent, roles |-> roles])
          /\ engagements = With(<<>>, SharedEngagement, [owner |-> u, org |-> SharedOrg,
                client |-> Absent,
                members |-> [v \in User |-> IF roles[v] = Absent THEN invitation ELSE Absent]])
    BY DEF AccessInit
  <1> DEFINE members == [v \in User |-> IF roles[v] = Absent THEN invitation ELSE Absent]
  <1>2. /\ clients = <<>> /\ DOMAIN clients = {} /\ caller = [c \in Caller |-> NoCall]
    BY DEF AccessInit
  <1>3. /\ roles \in Grants /\ SharedOrg \in Org /\ SharedEngagement \in EngagementId
        /\ MaxMembers \in Nat /\ IsFiniteSet(User)
    BY AccessAssumption DEF AccessAssumption, Grants, Role
  <1>4. members \in Grants
    BY <1>3, RoleFacts DEF Grants
  <1> HIDE DEF members
  <1>5. /\ DOMAIN orgs = {SharedOrg}
        /\ orgs[SharedOrg] = [personal_for |-> Absent, roles |-> roles]
        /\ orgs = [x \in DOMAIN orgs |-> orgs[x]]
    BY <1>1 DEF With
  <1>6. /\ DOMAIN engagements = {SharedEngagement}
        /\ engagements[SharedEngagement] =
              [owner |-> u, org |-> SharedOrg, client |-> Absent, members |-> members]
        /\ engagements = [x \in DOMAIN engagements |-> engagements[x]]
    BY <1>1 DEF With, members
  <1>7. AccessTyped
    <2>1. orgs[SharedOrg] \in OrgRow
      BY <1>3, <1>5 DEF OrgRow
    <2>2. engagements[SharedEngagement] \in EngagementRow
      BY <1>3, <1>4, <1>6 DEF EngagementRow
    <2>3. clients \in [DOMAIN clients -> ClientRow]
      BY <1>2
    <2>4. /\ caller \in [Caller -> CallerHolding]
          /\ \A c \in Caller : caller[c].stage \notin {"add_member", "link"}
      BY <1>2 DEF CallerHolding, NoCall
    <2> QED
      BY <1>2, <1>3, <1>5, <1>6, <2>1, <2>2, <2>3, <2>4 DEF AccessTyped
  <1>8. TenantsOwnTheirs
    BY <1>2, <1>5, <1>6 DEF TenantsOwnTheirs, NoCall
  <1>9. NoDanglingClient
    BY <1>6 DEF NoDanglingClient
  <1>10. Cardinality(Members(SharedEngagement)) + Cardinality(Inviting(SharedEngagement))
            <= MemberBound
    <2> DEFINE outside == {v \in User : roles[v] = Absent}
    <2>1. IsFiniteSet(outside) /\ Cardinality(outside) \in Nat /\ Cardinality({}) = 0
      BY <1>3, FS_Subset, FS_EmptySet, FS_CardinalityType
    <2>2. Cardinality(Members(SharedEngagement)) <= MaxMembers
      <3>1. CASE invitation = Absent
        <4>1. Members(SharedEngagement) = {}
          BY <1>6, <3>1 DEF Members, members
        <4> QED
          BY <1>3, <2>1, <4>1
      <3>2. CASE invitation # Absent
        <4>1. Members(SharedEngagement) \subseteq outside
          BY <1>6 DEF Members, members
        <4>2. Cardinality(Members(SharedEngagement)) <= Cardinality(outside)
          BY <2>1, <4>1, FS_Subset
        <4>3. Cardinality(Members(SharedEngagement)) \in Nat
          BY <2>1, <4>1, FS_Subset, FS_CardinalityType
        <4>4. Cardinality(outside) <= MaxMembers
          BY <1>1, <3>2
        <4> HIDE DEF outside
        <4> QED
          BY <1>3, <2>1, <4>2, <4>3, <4>4
      <3> QED
        BY <3>1, <3>2
    <2>3. Inviting(SharedEngagement) = {}
      BY <1>2 DEF Inviting, NoCall
    <2> HIDE DEF outside
    <2> QED
      BY <1>3, <2>1, <2>2, <2>3, MemberSetsFinite DEF MemberBound
  <1> QED
    BY <1>6, <1>7, <1>8, <1>9, <1>10, OvershootSplit DEF AccessInv

\* engagement_access refuses exactly those who neither own the engagement nor hold a role
\* in its organization or on it.
LEMMA AccessIsGrant ==
    ASSUME AccessInv, NEW e \in DOMAIN engagements, NEW u \in User
    PROVE  engagement_access(e, u) # Absent <=>
               \/ engagements[e].owner = u
               \/ orgs[engagements[e].org].roles[u] # Absent
               \/ engagements[e].members[u] # Absent
  <1> DEFINE row == engagements[e]
             a == orgs[row.org].roles[u]
             b == row.members[u]
             roles == {org_role(row.org, u), b} \ {Absent}
  <1>1. row \in EngagementRow /\ row.org \in DOMAIN orgs /\ orgs[row.org] \in OrgRow
    BY DEF AccessInv, AccessTyped, TenantsOwnTheirs
  <1>2. a \in Role \cup {Absent} /\ b \in Role \cup {Absent} /\ row.org # Absent
    BY <1>1, RoleFacts DEF EngagementRow, OrgRow, Grants
  <1>3. roles = {a, b} \ {Absent}
    BY <1>2 DEF org_role
  <1> HIDE DEF a, b, roles
  <1>4. ASSUME roles # {}
        PROVE  (CHOOSE r \in roles : \A s \in roles : ROLE_RANK[s] <= ROLE_RANK[r]) \in roles
    <2>1. \E r \in roles : \A s \in roles : ROLE_RANK[s] <= ROLE_RANK[r]
      <3>1. roles \subseteq Role /\ \A r \in Role : ROLE_RANK[r] \in Nat
        BY <1>2, <1>3, RoleFacts
      <3> QED
        BY <1>3, <1>4, <3>1
    <2> QED
      BY <2>1
  <1>5. engagement_access(e, u) = IF row.owner = u THEN "owner" ELSE IF roles = {} THEN Absent
                                  ELSE CHOOSE r \in roles : \A s \in roles : ROLE_RANK[s] <= ROLE_RANK[r]
    BY DEF engagement_access, roles, b
  <1>6. "owner" # Absent /\ Absent \notin roles
    BY <1>3, RoleFacts
  <1> QED
    BY <1>3, <1>4, <1>5, <1>6 DEF a, b

\* What the invariant says about access: the lists agree with the single checks, and no
\* tenant reaches another's rows.
LEMMA AccessConsequences == AccessInv => AccessTypeOK /\ ListsAgreeWithAccess /\ TenantsStayApart
  <1> SUFFICES ASSUME AccessInv PROVE AccessTypeOK /\ ListsAgreeWithAccess /\ TenantsStayApart
    OBVIOUS
  <1>1. AccessTypeOK
    BY DEF AccessInv, AccessTyped, TenantsOwnTheirs, EngagementRow, ClientRow, AccessTypeOK
  <1>2. ListsAgreeWithAccess
    <2> SUFFICES ASSUME NEW u \in User
                 PROVE  accessible_engagement_ids(u)
                            = {e \in DOMAIN engagements : engagement_access(e, u) # Absent}
      BY DEF ListsAgreeWithAccess
    <2>1. \A e \in DOMAIN engagements : engagements[e].org \in DOMAIN orgs
      BY DEF AccessInv, TenantsOwnTheirs
    <2> QED
      BY <2>1, AccessIsGrant DEF accessible_engagement_ids
  <1>3. ASSUME NEW e \in DOMAIN engagements \ {SharedEngagement}, NEW u \in User
        PROVE  engagement_access(e, u) # Absent
                   <=> u = engagements[e].owner \/ engagements[e].members[u] # Absent
    <2>1. /\ engagements[e].owner # Absent /\ engagements[e].org \in DOMAIN orgs
          /\ orgs[engagements[e].org].personal_for = engagements[e].owner
      BY RoleFacts DEF AccessInv, AccessTyped, EngagementRow, TenantsOwnTheirs
    <2>2. orgs[engagements[e].org].roles[u] # Absent <=> u = engagements[e].owner
      BY <2>1 DEF AccessInv, TenantsOwnTheirs
    <2> QED
      BY <2>2, AccessIsGrant
  <1>4. ASSUME NEW id \in DOMAIN clients, NEW u \in User
        PROVE  ClientReachable(id, u) <=> u = clients[id].owner
    <2>1. /\ clients[id].owner # Absent /\ clients[id].org \in DOMAIN orgs
          /\ orgs[clients[id].org].personal_for = clients[id].owner
      BY RoleFacts DEF AccessInv, AccessTyped, ClientRow, TenantsOwnTheirs
    <2>2. orgs[clients[id].org].roles[u] # Absent <=> u = clients[id].owner
      BY <2>1 DEF AccessInv, TenantsOwnTheirs
    <2> QED
      BY <2>1, <2>2 DEF ClientReachable, accessible_org_ids
  <1> QED
    BY <1>1, <1>2, <1>3, <1>4 DEF TenantsStayApart

\* A request that takes up or drops what it holds, the rows unchanged.
LEMMA CallsKeepAccess ==
    ASSUME AccessInv, UNCHANGED accessRows, NEW c \in Caller, NEW held \in CallerHolding,
           caller' = [caller EXCEPT ![c] = held],
           held.stage \in {"add_member", "link"} => held.engagement \in DOMAIN engagements,
           held.stage = "add_member" => Cardinality(Members(held.engagement)) < MaxMembers,
           held.stage = "create" /\ held.org # Absent =>
               held.org \in DOMAIN orgs /\ orgs[held.org].personal_for = held.user
    PROVE  AccessInv'
  <1>1. UNCHANGED <<orgs, engagements, clients>> /\ caller \in [Caller -> CallerHolding]
    BY DEF accessRows, AccessInv, AccessTyped
  <1>2. AccessTyped'
    BY <1>1 DEF AccessInv, AccessTyped
  <1>3. TenantsOwnTheirs'
    BY <1>1 DEF AccessInv, TenantsOwnTheirs
  <1>4. NoDanglingClient'
    BY <1>1 DEF AccessInv, NoDanglingClient
  <1>5. ASSUME NEW e \in DOMAIN engagements
        PROVE  Cardinality(Members(e)') + Cardinality(Inviting(e)') <= MemberBound
    <2>1. Members(e)' = Members(e)
      BY <1>1 DEF Members
    <2>2. Cardinality(Members(e)) + Cardinality(Inviting(e)) <= MemberBound
      BY OvershootSplit DEF AccessInv
    <2>3. CASE held.stage = "add_member" /\ held.engagement = e
      BY <2>1, <2>3, MemberSetsFinite, AccessAssumption DEF MemberBound, AccessAssumption
    <2>4. CASE ~(held.stage = "add_member" /\ held.engagement = e)
      <3>1. Inviting(e)' \subseteq Inviting(e)
        BY <1>1, <2>4 DEF Inviting
      <3>2. Cardinality(Inviting(e)') <= Cardinality(Inviting(e))
        BY <3>1, MemberSetsFinite, FS_Subset
      <3> QED
        BY <2>1, <2>2, <3>2, MemberSetsFinite
    <2> QED
      BY <2>3, <2>4
  <1> QED
    BY <1>1, <1>2, <1>3, <1>4, <1>5, OvershootSplit DEF AccessInv

RoleSet(e, m, role) == [engagements EXCEPT ![e].members[m] = role]

\* Writing one role on one engagement touches nothing else of any row.
LEMMA RoleWritten ==
    ASSUME AccessInv, NEW e \in DOMAIN engagements, NEW m \in User, NEW role \in Role \cup {Absent},
           engagements' = RoleSet(e, m, role)
    PROVE  /\ DOMAIN engagements' = DOMAIN engagements
           /\ engagements' \in [DOMAIN engagements -> EngagementRow]
           /\ \A x \in DOMAIN engagements :
                 /\ engagements'[x].owner = engagements[x].owner
                 /\ engagements'[x].org = engagements[x].org
                 /\ engagements'[x].client = engagements[x].client
                 /\ \A u \in User : engagements'[x].members[u] =
                       IF x = e /\ u = m THEN role ELSE engagements[x].members[u]
  <1>1. engagements \in [DOMAIN engagements -> EngagementRow] /\ engagements[e] \in EngagementRow
    BY DEF AccessInv, AccessTyped
  <1> DEFINE row == [engagements[e] EXCEPT !.members = [engagements[e].members EXCEPT ![m] = role]]
  <1>2. engagements' = [engagements EXCEPT ![e] = row]
    BY DEF RoleSet
  <1>3. /\ row \in EngagementRow /\ row.owner = engagements[e].owner /\ row.org = engagements[e].org
        /\ row.client = engagements[e].client
        /\ \A u \in User : row.members[u] = IF u = m THEN role ELSE engagements[e].members[u]
    BY <1>1 DEF EngagementRow, Grants
  <1> HIDE DEF row
  <1> QED
    BY <1>1, <1>2, <1>3

\* Steps of members.py keep the invariant.
LEMMA MemberKeepsInv == AccessInv /\ MemberStep => AccessInv'
  <1> SUFFICES ASSUME AccessInv, NEW c \in Caller,
                 \/ InsertMember(c)
                 \/ \E u, m \in User, e \in DOMAIN engagements :
                       \/ \E role \in {"member", "viewer"} : CheckMember(c, u, e, m, role)
                       \/ remove_member(c, u, e, m)
               PROVE  AccessInv'
    BY DEF MemberStep
  <1>0. /\ NoCall \in CallerHolding /\ NoCall.stage = "idle"
        /\ caller \in [Caller -> CallerHolding] /\ DOMAIN engagements \subseteq EngagementId
    BY DEF CallerHolding, NoCall, AccessInv, AccessTyped
  <1>1. ASSUME NEW u \in User, NEW m \in User, NEW e \in DOMAIN engagements,
               NEW role \in {"member", "viewer"}, CheckMember(c, u, e, m, role)
        PROVE  AccessInv'
    <2> DEFINE held == [stage |-> "add_member", engagement |-> e, member |-> m, role |-> role]
    <2>1. held \in CallerHolding /\ held.stage = "add_member" /\ held.engagement = e
      BY <1>0, RoleFacts DEF CallerHolding
    <2>2. /\ caller' = [caller EXCEPT ![c] = held] /\ UNCHANGED accessRows
          /\ Cardinality(Members(e)) < MaxMembers
      BY <1>1 DEF CheckMember
    <2> HIDE DEF held
    <2> QED
      BY <2>1, <2>2, CallsKeepAccess
  <1>2. ASSUME NEW e \in DOMAIN engagements, NEW m \in User, NEW role \in Role \cup {Absent},
               engagements' = RoleSet(e, m, role),
               caller' = [caller EXCEPT ![c] = NoCall], UNCHANGED <<orgs, clients>>,
               \/ role = Absent
               \/ c \in Inviting(e) /\ engagements[e].members[m] = Absent
        PROVE  AccessInv'
    <2>1. /\ DOMAIN engagements' = DOMAIN engagements
          /\ engagements' \in [DOMAIN engagements -> EngagementRow]
          /\ \A x \in DOMAIN engagements :
                /\ engagements'[x].owner = engagements[x].owner
                /\ engagements'[x].org = engagements[x].org
                /\ engagements'[x].client = engagements[x].client
                /\ \A u \in User : engagements'[x].members[u] =
                      IF x = e /\ u = m THEN role ELSE engagements[x].members[u]
      BY <1>2, RoleWritten
    <2>2. AccessTyped'
      BY <1>0, <1>2, <2>1 DEF AccessInv, AccessTyped
    <2>3. TenantsOwnTheirs' /\ NoDanglingClient'
      <3>1. NoDanglingClient'
        BY <1>2, <2>1 DEF AccessInv, NoDanglingClient
      <3>2. \A d \in Caller : caller'[d].stage = "create" => caller'[d] = caller[d]
        BY <1>0, <1>2
      <3>3. TenantsOwnTheirs'
        BY <1>2, <2>1, <3>2 DEF AccessInv, TenantsOwnTheirs
      <3> QED
        BY <3>1, <3>3
    <2>4. ASSUME NEW x \in DOMAIN engagements
          PROVE  Cardinality(Members(x)') + Cardinality(Inviting(x)') <= MemberBound
      <3>1. Cardinality(Members(x)) + Cardinality(Inviting(x)) <= MemberBound
        BY OvershootSplit DEF AccessInv
      <3>2. Inviting(x)' = Inviting(x) \ {c}
        BY <1>0, <1>2 DEF Inviting
      <3>3. Cardinality(Inviting(x)') <= Cardinality(Inviting(x))
        BY <3>2, MemberSetsFinite, FS_Subset
      <3>4. CASE x # e \/ role = Absent
        <4>1. Members(x)' \subseteq Members(x)
          BY <2>1, <3>4 DEF Members
        <4>2. Cardinality(Members(x)') <= Cardinality(Members(x))
          BY <4>1, MemberSetsFinite, FS_Subset
        <4> QED
          BY <3>1, <3>3, <4>2, MemberSetsFinite
      <3>5. CASE x = e /\ role # Absent
        <4>1. Members(x)' = Members(x) \cup {m} /\ m \notin Members(x) /\ c \in Inviting(x)
          <5>1. engagements[x].members[m] = Absent /\ c \in Inviting(x)
            BY <1>2, <3>5
          <5>2. \A u \in User : engagements'[x].members[u]
                                  = IF u = m THEN role ELSE engagements[x].members[u]
            BY <2>1, <3>5
          <5> QED
            BY <3>5, <5>1, <5>2 DEF Members
        <4>2. Cardinality(Members(x)') = Cardinality(Members(x)) + 1
          BY <4>1, MemberSetsFinite, FS_AddElement
        <4>3. Cardinality(Inviting(x)') = Cardinality(Inviting(x)) - 1
          BY <3>2, <4>1, MemberSetsFinite, FS_RemoveElement
        <4> QED
          BY <3>1, <4>2, <4>3, MemberSetsFinite
      <3> QED
        BY <3>4, <3>5
    <2> QED
      BY <2>1, <2>2, <2>3, <2>4, OvershootSplit DEF AccessInv
  <1>3. ASSUME NEW u \in User, NEW m \in User, NEW e \in DOMAIN engagements, remove_member(c, u, e, m)
        PROVE  AccessInv'
    <2>1. /\ engagements' = RoleSet(e, m, Absent) /\ UNCHANGED <<orgs, clients>>
          /\ caller' = [caller EXCEPT ![c] = NoCall]
      BY <1>3 DEF remove_member, RoleSet
    <2> QED
      BY <1>2, <2>1
  <1>4. CASE InsertMember(c)
    <2> DEFINE e == caller[c].engagement
               m == caller[c].member
               role == caller[c].role
    <2>1. caller[c].stage = "add_member" /\ caller[c] \in CallerHolding
      BY <1>0, <1>4 DEF InsertMember
    <2>2. m \in User /\ role \in Role /\ e \in DOMAIN engagements /\ c \in Inviting(e)
      BY <2>1 DEF CallerHolding, NoCall, AccessInv, AccessTyped, Inviting
    <2>3. CASE engagements[e].members[m] # Absent
      <3>1. UNCHANGED accessRows /\ caller' = [caller EXCEPT ![c] = NoCall]
        BY <1>4, <2>3 DEF InsertMember, accessRows
      <3> QED
        BY <1>0, <3>1, CallsKeepAccess
    <2>4. CASE engagements[e].members[m] = Absent
      <3>1. /\ engagements' = RoleSet(e, m, role)
            /\ caller' = [caller EXCEPT ![c] = NoCall] /\ UNCHANGED <<orgs, clients>>
        BY <1>4, <2>4 DEF InsertMember, RoleSet
      <3> HIDE DEF e, m, role
      <3> QED
        BY <1>2, <2>2, <2>4, <3>1
    <2> QED
      BY <2>3, <2>4
  <1> QED
    BY <1>1, <1>3, <1>4

\* Steps that leave members and invitations alone keep the bound.
LEMMA OvershootFramed ==
    ASSUME AccessInv, NEW c \in Caller, caller' = [caller EXCEPT ![c] = NoCall],
           DOMAIN engagements \subseteq DOMAIN engagements',
           \A x \in DOMAIN engagements, u \in User :
               engagements'[x].members[u] = engagements[x].members[u],
           \A x \in DOMAIN engagements' \ DOMAIN engagements, u \in User :
               engagements'[x].members[u] = Absent
    PROVE  MembersOvershootByOverlap'
  <1> SUFFICES ASSUME NEW x \in DOMAIN engagements'
               PROVE  Cardinality(Members(x)') + Cardinality(Inviting(x)') <= MemberBound
    BY OvershootSplit
  <1>1. CASE x \in DOMAIN engagements
    <2>1. Members(x)' = Members(x) /\ Inviting(x)' \subseteq Inviting(x)
      BY <1>1 DEF Members, Inviting, AccessInv, AccessTyped, NoCall
    <2>2. Cardinality(Inviting(x)') <= Cardinality(Inviting(x))
      BY <2>1, MemberSetsFinite, FS_Subset
    <2>3. Cardinality(Members(x)) + Cardinality(Inviting(x)) <= MemberBound
      BY <1>1, OvershootSplit DEF AccessInv
    <2> QED
      BY <2>1, <2>2, <2>3, MemberSetsFinite
  <1>2. CASE x \notin DOMAIN engagements
    <2>1. Members(x)' = {} /\ Cardinality({}) = 0
      BY <1>2, FS_EmptySet DEF Members
    <2> QED
      BY <2>1, MemberSetsFinite, AccessAssumption DEF MemberBound, AccessAssumption
  <1> QED
    BY <1>1, <1>2

\* create_engagement and create_client keep the invariant, whichever of them finds or makes
\* the personal organization.
LEMMA InsertRowKeepsInv ==
    ASSUME AccessInv, NEW c \in Caller, NEW id, NEW fresh \in Org, InsertRow(c, id, fresh)
    PROVE  AccessInv'
  <1> DEFINE u == caller[c].user
             o == IF caller[c].org = Absent THEN fresh ELSE caller[c].org
             link == caller[c].link
             orgRow == [personal_for |-> u, roles |-> [v \in User |-> IF v = u THEN "owner" ELSE Absent]]
             clientRow == [owner |-> u, org |-> o]
             engagementRow == [owner |-> u, org |-> o, client |-> link,
                               members |-> [v \in User |-> Absent]]
  <1>0. /\ orgs \in [DOMAIN orgs -> OrgRow] /\ DOMAIN orgs \subseteq Org
        /\ engagements \in [DOMAIN engagements -> EngagementRow]
        /\ DOMAIN engagements \subseteq EngagementId
        /\ clients \in [DOMAIN clients -> ClientRow] /\ DOMAIN clients \subseteq ClientId
        /\ caller \in [Caller -> CallerHolding] /\ caller' = [caller EXCEPT ![c] = NoCall]
        /\ NoCall \in CallerHolding /\ NoCall.stage = "idle"
    BY DEF AccessInv, AccessTyped, InsertRow, CallerHolding, NoCall
  <1>1. /\ u \in User /\ link \in ClientId \cup {Absent} /\ caller[c].org \in Org \cup {Absent}
        /\ link \in DOMAIN clients \cup {Absent} /\ caller[c].stage = "create"
    BY <1>0 DEF InsertRow, LinkHolds, CallerHolding, NoCall
  <1>2. /\ orgs' \in [DOMAIN orgs' -> OrgRow] /\ DOMAIN orgs' \subseteq Org
        /\ DOMAIN orgs \subseteq DOMAIN orgs' /\ \A x \in DOMAIN orgs : orgs'[x] = orgs[x]
        /\ o \in DOMAIN orgs' /\ orgs'[o].personal_for = u
        /\ \A x \in DOMAIN orgs' : orgs'[x].personal_for # Absent =>
              \A v \in User : orgs'[x].roles[v] # Absent <=> v = orgs'[x].personal_for
    <2>1. CASE caller[c].org = Absent
      <3>1. fresh \notin DOMAIN orgs /\ orgs' = With(orgs, fresh, orgRow)
        BY <2>1 DEF InsertRow, WithPersonalOrg
      <3>2. /\ orgRow \in OrgRow /\ orgRow.personal_for = u
            /\ \A v \in User : orgRow.roles[v] # Absent <=> v = u
        BY <1>1, RoleFacts DEF OrgRow, Grants
      <3> HIDE DEF orgRow
      <3>3. /\ DOMAIN orgs' = DOMAIN orgs \cup {fresh} /\ orgs'[fresh] = orgRow
            /\ \A x \in DOMAIN orgs : x # fresh => orgs'[x] = orgs[x]
            /\ orgs' \in [DOMAIN orgs \cup {fresh} -> OrgRow]
        BY <1>0, <3>1, <3>2 DEF With
      <3> QED
        BY <1>0, <2>1, <3>1, <3>2, <3>3 DEF AccessInv, TenantsOwnTheirs
    <2>2. CASE caller[c].org # Absent
      <3>1. orgs' = orgs /\ o \in DOMAIN orgs /\ orgs[o].personal_for = u
        BY <1>1, <2>2 DEF InsertRow, AccessInv, TenantsOwnTheirs
      <3> QED
        BY <1>0, <3>1 DEF AccessInv, TenantsOwnTheirs
    <2> QED
      BY <2>1, <2>2
  <1>3. /\ clientRow \in ClientRow /\ clientRow.owner = u /\ clientRow.org = o
        /\ engagementRow \in EngagementRow /\ engagementRow.owner = u /\ engagementRow.org = o
        /\ engagementRow.client = link /\ \A v \in User : engagementRow.members[v] = Absent
    <2>1. o \in Org
      BY <1>2
    <2> HIDE DEF o
    <2> QED
      BY <1>1, <2>1, RoleFacts DEF ClientRow, EngagementRow, Grants
  <1>4. CASE caller[c].kind = "client"
    <2>1. /\ id \in ClientId \ DOMAIN clients /\ UNCHANGED engagements
          /\ clients' = With(clients, id, clientRow)
      BY <1>4 DEF InsertRow
    <2> HIDE DEF clientRow, o, u
    <2>2. /\ DOMAIN clients' = DOMAIN clients \cup {id} /\ clients'[id] = clientRow
          /\ \A x \in DOMAIN clients : x # id => clients'[x] = clients[x]
          /\ clients' \in [DOMAIN clients \cup {id} -> ClientRow]
      BY <1>0, <1>3, <2>1 DEF With
    <2>3. AccessTyped'
      BY <1>0, <1>2, <2>1, <2>2 DEF AccessInv, AccessTyped
    <2>4. TenantsOwnTheirs'
      BY <1>0, <1>2, <1>3, <2>1, <2>2 DEF AccessInv, TenantsOwnTheirs
    <2>5. NoDanglingClient'
      BY <2>1, <2>2 DEF AccessInv, NoDanglingClient
    <2>6. MembersOvershootByOverlap'
      BY <1>0, <2>1, OvershootFramed
    <2> QED
      BY <2>3, <2>4, <2>5, <2>6 DEF AccessInv
  <1>5. CASE caller[c].kind # "client"
    <2>1. /\ id \in EngagementId \ DOMAIN engagements /\ UNCHANGED clients
          /\ engagements' = With(engagements, id, engagementRow)
      BY <1>5 DEF InsertRow
    <2> HIDE DEF engagementRow, o, u, link
    <2>2. /\ DOMAIN engagements' = DOMAIN engagements \cup {id} /\ engagements'[id] = engagementRow
          /\ \A x \in DOMAIN engagements : x # id => engagements'[x] = engagements[x]
          /\ engagements' \in [DOMAIN engagements \cup {id} -> EngagementRow]
      BY <1>0, <1>3, <2>1 DEF With
    <2>3. AccessTyped'
      BY <1>0, <1>2, <2>1, <2>2 DEF AccessInv, AccessTyped
    <2>4. TenantsOwnTheirs'
      BY <1>0, <1>2, <1>3, <2>1, <2>2 DEF AccessInv, TenantsOwnTheirs
    <2>5. NoDanglingClient'
      BY <1>1, <1>3, <2>1, <2>2 DEF AccessInv, NoDanglingClient
    <2>6. MembersOvershootByOverlap'
      BY <1>0, <1>3, <2>1, <2>2, OvershootFramed
    <2> QED
      BY <2>3, <2>4, <2>5, <2>6 DEF AccessInv
  <1> QED
    BY <1>4, <1>5

\* Steps of engagements.py and clients.py keep the invariant.
LEMMA TenantKeepsInv == AccessInv /\ TenantStep => AccessInv'
  <1> SUFFICES ASSUME AccessInv, NEW c \in Caller,
                 \/ WriteLink(c) \/ InsertFails(c)
                 \/ \E id \in EngagementId \cup ClientId, fresh \in Org : InsertRow(c, id, fresh)
                 \/ \E u \in User :
                       \/ \E kind \in {"client", "engagement"}, link \in DOMAIN clients \cup {Absent} :
                             FindOrg(c, u, kind, link)
                       \/ \E id \in DOMAIN clients : delete_client(c, u, id)
                       \/ \E e \in DOMAIN engagements, id \in DOMAIN clients \cup {Absent} :
                             FindLink(c, u, e, id)
               PROVE  AccessInv'
    BY DEF TenantStep
  <1>0. /\ orgs \in [DOMAIN orgs -> OrgRow] /\ DOMAIN orgs \subseteq Org
        /\ engagements \in [DOMAIN engagements -> EngagementRow]
        /\ DOMAIN engagements \subseteq EngagementId
        /\ clients \in [DOMAIN clients -> ClientRow] /\ DOMAIN clients \subseteq ClientId
        /\ caller \in [Caller -> CallerHolding]
        /\ NoCall \in CallerHolding /\ NoCall.stage = "idle"
    BY DEF AccessInv, AccessTyped, CallerHolding, NoCall
  <1>1. CASE InsertFails(c)
    BY <1>0, <1>1, CallsKeepAccess DEF InsertFails
  <1>2. ASSUME NEW u \in User, NEW kind \in {"client", "engagement"},
               NEW link \in DOMAIN clients \cup {Absent}, FindOrg(c, u, kind, link)
        PROVE  AccessInv'
    <2>1. PICK o \in IF PersonalOrg(u) = {} THEN {Absent} ELSE PersonalOrg(u) :
             caller' = [caller EXCEPT ![c] = [stage |-> "create", kind |-> kind, user |-> u,
                                              org |-> o, link |-> link]]
      BY <1>2 DEF FindOrg
    <2> DEFINE held == [stage |-> "create", kind |-> kind, user |-> u, org |-> o, link |-> link]
    <2>2. o # Absent => o \in DOMAIN orgs /\ orgs[o].personal_for = u
      BY DEF PersonalOrg
    <2>3. held \in CallerHolding /\ held.stage = "create" /\ held.org = o /\ held.user = u
      BY <1>0, <2>2 DEF CallerHolding
    <2> HIDE DEF held
    <2>4. UNCHANGED accessRows /\ caller' = [caller EXCEPT ![c] = held]
      BY <1>2, <2>1 DEF FindOrg, held
    <2> QED
      BY <2>2, <2>3, <2>4, CallsKeepAccess
  <1>3. ASSUME NEW u \in User, NEW id \in DOMAIN clients \cup {Absent}, NEW e \in DOMAIN engagements,
               FindLink(c, u, e, id)
        PROVE  AccessInv'
    <2> DEFINE held == [stage |-> "link", engagement |-> e, link |-> id]
    <2>1. held \in CallerHolding /\ held.stage = "link" /\ held.engagement = e
      BY <1>0 DEF CallerHolding
    <2>2. UNCHANGED accessRows /\ caller' = [caller EXCEPT ![c] = held]
      BY <1>3 DEF FindLink
    <2> HIDE DEF held
    <2> QED
      BY <2>1, <2>2, CallsKeepAccess
  <1>4. ASSUME DOMAIN engagements' = DOMAIN engagements,
               engagements' \in [DOMAIN engagements -> EngagementRow],
               \A x \in DOMAIN engagements :
                  /\ engagements'[x].owner = engagements[x].owner
                  /\ engagements'[x].org = engagements[x].org
                  /\ engagements'[x].members = engagements[x].members
                  /\ engagements'[x].client \in DOMAIN clients' \cup {Absent},
               clients' \in [DOMAIN clients' -> ClientRow], DOMAIN clients' \subseteq DOMAIN clients,
               \A id \in DOMAIN clients' : clients'[id] = clients[id],
               caller' = [caller EXCEPT ![c] = NoCall], UNCHANGED orgs
        PROVE  AccessInv'
    <2>1. AccessTyped'
      BY <1>0, <1>4 DEF AccessInv, AccessTyped
    <2>2. \A d \in Caller : caller'[d].stage = "create" => caller'[d] = caller[d]
      BY <1>0, <1>4
    <2>3. TenantsOwnTheirs'
      BY <1>4, <2>2 DEF AccessInv, TenantsOwnTheirs
    <2>4. NoDanglingClient'
      BY <1>4 DEF NoDanglingClient
    <2>5. MembersOvershootByOverlap'
      BY <1>4, OvershootFramed
    <2> QED
      BY <2>1, <2>3, <2>4, <2>5 DEF AccessInv
  <1>5. CASE WriteLink(c)
    <2> DEFINE e == caller[c].engagement
               link == caller[c].link
               row == [engagements[e] EXCEPT !.client = link]
    <2>1. /\ e \in DOMAIN engagements /\ link \in ClientId \cup {Absent}
          /\ link \in DOMAIN clients \cup {Absent} /\ engagements[e] \in EngagementRow
      BY <1>0, <1>5 DEF WriteLink, LinkHolds, CallerHolding, NoCall, AccessInv, AccessTyped
    <2>2. /\ engagements' = [engagements EXCEPT ![e] = row]
          /\ caller' = [caller EXCEPT ![c] = NoCall] /\ UNCHANGED <<orgs, clients>>
      BY <1>5 DEF WriteLink
    <2>3. /\ row \in EngagementRow /\ row.owner = engagements[e].owner /\ row.org = engagements[e].org
          /\ row.members = engagements[e].members /\ row.client = link
      BY <2>1 DEF EngagementRow
    <2> HIDE DEF row, e, link
    <2>4. \A x \in DOMAIN engagements : engagements[x].client \in DOMAIN clients \cup {Absent}
      BY DEF AccessInv, NoDanglingClient
    <2> QED
      BY <1>0, <1>4, <2>1, <2>2, <2>3, <2>4
  <1>6. ASSUME NEW u \in User, NEW id \in DOMAIN clients, delete_client(c, u, id)
        PROVE  AccessInv'
    <2>1. /\ clients' = Minus(clients, id) /\ UNCHANGED orgs /\ caller' = [caller EXCEPT ![c] = NoCall]
          /\ engagements' = [e \in DOMAIN engagements |->
                IF engagements[e].client = id THEN [engagements[e] EXCEPT !.client = Absent]
                ELSE engagements[e]]
      BY <1>6 DEF delete_client
    <2>2. /\ DOMAIN clients' = DOMAIN clients \ {id} /\ clients' \in [DOMAIN clients' -> ClientRow]
          /\ \A x \in DOMAIN clients' : clients'[x] = clients[x]
      BY <1>0, <2>1 DEF Minus
    <2>3. ASSUME NEW x \in DOMAIN engagements
          PROVE  /\ engagements'[x] \in EngagementRow
                 /\ engagements'[x].owner = engagements[x].owner
                 /\ engagements'[x].org = engagements[x].org
                 /\ engagements'[x].members = engagements[x].members
                 /\ engagements'[x].client \in DOMAIN clients' \cup {Absent}
      <3>1. /\ engagements[x] \in EngagementRow
            /\ engagements[x].client \in DOMAIN clients \cup {Absent}
        BY <1>0 DEF AccessInv, NoDanglingClient
      <3>2. CASE engagements[x].client = id
        <4>1. engagements'[x] = [engagements[x] EXCEPT !.client = Absent]
          BY <2>1, <3>2
        <4> QED
          BY <3>1, <4>1 DEF EngagementRow
      <3>3. CASE engagements[x].client # id
        BY <2>1, <2>2, <3>1, <3>3
      <3> QED
        BY <3>2, <3>3
    <2> QED
      BY <1>4, <2>1, <2>2, <2>3
  <1> QED
    BY <1>1, <1>2, <1>3, <1>5, <1>6, InsertRowKeepsInv

\* The invariant of access control is inductive.
LEMMA AccessInductive == AccessInv /\ [AccessNext]_accessVars => AccessInv'
  <1>1. AccessInv /\ UNCHANGED accessVars => AccessInv'
    BY DEF accessVars, AccessInv, AccessTyped, TenantsOwnTheirs, NoDanglingClient,
           MembersOvershootByOverlap, Members
  <1> QED
    BY <1>1, MemberKeepsInv, TenantKeepsInv DEF AccessNext

\* A role is given only where there was none, and goes only with the membership.
LEMMA InvitationStep ==
    ASSUME AccessInv, AccessNext, NEW e \in DOMAIN engagements, NEW u \in User,
           engagements[e].members[u] # Absent
    PROVE  engagements'[e].members[u] \in {engagements[e].members[u], Absent}
  <1>0. /\ engagements \in [DOMAIN engagements -> EngagementRow]
        /\ caller \in [Caller -> CallerHolding]
    BY DEF AccessInv, AccessTyped
  <1>1. ASSUME NEW c \in Caller, InsertMember(c), ~UNCHANGED engagements
        PROVE  engagements'[e].members[u] \in {engagements[e].members[u], Absent}
    <2> DEFINE x == caller[c].engagement
               m == caller[c].member
               role == caller[c].role
    <2>1. x \in DOMAIN engagements /\ m \in User /\ role \in Role
      BY <1>0, <1>1 DEF InsertMember, CallerHolding, NoCall, AccessInv, AccessTyped
    <2>2. engagements[x].members[m] = Absent /\ engagements' = RoleSet(x, m, role)
      BY <1>1 DEF InsertMember, RoleSet
    <2> HIDE DEF x, m, role
    <2> QED
      BY <2>1, <2>2, RoleWritten
  <1>2. ASSUME NEW c \in Caller, NEW v \in User, NEW m \in User, NEW x \in DOMAIN engagements,
               remove_member(c, v, x, m)
        PROVE  engagements'[e].members[u] \in {engagements[e].members[u], Absent}
    <2>1. engagements' = RoleSet(x, m, Absent)
      BY <1>2 DEF remove_member, RoleSet
    <2> QED
      BY <2>1, RoleWritten
  <1>3. ASSUME NEW c \in Caller, NEW id, NEW fresh, InsertRow(c, id, fresh)
        PROVE  engagements'[e].members[u] = engagements[e].members[u]
    BY <1>3 DEF InsertRow, With
  <1>4. ASSUME NEW c \in Caller, WriteLink(c)
        PROVE  engagements'[e].members[u] = engagements[e].members[u]
    BY <1>0, <1>4 DEF WriteLink, EngagementRow
  <1>5. ASSUME NEW c \in Caller, NEW v \in User, NEW id \in DOMAIN clients, delete_client(c, v, id)
        PROVE  engagements'[e].members[u] = engagements[e].members[u]
    BY <1>0, <1>5 DEF delete_client, EngagementRow
  <1>6. CASE MemberStep
    <2>1. PICK c \in Caller :
            \/ InsertMember(c)
            \/ \E v, m \in User, x \in DOMAIN engagements :
                  \/ \E role \in {"member", "viewer"} : CheckMember(c, v, x, m, role)
                  \/ remove_member(c, v, x, m)
      BY <1>6 DEF MemberStep
    <2> QED
      BY <1>1, <1>2, <2>1 DEF CheckMember, accessRows
  <1>7. CASE TenantStep
    BY <1>3, <1>4, <1>5, <1>7 DEF TenantStep, InsertFails, FindOrg, FindLink, accessRows
  <1> QED
    BY <1>6, <1>7 DEF AccessNext

-------------------------------------------------------------------------------
(* ApiSurface.                                                             *)

\* What a deletion loaded is still the exchange's endpoint, or the exchange is gone.
ApiTyped ==
    /\ observation_count \in [DOMAIN observation_count -> Nat]
    /\ exchanges \in [DOMAIN exchanges -> DOMAIN observation_count]
    /\ IsFiniteSet(DOMAIN exchanges) /\ DOMAIN exchanges \cap retired = {}
    /\ apiCall = [c \in ApiCall |-> apiCall[c]]
    /\ \A c \in ApiCall :
          /\ apiCall[c].stage = "promote" => apiCall[c] # NoApiCall
          /\ apiCall[c].stage = "delete" =>
                /\ apiCall[c].op \in DOMAIN observation_count /\ apiCall[c].count \in Nat
                /\ apiCall[c].exchange \in DOMAIN exchanges \cup retired
                /\ apiCall[c].exchange \in DOMAIN exchanges =>
                      exchanges[apiCall[c].exchange] = apiCall[c].op

ApiInv == ApiTyped /\ CountExactUntilOverlap

\* The exchanges of an operation are finitely many.
LEMMA ExchangesFinite ==
    ASSUME ApiTyped, NEW op
    PROVE  IsFiniteSet(ExchangesOf(op)) /\ Cardinality(ExchangesOf(op)) \in Nat
  <1>1. ExchangesOf(op) \subseteq DOMAIN exchanges
    BY DEF ExchangesOf
  <1> QED
    BY <1>1, FS_Subset, FS_CardinalityType DEF ApiTyped

\* The start: nothing is stored.
LEMMA ApiInitInv == ApiInit => ApiInv
  <1> SUFFICES ASSUME ApiInit PROVE ApiInv
    OBVIOUS
  <1>1. DOMAIN observation_count = {} /\ DOMAIN exchanges = {}
    BY DEF ApiInit
  <1>2. ApiTyped
    BY <1>1, FS_EmptySet DEF ApiInit, ApiTyped, NoApiCall
  <1> QED
    BY <1>1, <1>2 DEF ApiInv, CountExactUntilOverlap

\* Looking up an endpoint or loading an exchange changes only what the request holds.
LEMMA ApiReadKeepsInv ==
    ASSUME ApiInv, NEW c \in ApiCall, NEW held, apiCall' = [apiCall EXCEPT ![c] = held],
           UNCHANGED <<observation_count, exchanges, retired, overlapped>>,
           held.stage = "promote" => held # NoApiCall,
           held.stage = "delete" =>
                /\ held.op \in DOMAIN observation_count /\ held.count \in Nat
                /\ held.exchange \in DOMAIN exchanges \cup retired
                /\ held.exchange \in DOMAIN exchanges => exchanges[held.exchange] = held.op
    PROVE  ApiInv'
  BY DEF ApiInv, ApiTyped, CountExactUntilOverlap, ExchangesOf

\* Steps of api_surface.py keep the invariant.
LEMMA ApiNextInv == ApiInv /\ ApiNext => ApiInv'
  <1> SUFFICES ASSUME ApiInv, NEW c \in ApiCall,
                 \/ \E op \in Operation : FindEndpoint(c, op)
                 \/ \E x \in Exchange : CommitExchange(c, x) \/ LoadExchange(c, x)
                 \/ CommitDelete(c)
               PROVE  ApiInv'
    BY DEF ApiNext
  <1>0. /\ observation_count \in [DOMAIN observation_count -> Nat]
        /\ exchanges \in [DOMAIN exchanges -> DOMAIN observation_count]
        /\ IsFiniteSet(DOMAIN exchanges) /\ DOMAIN exchanges \cap retired = {}
        /\ apiCall = [d \in ApiCall |-> apiCall[d]] /\ NoApiCall.stage = "idle"
    BY DEF ApiInv, ApiTyped, NoApiCall
  <1>1. ASSUME NEW op \in Operation, FindEndpoint(c, op) PROVE ApiInv'
    <2> DEFINE held == [stage |-> "promote", op |-> op, found |-> op \in DOMAIN observation_count,
                        count |-> IF op \in DOMAIN observation_count THEN observation_count[op] ELSE 0]
    <2>1. held.stage = "promote" /\ held # NoApiCall
      BY <1>0
    <2>2. /\ apiCall' = [apiCall EXCEPT ![c] = held]
          /\ UNCHANGED <<observation_count, exchanges, retired, overlapped>>
      BY <1>1 DEF FindEndpoint
    <2> HIDE DEF held
    <2> QED
      BY <2>1, <2>2, ApiReadKeepsInv
  <1>2. ASSUME NEW x \in Exchange, LoadExchange(c, x) PROVE ApiInv'
    <2> DEFINE held == [stage |-> "delete", exchange |-> x, op |-> exchanges[x],
                        count |-> observation_count[exchanges[x]]]
    <2>1. /\ held.stage = "delete" /\ held.exchange = x /\ held.op = exchanges[x]
          /\ held.count \in Nat /\ x \in DOMAIN exchanges /\ exchanges[x] \in DOMAIN observation_count
      BY <1>0, <1>2 DEF LoadExchange
    <2>2. /\ apiCall' = [apiCall EXCEPT ![c] = held]
          /\ UNCHANGED <<observation_count, exchanges, retired, overlapped>>
      BY <1>2 DEF LoadExchange
    <2> HIDE DEF held
    <2> QED
      BY <2>1, <2>2, ApiReadKeepsInv
  <1>3. ASSUME NEW x \in Exchange, CommitExchange(c, x) PROVE ApiInv'
    <2> DEFINE op == apiCall[c].op
               new == NewCount(c)
    <2>1. /\ apiCall[c].stage = "promote" /\ x \notin DOMAIN exchanges /\ x \notin retired
          /\ observation_count' = [o \in DOMAIN observation_count \cup {op} |->
                IF o = op THEN new ELSE observation_count[o]]
          /\ exchanges' = [y \in DOMAIN exchanges \cup {x} |-> IF y = x THEN op ELSE exchanges[y]]
          /\ apiCall' = [apiCall EXCEPT ![c] = NoApiCall] /\ UNCHANGED <<retired, overlapped>>
      BY <1>3 DEF CommitExchange
    <2>2. /\ new \in Nat
          /\ op \in DOMAIN observation_count => new = observation_count[op] + 1
          /\ op \notin DOMAIN observation_count => new = 1
      BY <1>0 DEF NewCount
    <2> HIDE DEF op, new
    <2>3. /\ DOMAIN exchanges' = DOMAIN exchanges \cup {x} /\ exchanges'[x] = op
          /\ \A y \in DOMAIN exchanges : exchanges'[y] = exchanges[y]
          /\ DOMAIN observation_count' = DOMAIN observation_count \cup {op}
          /\ observation_count'[op] = new
          /\ \A o \in DOMAIN observation_count : o # op => observation_count'[o] = observation_count[o]
      BY <2>1
    <2>4. ApiTyped'
      <3>1. IsFiniteSet(DOMAIN exchanges')
        BY <1>0, <2>3, FS_AddElement
      <3>2. /\ observation_count' \in [DOMAIN observation_count' -> Nat]
            /\ exchanges' \in [DOMAIN exchanges' -> DOMAIN observation_count']
        BY <1>0, <2>1, <2>2, <2>3
      <3>3. \A d \in ApiCall : d # c => apiCall'[d] = apiCall[d]
        BY <1>0, <2>1
      <3>4. apiCall' = [d \in ApiCall |-> apiCall'[d]] /\ apiCall'[c] = NoApiCall
        BY <1>0, <2>1
      <3> QED
        BY <1>0, <2>1, <2>3, <3>1, <3>2, <3>3, <3>4 DEF ApiInv, ApiTyped
    <2>5. ASSUME NEW o \in DOMAIN observation_count' \ overlapped'
          PROVE  observation_count'[o] = Cardinality(ExchangesOf(o)')
      <3>1. IsFiniteSet(ExchangesOf(o)) /\ Cardinality(ExchangesOf(o)) \in Nat
        BY ExchangesFinite DEF ApiInv
      <3>2. CASE o = op
        <4>1. ExchangesOf(o)' = ExchangesOf(o) \cup {x} /\ x \notin ExchangesOf(o)
          BY <2>1, <2>3, <3>2 DEF ExchangesOf
        <4>2. Cardinality(ExchangesOf(o)') = Cardinality(ExchangesOf(o)) + 1
          BY <3>1, <4>1, FS_AddElement
        <4>3. CASE op \in DOMAIN observation_count
          BY <2>1, <2>2, <2>3, <3>2, <4>2, <4>3 DEF ApiInv, CountExactUntilOverlap
        <4>4. CASE op \notin DOMAIN observation_count
          <5>1. ExchangesOf(o) = {}
            BY <1>0, <3>2, <4>4 DEF ExchangesOf
          <5> QED
            BY <2>2, <2>3, <3>2, <4>2, <4>4, <5>1, FS_EmptySet
        <4> QED
          BY <4>3, <4>4
      <3>3. CASE o # op
        <4>1. ExchangesOf(o)' = ExchangesOf(o)
          BY <2>3, <3>3 DEF ExchangesOf
        <4> QED
          BY <2>1, <2>3, <3>3, <4>1 DEF ApiInv, CountExactUntilOverlap
      <3> QED
        BY <3>2, <3>3
    <2> QED
      BY <2>4, <2>5 DEF ApiInv, CountExactUntilOverlap, ExchangesOf
  <1>4. CASE CommitDelete(c)
    <2> DEFINE op == apiCall[c].op
               x == apiCall[c].exchange
               count == apiCall[c].count
               new == IF count > 0 THEN count - 1 ELSE 0
    <2>1. /\ apiCall[c].stage = "delete"
          /\ observation_count' = [observation_count EXCEPT ![op] =
                IF new = count THEN observation_count[op] ELSE new]
          /\ exchanges' = [y \in DOMAIN exchanges \ {x} |-> exchanges[y]]
          /\ retired' = retired \cup {x} /\ apiCall' = [apiCall EXCEPT ![c] = NoApiCall]
          /\ overlapped' = IF x \in retired \/ observation_count[op] # count
                           THEN overlapped \cup {op} ELSE overlapped
      BY <1>4 DEF CommitDelete
    <2>2. /\ op \in DOMAIN observation_count /\ count \in Nat /\ x \in DOMAIN exchanges \cup retired
          /\ x \in DOMAIN exchanges => exchanges[x] = op
          /\ observation_count[op] \in Nat
      BY <1>0, <2>1 DEF ApiInv, ApiTyped
    <2> HIDE DEF op, x, count
    <2>3. /\ DOMAIN exchanges' = DOMAIN exchanges \ {x}
          /\ \A y \in DOMAIN exchanges' : exchanges'[y] = exchanges[y]
          /\ DOMAIN observation_count' = DOMAIN observation_count
          /\ \A o \in DOMAIN observation_count : o # op => observation_count'[o] = observation_count[o]
          /\ observation_count'[op] = IF new = count THEN observation_count[op] ELSE new
          /\ overlapped \subseteq overlapped'
      BY <1>0, <2>1, <2>2
    <2>4. ApiTyped'
      <3>1. IsFiniteSet(DOMAIN exchanges')
        BY <1>0, <2>3, FS_Subset
      <3>2. new \in Nat
        BY <2>2
      <3> HIDE DEF new
      <3>3. /\ observation_count' \in [DOMAIN observation_count' -> Nat]
            /\ exchanges' \in [DOMAIN exchanges' -> DOMAIN observation_count']
        BY <1>0, <2>1, <2>2, <2>3, <3>2
      <3>4. \A d \in ApiCall : d # c => apiCall'[d] = apiCall[d]
        BY <1>0, <2>1
      <3>5. apiCall' = [d \in ApiCall |-> apiCall'[d]] /\ apiCall'[c] = NoApiCall
        BY <1>0, <2>1
      <3> QED
        BY <1>0, <2>1, <2>3, <3>1, <3>3, <3>4, <3>5 DEF ApiInv, ApiTyped
    <2>5. ASSUME NEW o \in DOMAIN observation_count' \ overlapped'
          PROVE  observation_count'[o] = Cardinality(ExchangesOf(o)')
      <3>1. IsFiniteSet(ExchangesOf(o)) /\ Cardinality(ExchangesOf(o)) \in Nat
        BY ExchangesFinite DEF ApiInv
      <3>2. observation_count[o] = Cardinality(ExchangesOf(o))
        BY <2>3 DEF ApiInv, CountExactUntilOverlap
      <3>3. CASE o = op
        <4>1. x \notin retired /\ observation_count[op] = count
          BY <2>1, <3>3
        <4>2. ExchangesOf(o)' = ExchangesOf(o) \ {x} /\ x \in ExchangesOf(o)
          BY <2>2, <2>3, <3>3, <4>1 DEF ExchangesOf
        <4>3. /\ Cardinality(ExchangesOf(o)') = Cardinality(ExchangesOf(o)) - 1
              /\ Cardinality(ExchangesOf(o)') \in Nat
          BY <3>1, <4>2, FS_RemoveElement, FS_CardinalityType
        <4> QED
          BY <2>2, <2>3, <3>1, <3>2, <3>3, <4>1, <4>3
      <3>4. CASE o # op
        <4>1. ExchangesOf(o)' = ExchangesOf(o)
          BY <2>2, <2>3, <3>4 DEF ExchangesOf
        <4> QED
          BY <2>3, <3>2, <3>4, <4>1
      <3> QED
        BY <3>3, <3>4
    <2> QED
      BY <2>4, <2>5 DEF ApiInv, CountExactUntilOverlap, ExchangesOf
  <1> QED
    BY <1>1, <1>2, <1>3, <1>4

\* The invariant of the API surface is inductive.
LEMMA ApiInductive == ApiInv /\ [ApiNext]_apiVars => ApiInv'
  <1>1. ApiInv /\ UNCHANGED apiVars => ApiInv'
    BY DEF apiVars, ApiInv, ApiTyped, CountExactUntilOverlap, ExchangesOf
  <1> QED
    BY <1>1, ApiNextInv

\* A promotion that ends has added its exchange, whoever created the operation.
LEMMA PromotionStep ==
    ASSUME ApiInv, ApiNext, NEW c \in ApiCall, apiCall[c].stage = "promote", apiCall'[c] = NoApiCall
    PROVE  Cardinality(DOMAIN exchanges') = Cardinality(DOMAIN exchanges) + 1
  <1>0. /\ apiCall = [d \in ApiCall |-> apiCall[d]] /\ IsFiniteSet(DOMAIN exchanges)
        /\ NoApiCall.stage = "idle" /\ apiCall'[c] # apiCall[c]
    BY DEF ApiInv, ApiTyped, NoApiCall
  <1>1. PICK d \in ApiCall :
           \/ \E op \in Operation : FindEndpoint(d, op)
           \/ \E x \in Exchange : CommitExchange(d, x) \/ LoadExchange(d, x)
           \/ CommitDelete(d)
    BY DEF ApiNext
  <1>2. ASSUME NEW x \in Exchange, CommitExchange(d, x)
        PROVE  Cardinality(DOMAIN exchanges') = Cardinality(DOMAIN exchanges) + 1
    <2>1. DOMAIN exchanges' = DOMAIN exchanges \cup {x} /\ x \notin DOMAIN exchanges
      BY <1>2 DEF CommitExchange
    <2> QED
      BY <1>0, <2>1, FS_AddElement
  <1>3. ASSUME NEW op \in Operation, FindEndpoint(d, op) PROVE FALSE
    BY <1>0, <1>3 DEF FindEndpoint
  <1>4. ASSUME NEW x \in Exchange, LoadExchange(d, x) PROVE FALSE
    BY <1>0, <1>4 DEF LoadExchange
  <1>5. CASE CommitDelete(d)
    BY <1>0, <1>5 DEF CommitDelete
  <1> QED
    BY <1>1, <1>2, <1>3, <1>4, <1>5

-------------------------------------------------------------------------------
(* FindingRecords.                                                         *)

Entry == [kind : {"created", "baseline", "updated", "activity"}, snapshot : Nat]
Versions == UNION {[S -> Nat] : S \in SUBSET FindingId}
Histories == UNION {[S -> SUBSET Nat] : S \in SUBSET FindingId}
Revision == [base : Nat, status : ReportStatus, findings : Versions, history : Histories]

RecordsTyped ==
    /\ findings \in [DOMAIN findings -> Nat] /\ DOMAIN findings \subseteq FindingId
    /\ activities \in [DOMAIN findings -> Seq(Entry)]
    /\ evidence \in [DOMAIN evidence -> FindingId \cup {Unlinked}]
    /\ DOMAIN findings \subseteq spent /\ DOMAIN evidence \subseteq spent
    /\ revisions \in Seq(Revision)
    /\ recordCall = [c \in RecordCall |-> recordCall[c]]

\* A snapshot shows findings that were stored, none at a later version than it now has.
SnapshotSound(v) ==
    /\ v \in Versions
    /\ \A f \in DOMAIN v : f \in spent /\ (f \in DOMAIN findings => v[f] <= findings[f])

\* A report being assembled was begun from the latest revision.
CallSound(h) ==
    h.stage \in Assembling =>
        /\ h = [stage |-> h.stage, base |-> h.base, findings |-> h.findings]
        /\ h.base = Len(revisions) /\ SnapshotSound(h.findings)

CallsSound ==
    /\ \A c \in RecordCall : CallSound(recordCall[c])
    /\ \A c, d \in RecordCall :
          recordCall[c].stage \in Assembling /\ recordCall[d].stage \in Assembling => c = d

RevisionsSound ==
    \A n \in DOMAIN revisions : revisions[n].base = n - 1 /\ SnapshotSound(revisions[n].findings)

RecordsInv ==
    /\ RecordsTyped /\ CallsSound /\ RevisionsSound
    /\ NoOrphanEvidence /\ HistoryTellsFinding /\ ReportHistoryNotBehind

\* What a set of versions is made of.
LEMMA VersionFacts ==
    /\ \A S \in SUBSET FindingId : \A v \in [S -> Nat] : v \in Versions
    /\ \A S \in SUBSET FindingId : \A h \in [S -> SUBSET Nat] : h \in Histories
    /\ \A v \in Versions : DOMAIN v \subseteq FindingId /\ \A f \in DOMAIN v : v[f] \in Nat
  BY DEF Versions, Histories

\* The start: findings without history, no report.
LEMMA RecordsInitInv == RecordsInit => RecordsInv
  <1> SUFFICES ASSUME RecordsInit PROVE RecordsInv
    OBVIOUS
  <1> USE RecordsAssumption DEF RecordsAssumption, RecordsInit
  <1>1. RecordsTyped
    BY DEF RecordsTyped
  <1>2. CallsSound
    BY DEF CallsSound, CallSound, NoRecordCall, Assembling
  <1>3. RevisionsSound /\ ReportHistoryNotBehind
    BY DEF RevisionsSound, ReportHistoryNotBehind
  <1>4. NoOrphanEvidence /\ HistoryTellsFinding
    BY DEF NoOrphanEvidence, HistoryTellsFinding
  <1> QED
    BY <1>1, <1>2, <1>3, <1>4 DEF RecordsInv

\* A request that takes up or drops what it holds, the tables unchanged.
LEMMA RecordCallKeepsInv ==
    ASSUME RecordsInv, NEW c \in RecordCall, NEW held,
           recordCall' = [recordCall EXCEPT ![c] = held],
           UNCHANGED <<findings, activities, evidence, spent, revisions>>, CallSound(held),
           held.stage \in Assembling =>
               \A d \in RecordCall : d # c => recordCall[d].stage \notin Assembling
    PROVE  RecordsInv'
  <1>1. RecordsTyped'
    BY DEF RecordsInv, RecordsTyped
  <1>4. \A d \in RecordCall : recordCall'[d] = IF d = c THEN held ELSE recordCall[d]
    BY DEF RecordsInv, RecordsTyped
  <1>5. CallsSound'
    <2>1. \A d \in RecordCall : CallSound(recordCall'[d])
      BY <1>4 DEF RecordsInv, CallsSound
    <2>2. \A d \in RecordCall : CallSound(recordCall[d])'
      BY <2>1 DEF CallSound, SnapshotSound
    <2>3. \A d, e \in RecordCall :
            recordCall'[d].stage \in Assembling /\ recordCall'[e].stage \in Assembling => d = e
      BY <1>4 DEF RecordsInv, CallsSound
    <2> QED
      BY <2>2, <2>3 DEF CallsSound, Assembling
  <1>6. RevisionsSound'
    BY DEF RecordsInv, RevisionsSound, SnapshotSound
  <1>7. NoOrphanEvidence' /\ HistoryTellsFinding'
    BY DEF RecordsInv, NoOrphanEvidence, HistoryTellsFinding
  <1>8. ReportHistoryNotBehind'
    BY DEF RecordsInv, ReportHistoryNotBehind, Shown
  <1> QED
    BY <1>1, <1>5, <1>6, <1>7, <1>8 DEF RecordsInv

\* A request that ends.
LEMMA NothingHeld == NoRecordCall.stage = "idle" /\ "idle" \notin Assembling
  BY DEF NoRecordCall, Assembling

\* Steps of evidence.py keep the invariant.
LEMMA EvidenceKeepsInv == RecordsInv /\ EvidenceStep => RecordsInv'
  <1> SUFFICES ASSUME RecordsInv, EvidenceStep PROVE RecordsInv'
    OBVIOUS
  <1>0. /\ evidence \in [DOMAIN evidence -> FindingId \cup {Unlinked}]
        /\ DOMAIN findings \subseteq FindingId /\ recordCall = [c \in RecordCall |-> recordCall[c]]
        /\ DOMAIN evidence \subseteq spent
    BY DEF RecordsInv, RecordsTyped
  <1>1. ASSUME evidence' \in [DOMAIN evidence' -> FindingId \cup {Unlinked}],
               DOMAIN evidence' \subseteq spent', spent \subseteq spent',
               \A e \in DOMAIN evidence' : evidence'[e] \in DOMAIN findings \cup {Unlinked},
               UNCHANGED <<findings, activities, revisions>>,
               \/ UNCHANGED recordCall
               \/ \E c \in RecordCall : recordCall' = [recordCall EXCEPT ![c] = NoRecordCall]
        PROVE  RecordsInv'
    <2>1. RecordsTyped'
      BY <1>1 DEF RecordsInv, RecordsTyped
    <2>2. /\ \A c \in RecordCall : recordCall'[c].stage \in Assembling => recordCall'[c] = recordCall[c]
      BY <1>0, <1>1, NothingHeld
    <2>3. CallsSound'
      <3>1. ASSUME NEW c \in RecordCall PROVE CallSound(recordCall[c])'
        <4>1. CallSound(recordCall[c])
          BY DEF RecordsInv, CallsSound
        <4> QED
          BY <1>1, <2>2, <4>1 DEF CallSound, SnapshotSound, Assembling
      <3> QED
        BY <2>2, <3>1 DEF RecordsInv, CallsSound, Assembling
    <2>4. RevisionsSound'
      BY <1>1 DEF RecordsInv, RevisionsSound, SnapshotSound
    <2>5. NoOrphanEvidence' /\ HistoryTellsFinding'
      BY <1>1 DEF RecordsInv, NoOrphanEvidence, HistoryTellsFinding
    <2>6. ReportHistoryNotBehind'
      BY <1>1 DEF RecordsInv, ReportHistoryNotBehind, Shown
    <2> QED
      BY <2>1, <2>3, <2>4, <2>5, <2>6 DEF RecordsInv
  <1>2. \A e \in DOMAIN evidence : evidence[e] \in DOMAIN findings \cup {Unlinked}
    BY DEF RecordsInv, NoOrphanEvidence
  <1>3. ASSUME NEW e \in EvidenceId, delete_evidence(e) PROVE RecordsInv'
    <2>1. /\ evidence' = [x \in DOMAIN evidence \ {e} |-> evidence[x]]
          /\ UNCHANGED <<findings, activities, spent, revisions, recordCall>>
      BY <1>3 DEF delete_evidence, Deleted
    <2>2. /\ evidence' \in [DOMAIN evidence' -> FindingId \cup {Unlinked}]
          /\ DOMAIN evidence' \subseteq DOMAIN evidence
          /\ \A x \in DOMAIN evidence' : evidence'[x] = evidence[x]
      BY <1>0, <2>1
    <2> QED
      BY <1>0, <1>1, <1>2, <2>1, <2>2
  <1>4. ASSUME NEW c \in RecordCall, NEW f \in FindingId \cup {Unlinked}, CheckFinding(c, f)
        PROVE  RecordsInv'
    <2> DEFINE held == [stage |-> "create", finding |-> f]
    <2>1. held.stage \notin Assembling
      BY DEF Assembling
    <2>2. /\ recordCall' = [recordCall EXCEPT ![c] = held]
          /\ UNCHANGED <<findings, activities, evidence, spent, revisions>>
      BY <1>4 DEF CheckFinding
    <2> HIDE DEF held
    <2>3. CallSound(held)
      BY <2>1 DEF CallSound
    <2> QED
      BY <2>1, <2>2, <2>3, RecordCallKeepsInv
  <1>5. ASSUME NEW c \in RecordCall, NEW e \in EvidenceId, NEW f \in FindingId, ReadLink(c, e, f)
        PROVE  RecordsInv'
    <2> DEFINE held == [stage |-> "link", finding |-> f, item |-> e]
    <2>1. held.stage \notin Assembling
      BY DEF Assembling
    <2>2. /\ recordCall' = [recordCall EXCEPT ![c] = held]
          /\ UNCHANGED <<findings, activities, evidence, spent, revisions>>
      BY <1>5 DEF ReadLink
    <2> HIDE DEF held
    <2>3. CallSound(held)
      BY <2>1 DEF CallSound
    <2> QED
      BY <2>1, <2>2, <2>3, RecordCallKeepsInv
  <1>6. ASSUME NEW c \in RecordCall, NEW e \in EvidenceId, InsertEvidence(c, e) PROVE RecordsInv'
    <2> DEFINE f == recordCall[c].finding
    <2>1. /\ recordCall' = [recordCall EXCEPT ![c] = NoRecordCall]
          /\ UNCHANGED <<findings, activities, revisions>>
      BY <1>6 DEF InsertEvidence, Done
    <2>2. CASE f \in DOMAIN findings \cup {Unlinked}
      <3>1. /\ evidence' = [x \in DOMAIN evidence \cup {e} |-> IF x = e THEN f ELSE evidence[x]]
            /\ spent' = spent \cup {e}
        BY <1>6, <2>2 DEF InsertEvidence, Stored
      <3> HIDE DEF f
      <3>2. /\ DOMAIN evidence' = DOMAIN evidence \cup {e} /\ evidence'[e] = f
            /\ \A x \in DOMAIN evidence : x # e => evidence'[x] = evidence[x]
            /\ evidence' \in [DOMAIN evidence' -> FindingId \cup {Unlinked}]
        BY <1>0, <2>2, <3>1
      <3> QED
        BY <1>0, <1>1, <1>2, <2>1, <2>2, <3>1, <3>2
    <2>3. CASE f \notin DOMAIN findings \cup {Unlinked}
      <3>1. UNCHANGED <<evidence, spent>>
        BY <1>6, <2>3 DEF InsertEvidence
      <3> QED
        BY <1>0, <1>1, <1>2, <2>1, <3>1
    <2> QED
      BY <2>2, <2>3
  <1>7. ASSUME NEW c \in RecordCall, UpdateLink(c) PROVE RecordsInv'
    <2> DEFINE f == recordCall[c].finding
               e == recordCall[c].item
    <2>1. /\ recordCall' = [recordCall EXCEPT ![c] = NoRecordCall]
          /\ UNCHANGED <<findings, activities, spent, revisions>>
      BY <1>7 DEF UpdateLink, Done
    <2>2. CASE e \in DOMAIN evidence /\ evidence[e] = Unlinked /\ f \in DOMAIN findings
      <3>1. evidence' = [evidence EXCEPT ![e] = f]
        BY <1>7, <2>2 DEF UpdateLink
      <3> HIDE DEF e, f
      <3>2. /\ evidence' \in [DOMAIN evidence' -> FindingId \cup {Unlinked}]
            /\ DOMAIN evidence' = DOMAIN evidence
            /\ \A x \in DOMAIN evidence : evidence'[x] \in {evidence[x], f}
        BY <1>0, <2>2, <3>1
      <3> QED
        BY <1>0, <1>1, <1>2, <2>1, <2>2, <3>2
    <2>3. CASE ~(e \in DOMAIN evidence /\ evidence[e] = Unlinked /\ f \in DOMAIN findings)
      <3>1. UNCHANGED evidence
        BY <1>7, <2>3 DEF UpdateLink
      <3> QED
        BY <1>0, <1>1, <1>2, <2>1, <3>1
    <2> QED
      BY <2>2, <2>3
  <1> QED
    BY <1>3, <1>4, <1>5, <1>6, <1>7 DEF EvidenceStep

\* An entry recorded after its baseline: the history still opens once, ends with the
\* finding as it now stands, and shows no note that a report taken before should have had.
LEMMA HistoryGrows ==
    ASSUME RecordsInv, NEW f \in DOMAIN findings, NEW kind \in {"updated", "activity"},
           NEW version \in Nat, version >= findings[f],
           findings' = [findings EXCEPT ![f] = version],
           activities' = [activities EXCEPT ![f] = record(capture_baseline(f), kind, version)],
           UNCHANGED <<evidence, spent, revisions, recordCall>>
    PROVE  RecordsInv'
  <1> DEFINE b == capture_baseline(f)
             h == record(b, kind, version)
             entry == [kind |-> kind, snapshot |-> version]
             Opening == {"created", "baseline"}
  <1>0. /\ findings \in [DOMAIN findings -> Nat] /\ activities \in [DOMAIN findings -> Seq(Entry)]
        /\ activities[f] \in Seq(Entry) /\ findings[f] \in Nat
    BY DEF RecordsInv, RecordsTyped
  <1>1. /\ b \in Seq(Entry) /\ Len(b) \in Nat \ {0} /\ {i \in DOMAIN b : b[i].kind \in Opening} = {1}
        /\ \A i \in 1..Len(b) : b[i].kind = "activity" =>
              i \in 1..Len(activities[f]) /\ b[i] = activities[f][i]
    <2>1. CASE activities[f] = <<>>
      <3> DEFINE opening == [kind |-> "baseline", snapshot |-> findings[f]]
      <3>1. b = Append(<<>>, opening) /\ opening \in Entry /\ opening.kind = "baseline"
        BY <1>0, <2>1 DEF capture_baseline, record, Entry
      <3> HIDE DEF b, opening
      <3>2. b \in Seq(Entry) /\ Len(b) = 1 /\ b[1] = opening /\ DOMAIN b = {1}
        BY <3>1
      <3> QED
        BY <3>1, <3>2
    <2>2. CASE activities[f] # <<>>
      <3>1. b = activities[f]
        BY <2>2 DEF capture_baseline
      <3>2. {i \in DOMAIN b : b[i].kind \in Opening} = {1}
        BY <2>2, <3>1 DEF RecordsInv, HistoryTellsFinding
      <3>3. Len(b) \in Nat \ {0}
        BY <1>0, <2>2, <3>1
      <3> QED
        BY <1>0, <3>1, <3>2, <3>3
    <2> QED
      BY <2>1, <2>2
  <1>2. entry \in Entry /\ entry.kind = kind /\ entry.snapshot = version /\ h = Append(b, entry)
    BY DEF Entry, record
  <1> HIDE DEF b, entry, h
  <1>3. /\ h \in Seq(Entry) /\ Len(h) = Len(b) + 1 /\ DOMAIN h = 1..(Len(b) + 1)
        /\ DOMAIN b = 1..Len(b) /\ h[Len(b) + 1] = entry /\ \A i \in 1..Len(b) : h[i] = b[i]
    BY <1>1, <1>2
  <1>4. /\ activities' = [activities EXCEPT ![f] = h] /\ DOMAIN findings' = DOMAIN findings
        /\ findings'[f] = version /\ activities'[f] = h
        /\ \A g \in DOMAIN findings : g # f => findings'[g] = findings[g] /\ activities'[g] = activities[g]
        /\ \A g \in DOMAIN findings : findings'[g] >= findings[g] /\ findings'[g] \in Nat
    BY <1>0 DEF h, b
  <1>5. RecordsTyped'
    <2>1. activities' \in [DOMAIN findings -> Seq(Entry)] /\ findings' \in [DOMAIN findings -> Nat]
      BY <1>0, <1>3, <1>4
    <2> QED
      BY <1>4, <2>1 DEF RecordsInv, RecordsTyped
  <1>6. ASSUME NEW v, SnapshotSound(v) PROVE SnapshotSound(v)'
    <2>1. \A g \in DOMAIN v : v[g] \in Nat
      BY <1>6, VersionFacts DEF SnapshotSound
    <2>2. \A g \in DOMAIN v : g \in DOMAIN findings => v[g] <= findings'[g]
      BY <1>0, <1>4, <1>6, <2>1 DEF SnapshotSound
    <2> QED
      BY <1>4, <1>6, <2>2 DEF SnapshotSound
  <1>7. CallsSound'
    <2>1. ASSUME NEW c \in RecordCall PROVE CallSound(recordCall[c])'
      <3>1. CallSound(recordCall[c])
        BY DEF RecordsInv, CallsSound
      <3>2. SnapshotSound(recordCall[c].findings) => SnapshotSound(recordCall[c].findings)'
        BY <1>6 DEF SnapshotSound
      <3> QED
        BY <3>1, <3>2 DEF CallSound, Assembling
    <2> QED
      BY <2>1 DEF RecordsInv, CallsSound, Assembling
  <1>8. RevisionsSound'
    <2>1. ASSUME NEW n \in DOMAIN revisions PROVE SnapshotSound(revisions[n].findings)'
      <3>1. SnapshotSound(revisions[n].findings)
        BY DEF RecordsInv, RevisionsSound
      <3> QED
        BY <1>6, <3>1 DEF SnapshotSound
    <2> QED
      BY <2>1 DEF RecordsInv, RevisionsSound
  <1>9. NoOrphanEvidence'
    BY <1>4 DEF RecordsInv, NoOrphanEvidence
  <1>10. HistoryTellsFinding'
    <2>1. {i \in DOMAIN h : h[i].kind \in Opening} = {1}
      BY <1>1, <1>2, <1>3
    <2>2. h[Len(h)].snapshot = version
      BY <1>2, <1>3
    <2>3. \A g \in DOMAIN findings : g # f => activities'[g] = activities[g] /\ findings'[g] = findings[g]
      BY <1>4
    <2> QED
      BY <1>4, <2>1, <2>2, <2>3 DEF RecordsInv, HistoryTellsFinding
  <1>11. ReportHistoryNotBehind'
    <2> SUFFICES ASSUME NEW n \in DOMAIN revisions,
                        NEW g \in DOMAIN revisions[n].findings \cap DOMAIN findings,
                        NEW i \in Shown(g)', activities'[g][i].snapshot < revisions[n].findings[g]
                 PROVE  i \in revisions[n].history[g]
      BY <1>4 DEF ReportHistoryNotBehind
    <2>0. DOMAIN activities = DOMAIN findings /\ DOMAIN activities' = DOMAIN findings
      BY <1>0, <1>4
    <2>1. \A j \in Shown(g) : activities[g][j].snapshot < revisions[n].findings[g]
                                  => j \in revisions[n].history[g]
      BY DEF RecordsInv, ReportHistoryNotBehind
    <2>2. CASE g # f
      <3>1. i \in Shown(g) /\ activities'[g][i] = activities[g][i]
        BY <1>4, <2>0, <2>2 DEF Shown
      <3> QED
        BY <2>1, <3>1
    <2>3. CASE g = f
      <3>1. i \in 1..(Len(b) + 1) /\ h[i].kind = "activity" /\ activities'[g] = h
        BY <1>3, <1>4, <2>0, <2>3 DEF Shown
      <3>2. revisions[n].findings[g] <= findings[g] /\ revisions[n].findings[g] \in Nat
        BY VersionFacts DEF RecordsInv, RevisionsSound, SnapshotSound
      <3>3. i # Len(b) + 1
        BY <1>0, <1>2, <1>3, <2>3, <3>1, <3>2
      <3>4. i \in 1..Len(b) /\ h[i] = b[i]
        BY <1>1, <1>3, <3>1, <3>3
      <3>5. i \in 1..Len(activities[f]) /\ h[i] = activities[f][i]
        BY <1>1, <3>1, <3>4
      <3>6. i \in Shown(g) /\ activities'[g][i] = activities[g][i]
        BY <2>0, <2>3, <3>1, <3>5 DEF Shown
      <3> QED
        BY <2>1, <3>6
    <2> QED
      BY <2>2, <2>3
  <1> QED
    BY <1>5, <1>7, <1>8, <1>9, <1>10, <1>11 DEF RecordsInv

\* Steps of findings.py and finding_activity.py keep the invariant.
LEMMA FindingKeepsInv == RecordsInv /\ FindingStep => RecordsInv'
  <1> SUFFICES ASSUME RecordsInv, NEW f \in FindingId,
                 \/ add_finding(f) \/ update_finding(f) \/ delete_finding(f)
                 \/ \E named \in SUBSET EvidenceId : add_activity(f, named)
               PROVE  RecordsInv'
    BY DEF FindingStep
  <1>0. /\ findings \in [DOMAIN findings -> Nat] /\ activities \in [DOMAIN findings -> Seq(Entry)]
        /\ DOMAIN findings \subseteq FindingId /\ DOMAIN findings \subseteq spent
        /\ DOMAIN evidence \subseteq spent
        /\ evidence \in [DOMAIN evidence -> FindingId \cup {Unlinked}]
    BY DEF RecordsInv, RecordsTyped
  <1>1. ASSUME RecordsTyped', HistoryTellsFinding', NoOrphanEvidence', spent \subseteq spent',
               UNCHANGED <<revisions, recordCall>>,
               \A g \in DOMAIN findings' \cap spent :
                   /\ g \in DOMAIN findings /\ findings'[g] = findings[g]
                   /\ activities'[g] = activities[g],
               DOMAIN activities' = DOMAIN findings'
        PROVE  RecordsInv'
    <2>1. ASSUME NEW v, SnapshotSound(v) PROVE SnapshotSound(v)'
      BY <1>1, <2>1 DEF SnapshotSound
    <2>2. CallsSound'
      <3>1. ASSUME NEW c \in RecordCall PROVE CallSound(recordCall[c])'
        <4>1. CallSound(recordCall[c])
          BY DEF RecordsInv, CallsSound
        <4>2. SnapshotSound(recordCall[c].findings) => SnapshotSound(recordCall[c].findings)'
          BY <1>1, <2>1 DEF SnapshotSound
        <4> QED
          BY <1>1, <4>1, <4>2 DEF CallSound, Assembling
      <3> QED
        BY <1>1, <3>1 DEF RecordsInv, CallsSound, Assembling
    <2>3. RevisionsSound'
      <3>1. ASSUME NEW n \in DOMAIN revisions PROVE SnapshotSound(revisions[n].findings)'
        <4>1. SnapshotSound(revisions[n].findings)
          BY DEF RecordsInv, RevisionsSound
        <4> QED
          BY <1>1, <2>1, <4>1 DEF SnapshotSound
      <3> QED
        BY <1>1, <3>1 DEF RecordsInv, RevisionsSound
    <2>4. ReportHistoryNotBehind'
      <3> SUFFICES ASSUME NEW n \in DOMAIN revisions,
                          NEW g \in DOMAIN revisions[n].findings \cap DOMAIN findings',
                          NEW i \in Shown(g)', activities'[g][i].snapshot < revisions[n].findings[g]
                   PROVE  i \in revisions[n].history[g]
        BY <1>1 DEF ReportHistoryNotBehind
      <3>1. g \in spent
        BY DEF RecordsInv, RevisionsSound, SnapshotSound
      <3>2. g \in DOMAIN findings /\ activities'[g] = activities[g]
        BY <1>1, <3>1
      <3>3. i \in Shown(g)
        BY <1>0, <1>1, <3>2 DEF Shown
      <3> QED
        BY <3>2, <3>3 DEF RecordsInv, ReportHistoryNotBehind
    <2> QED
      BY <1>1, <2>2, <2>3, <2>4 DEF RecordsInv
  <1>2. CASE add_finding(f)
    <2> DEFINE entry == [kind |-> "created", snapshot |-> 0]
               h == Append(<<>>, entry)
    <2>1. /\ f \notin spent /\ spent' = spent \cup {f}
          /\ findings' = [x \in DOMAIN findings \cup {f} |-> IF x = f THEN 0 ELSE findings[x]]
          /\ activities' = [x \in DOMAIN activities \cup {f} |-> IF x = f THEN h ELSE activities[x]]
          /\ UNCHANGED <<evidence, revisions, recordCall>>
      BY <1>2 DEF add_finding, Stored, record
    <2>2. entry \in Entry /\ entry.kind = "created" /\ entry.snapshot = 0
      BY DEF Entry
    <2> HIDE DEF entry
    <2>3. h \in Seq(Entry) /\ Len(h) = 1 /\ h[1] = entry /\ DOMAIN h = {1}
      BY <2>2
    <2> HIDE DEF h
    <2>4. /\ DOMAIN findings' = DOMAIN findings \cup {f} /\ DOMAIN activities' = DOMAIN findings'
          /\ findings'[f] = 0 /\ activities'[f] = h
          /\ \A g \in DOMAIN findings : findings'[g] = findings[g] /\ activities'[g] = activities[g]
      BY <1>0, <2>1
    <2>5. RecordsTyped'
      <3>1. /\ findings' \in [DOMAIN findings' -> Nat]
            /\ activities' \in [DOMAIN findings' -> Seq(Entry)]
        BY <1>0, <2>1, <2>3, <2>4
      <3> QED
        BY <2>1, <2>4, <3>1 DEF RecordsInv, RecordsTyped
    <2>6. HistoryTellsFinding'
      <3>1. {i \in DOMAIN h : h[i].kind \in {"created", "baseline"}} = {1}
        BY <2>2, <2>3
      <3>2. h[Len(h)].snapshot = 0
        BY <2>2, <2>3
      <3> QED
        BY <2>4, <3>1, <3>2 DEF RecordsInv, HistoryTellsFinding
    <2>7. NoOrphanEvidence'
      BY <2>1, <2>4 DEF RecordsInv, NoOrphanEvidence
    <2> QED
      BY <1>1, <2>1, <2>4, <2>5, <2>6, <2>7
  <1>3. CASE delete_finding(f)
    <2> DEFINE gone == {e \in DOMAIN evidence : evidence[e] = f}
    <2>1. /\ f \in DOMAIN findings
          /\ findings' = [x \in DOMAIN findings \ {f} |-> findings[x]]
          /\ activities' = [x \in DOMAIN activities \ {f} |-> activities[x]]
          /\ evidence' = [x \in DOMAIN evidence \ gone |-> evidence[x]]
          /\ UNCHANGED <<spent, revisions, recordCall>>
      BY <1>3 DEF delete_finding, Deleted
    <2>2. /\ DOMAIN findings' = DOMAIN findings \ {f} /\ DOMAIN activities' = DOMAIN findings'
          /\ DOMAIN evidence' = DOMAIN evidence \ gone
          /\ \A x \in DOMAIN evidence' : evidence'[x] = evidence[x] /\ evidence[x] # f
          /\ \A g \in DOMAIN findings' : findings'[g] = findings[g] /\ activities'[g] = activities[g]
      BY <1>0, <2>1
    <2>3. RecordsTyped'
      <3>1. /\ findings' \in [DOMAIN findings' -> Nat]
            /\ activities' \in [DOMAIN findings' -> Seq(Entry)]
            /\ evidence' \in [DOMAIN evidence' -> FindingId \cup {Unlinked}]
        BY <1>0, <2>1, <2>2
      <3> QED
        BY <2>1, <2>2, <3>1 DEF RecordsInv, RecordsTyped
    <2>4. HistoryTellsFinding' /\ NoOrphanEvidence'
      BY <2>2 DEF RecordsInv, HistoryTellsFinding, NoOrphanEvidence
    <2> QED
      BY <1>1, <2>1, <2>2, <2>3, <2>4
  <1>4. CASE update_finding(f)
    <2> DEFINE version == findings[f] + 1
    <2>1. f \in DOMAIN findings /\ findings[f] \in Nat
      BY <1>0, <1>4 DEF update_finding
    <2>2. version \in Nat /\ version >= findings[f]
      BY <2>1
    <2>3. /\ findings' = [findings EXCEPT ![f] = version]
          /\ activities' = [activities EXCEPT ![f] = record(capture_baseline(f), "updated", version)]
          /\ UNCHANGED <<evidence, spent, revisions, recordCall>>
      BY <1>4 DEF update_finding
    <2> HIDE DEF version
    <2> QED
      BY <2>1, <2>2, <2>3, HistoryGrows
  <1>5. ASSUME NEW named \in SUBSET EvidenceId, add_activity(f, named) PROVE RecordsInv'
    <2> DEFINE version == findings[f]
    <2>1. f \in DOMAIN findings /\ findings[f] \in Nat
      BY <1>0, <1>5 DEF add_activity
    <2>2. version \in Nat /\ version >= findings[f] /\ findings = [findings EXCEPT ![f] = version]
      BY <1>0, <2>1
    <2>3. /\ findings' = [findings EXCEPT ![f] = version]
          /\ activities' = [activities EXCEPT ![f] = record(capture_baseline(f), "activity", version)]
          /\ UNCHANGED <<evidence, spent, revisions, recordCall>>
      BY <1>5, <2>2 DEF add_activity
    <2> HIDE DEF version
    <2> QED
      BY <2>1, <2>2, <2>3, HistoryGrows
  <1> QED
    BY <1>2, <1>3, <1>4, <1>5

\* Steps of deliverables.py keep the invariant.
LEMMA ReportKeepsInv == RecordsInv /\ ReportStep => RecordsInv'
  <1> SUFFICES ASSUME RecordsInv, ReportStep PROVE RecordsInv'
    OBVIOUS
  <1>0. /\ findings \in [DOMAIN findings -> Nat] /\ DOMAIN findings \subseteq FindingId
        /\ activities \in [DOMAIN findings -> Seq(Entry)] /\ DOMAIN findings \subseteq spent
        /\ recordCall = [c \in RecordCall |-> recordCall[c]]
        /\ revisions \in Seq(Revision) /\ Len(revisions) \in Nat
    BY DEF RecordsInv, RecordsTyped
  <1>1. ASSUME NEW c \in RecordCall, get_revision(c) PROVE RecordsInv'
    <2> DEFINE held == [stage |-> "draft", base |-> Len(revisions)]
    <2>1. held.stage \notin Assembling
      BY DEF Assembling
    <2>2. /\ recordCall' = [recordCall EXCEPT ![c] = held]
          /\ UNCHANGED <<findings, activities, evidence, spent, revisions>>
      BY <1>1 DEF get_revision
    <2> HIDE DEF held
    <2>3. CallSound(held)
      BY <2>1 DEF CallSound
    <2> QED
      BY <2>1, <2>2, <2>3, RecordCallKeepsInv
  <1>2. CallSound(NoRecordCall) /\ NoRecordCall.stage \notin Assembling
    BY NothingHeld DEF CallSound
  <1>3. ASSUME NEW c \in RecordCall, RefuseRevision(c) PROVE RecordsInv'
    BY <1>2, <1>3, RecordCallKeepsInv DEF RefuseRevision, Done
  <1>4. ASSUME NEW c \in RecordCall, NEW chosen \in SUBSET FindingId, ReadFindings(c, chosen)
        PROVE  RecordsInv'
    <2> DEFINE v == [f \in chosen |-> findings[f]]
               held == [stage |-> "findings", base |-> recordCall[c].base, findings |-> v]
    <2>1. /\ UNCHANGED <<findings, activities, evidence, spent, revisions>>
          /\ \A d \in RecordCall : recordCall[d].stage \notin Assembling
          /\ chosen \subseteq DOMAIN findings
      BY <1>4 DEF ReadFindings
    <2>2. CASE BaseHolds(recordCall[c].base)
      <3>1. recordCall' = [recordCall EXCEPT ![c] = held]
        BY <1>4, <2>2 DEF ReadFindings
      <3>2. DOMAIN v = chosen /\ \A f \in chosen : v[f] = findings[f] /\ v[f] \in Nat
        BY <1>0, <2>1
      <3>3. v \in [chosen -> Nat]
        BY <1>0, <2>1
      <3> HIDE DEF v
      <3>4. SnapshotSound(v)
        <4>1. v \in Versions
          BY <3>3, VersionFacts
        <4>2. \A f \in chosen : f \in spent /\ v[f] <= findings[f]
          BY <1>0, <2>1, <3>2
        <4> QED
          BY <3>2, <4>1, <4>2 DEF SnapshotSound
      <3>5. /\ held = [stage |-> held.stage, base |-> held.base, findings |-> held.findings]
            /\ held.base = Len(revisions) /\ held.findings = v
        BY <2>2 DEF BaseHolds
      <3> HIDE DEF held
      <3>6. CallSound(held)
        BY <3>4, <3>5 DEF CallSound
      <3> QED
        BY <2>1, <3>1, <3>6, RecordCallKeepsInv
    <2>3. CASE ~BaseHolds(recordCall[c].base)
      <3>1. recordCall' = [recordCall EXCEPT ![c] = NoRecordCall]
        BY <1>4, <2>3 DEF ReadFindings
      <3> QED
        BY <1>2, <2>1, <3>1, RecordCallKeepsInv
    <2> QED
      BY <2>2, <2>3
  <1>5. ASSUME NEW c \in RecordCall, NEW chosen \in SUBSET EvidenceId, ReadEvidence(c, chosen)
        PROVE  RecordsInv'
    <2> DEFINE held == [recordCall[c] EXCEPT !.stage = "evidence"]
               ok == \A e \in chosen : evidence[e] \in DOMAIN recordCall[c].findings \cup {Unlinked}
    <2>1. /\ UNCHANGED <<findings, activities, evidence, spent, revisions>>
          /\ recordCall[c].stage = "findings" /\ recordCall[c].stage \in Assembling
          /\ recordCall' = [recordCall EXCEPT ![c] = IF ok THEN held ELSE NoRecordCall]
      BY <1>5 DEF ReadEvidence, Assembling
    <2>2. CASE ok
      <3>1. CallSound(recordCall[c])
        BY DEF RecordsInv, CallsSound
      <3>2. /\ recordCall[c] = [stage |-> "findings", base |-> recordCall[c].base,
                                findings |-> recordCall[c].findings]
            /\ recordCall[c].base = Len(revisions) /\ SnapshotSound(recordCall[c].findings)
        BY <2>1, <3>1 DEF CallSound
      <3>3. /\ held = [stage |-> held.stage, base |-> held.base, findings |-> held.findings]
            /\ held.base = recordCall[c].base /\ held.findings = recordCall[c].findings
        BY <3>2
      <3>4. recordCall' = [recordCall EXCEPT ![c] = held]
        BY <2>1, <2>2
      <3> HIDE DEF held
      <3>5. CallSound(held)
        BY <3>2, <3>3 DEF CallSound
      <3>6. \A d \in RecordCall : d # c => recordCall[d].stage \notin Assembling
        BY <2>1 DEF RecordsInv, CallsSound
      <3> QED
        BY <2>1, <3>4, <3>5, <3>6, RecordCallKeepsInv
    <2>3. CASE ~ok
      <3>1. recordCall' = [recordCall EXCEPT ![c] = NoRecordCall]
        BY <2>1, <2>3
      <3> QED
        BY <1>2, <2>1, <3>1, RecordCallKeepsInv
    <2> QED
      BY <2>2, <2>3
  <1>6. ASSUME NEW c \in RecordCall, SaveRevision(c) PROVE RecordsInv'
    <2> DEFINE v == recordCall[c].findings
               shown == [f \in DOMAIN v |-> Shown(f)]
               saved == [base |-> recordCall[c].base, status |-> "draft",
                         findings |-> v, history |-> shown]
               n == Len(revisions)
    <2>1. /\ recordCall[c].stage = "evidence" /\ recordCall[c].stage \in Assembling
          /\ recordCall' = [recordCall EXCEPT ![c] = NoRecordCall]
          /\ UNCHANGED <<findings, activities, evidence, spent>>
      BY <1>6 DEF SaveRevision, Done, Assembling
    <2>2. revisions' = Append(revisions, saved)
      BY <1>6 DEF SaveRevision
    <2>3. recordCall[c].base = n /\ SnapshotSound(v)
      BY <2>1 DEF RecordsInv, CallsSound, CallSound
    <2>4. v \in Versions /\ DOMAIN v \subseteq FindingId
      BY <2>3, VersionFacts DEF SnapshotSound
    <2>5. \A f \in DOMAIN v : Shown(f) \in SUBSET Nat
      BY DEF Shown
    <2>6. shown \in Histories /\ \A f \in DOMAIN v : shown[f] = Shown(f)
      BY <2>4, <2>5, VersionFacts
    <2> HIDE DEF shown, v
    <2>7. /\ saved \in Revision /\ saved.base = n /\ saved.findings = v /\ saved.history = shown
      BY <1>0, <2>3, <2>4, <2>6 DEF Revision, ReportStatus
    <2> HIDE DEF saved
    <2>8. /\ revisions' \in Seq(Revision) /\ Len(revisions') = n + 1 /\ DOMAIN revisions' = 1..(n + 1)
          /\ DOMAIN revisions = 1..n /\ revisions'[n + 1] = saved
          /\ \A m \in 1..n : revisions'[m] = revisions[m]
      BY <1>0, <2>2, <2>7
    <2> HIDE DEF n
    <2>9. \A d \in RecordCall : recordCall'[d].stage \notin Assembling
      BY <1>0, <2>1, NothingHeld DEF RecordsInv, CallsSound
    <2>10. RecordsTyped'
      BY <2>1, <2>8 DEF RecordsInv, RecordsTyped
    <2>11. CallsSound'
      BY <2>9 DEF CallsSound, CallSound, Assembling
    <2>12. n \in Nat
      BY <1>0 DEF n
    <2>13. RevisionsSound'
      <3> SUFFICES ASSUME NEW m \in 1..(n + 1)
                   PROVE  revisions'[m].base = m - 1 /\ SnapshotSound(revisions[m].findings)'
        BY <2>8 DEF RevisionsSound
      <3>1. CASE m \in 1..n
        <4>1. revisions[m].base = m - 1 /\ SnapshotSound(revisions[m].findings)
          BY <2>8, <3>1 DEF RecordsInv, RevisionsSound
        <4> QED
          BY <2>1, <2>8, <3>1, <4>1 DEF SnapshotSound
      <3>2. CASE m = n + 1
        BY <2>1, <2>3, <2>7, <2>8, <2>12, <3>2 DEF SnapshotSound
      <3> QED
        BY <2>12, <3>1, <3>2
    <2>14. NoOrphanEvidence' /\ HistoryTellsFinding'
      BY <2>1 DEF RecordsInv, NoOrphanEvidence, HistoryTellsFinding
    <2>15. ReportHistoryNotBehind'
      <3> SUFFICES ASSUME NEW m \in 1..(n + 1),
                          NEW g \in DOMAIN revisions'[m].findings \cap DOMAIN findings,
                          NEW i \in Shown(g), activities[g][i].snapshot < revisions'[m].findings[g]
                   PROVE  i \in revisions'[m].history[g]
        BY <2>1, <2>8 DEF ReportHistoryNotBehind, Shown
      <3>1. CASE m \in 1..n
        BY <2>8, <3>1 DEF RecordsInv, ReportHistoryNotBehind
      <3>2. CASE m = n + 1
        BY <2>6, <2>7, <2>8, <3>2
      <3> QED
        BY <2>12, <3>1, <3>2
    <2> QED
      BY <2>10, <2>11, <2>13, <2>14, <2>15 DEF RecordsInv
  <1>7. ASSUME NEW n \in DOMAIN revisions, NEW status \in ReportStatus,
               update_revision_status(n, status)
        PROVE  RecordsInv'
    <2> DEFINE row == [revisions[n] EXCEPT !.status = status]
    <2>1. /\ revisions' = [revisions EXCEPT ![n] = row]
          /\ UNCHANGED <<findings, activities, evidence, spent, recordCall>>
      BY <1>7 DEF update_revision_status
    <2>2. revisions[n] \in Revision
      BY <1>0
    <2>3. /\ row \in Revision /\ row.base = revisions[n].base
          /\ row.findings = revisions[n].findings /\ row.history = revisions[n].history
      BY <2>2 DEF Revision
    <2> HIDE DEF row
    <2>4. /\ revisions' \in Seq(Revision) /\ Len(revisions') = Len(revisions)
          /\ DOMAIN revisions' = DOMAIN revisions
          /\ \A m \in DOMAIN revisions : revisions'[m] = IF m = n THEN row ELSE revisions[m]
      BY <1>0, <2>1, <2>3
    <2>5. \A m \in DOMAIN revisions :
             /\ revisions'[m].base = revisions[m].base
             /\ revisions'[m].findings = revisions[m].findings
             /\ revisions'[m].history = revisions[m].history
      BY <2>3, <2>4
    <2>6. RecordsTyped'
      BY <2>1, <2>4 DEF RecordsInv, RecordsTyped
    <2>7. CallsSound'
      <3>1. ASSUME NEW c \in RecordCall PROVE CallSound(recordCall[c])'
        <4>1. CallSound(recordCall[c])
          BY DEF RecordsInv, CallsSound
        <4> QED
          BY <2>1, <2>4, <4>1 DEF CallSound, SnapshotSound, Assembling
      <3> QED
        BY <2>1, <3>1 DEF RecordsInv, CallsSound, Assembling
    <2>8. RevisionsSound'
      <3>1. ASSUME NEW m \in DOMAIN revisions
            PROVE  revisions'[m].base = m - 1 /\ SnapshotSound(revisions[m].findings)'
        <4>1. revisions[m].base = m - 1 /\ SnapshotSound(revisions[m].findings)
          BY DEF RecordsInv, RevisionsSound
        <4> QED
          BY <2>1, <2>5, <4>1 DEF SnapshotSound
      <3> QED
        BY <2>4, <3>1 DEF RevisionsSound
    <2>9. NoOrphanEvidence' /\ HistoryTellsFinding'
      BY <2>1 DEF RecordsInv, NoOrphanEvidence, HistoryTellsFinding
    <2>10. ReportHistoryNotBehind'
      BY <2>1, <2>4, <2>5 DEF RecordsInv, ReportHistoryNotBehind, Shown
    <2> QED
      BY <2>6, <2>7, <2>8, <2>9, <2>10 DEF RecordsInv
  <1> QED
    BY <1>1, <1>3, <1>4, <1>5, <1>6, <1>7 DEF ReportStep

\* The invariant of findings, evidence and reports is inductive.
LEMMA RecordsInductive == RecordsInv /\ [RecordsNext]_recordVars => RecordsInv'
  <1>1. ASSUME RecordsInv, UNCHANGED recordVars PROVE RecordsInv'
    <2>1. /\ UNCHANGED <<findings, activities, evidence, spent, revisions, recordCall>>
      BY <1>1 DEF recordVars
    <2>2. RecordsTyped' /\ NoOrphanEvidence' /\ HistoryTellsFinding'
      BY <1>1, <2>1 DEF RecordsInv, RecordsTyped, NoOrphanEvidence, HistoryTellsFinding
    <2>3. CallsSound'
      BY <1>1, <2>1 DEF RecordsInv, CallsSound, CallSound, SnapshotSound
    <2>4. RevisionsSound' /\ ReportHistoryNotBehind'
      BY <1>1, <2>1 DEF RecordsInv, RevisionsSound, SnapshotSound, ReportHistoryNotBehind, Shown
    <2> QED
      BY <2>2, <2>3, <2>4 DEF RecordsInv
  <1> QED
    BY <1>1, FindingKeepsInv, EvidenceKeepsInv, ReportKeepsInv DEF RecordsNext

\* No step moves evidence off its finding.
LEMMA EvidenceStays ==
    ASSUME RecordsInv, [RecordsNext]_recordVars, NEW e \in DOMAIN evidence \cap DOMAIN evidence',
           evidence[e] # Unlinked
    PROVE  evidence'[e] = evidence[e]
  <1>0. evidence \in [DOMAIN evidence -> FindingId \cup {Unlinked}] /\ DOMAIN evidence \subseteq spent
    BY DEF RecordsInv, RecordsTyped
  <1>1. CASE UNCHANGED evidence
    BY <1>1
  <1>2. ASSUME NEW f \in FindingId, delete_finding(f) PROVE evidence'[e] = evidence[e]
    BY <1>0, <1>2 DEF delete_finding, Deleted
  <1>3. ASSUME NEW x \in EvidenceId, delete_evidence(x) PROVE evidence'[e] = evidence[e]
    BY <1>0, <1>3 DEF delete_evidence, Deleted
  <1>4. ASSUME NEW c \in RecordCall, NEW x \in EvidenceId, InsertEvidence(c, x)
        PROVE  evidence'[e] = evidence[e]
    BY <1>0, <1>4 DEF InsertEvidence, Stored
  <1>5. ASSUME NEW c \in RecordCall, UpdateLink(c) PROVE evidence'[e] = evidence[e]
    BY <1>0, <1>5 DEF UpdateLink
  <1>6. CASE FindingStep
    BY <1>1, <1>2, <1>6 DEF FindingStep, add_finding, update_finding, add_activity
  <1>7. CASE EvidenceStep
    BY <1>1, <1>3, <1>4, <1>5, <1>7 DEF EvidenceStep, CheckFinding, ReadLink
  <1>8. CASE ReportStep
    BY <1>1, <1>8 DEF ReportStep, update_revision_status, get_revision, SaveRevision, RefuseRevision,
                      ReadFindings, ReadEvidence
  <1> QED
    BY <1>1, <1>6, <1>7, <1>8 DEF RecordsNext, recordVars

\* A step adds at most a revision built on the latest, and edits no saved one but for its status.
LEMMA RevisionsStep ==
    ASSUME RecordsInv, [RecordsNext]_recordVars
    PROVE  /\ Len(revisions') >= Len(revisions)
           /\ \A n \in DOMAIN revisions' :
                 /\ revisions'[n].base = n - 1
                 /\ n <= Len(revisions) =>
                        [revisions'[n] EXCEPT !.status = revisions[n].status] = revisions[n]
  <1>0. revisions \in Seq(Revision) /\ Len(revisions) \in Nat /\ DOMAIN revisions = 1..Len(revisions)
    BY DEF RecordsInv, RecordsTyped
  <1>1. RevisionsSound' /\ revisions' \in Seq(Revision)
    BY RecordsInductive DEF RecordsInv, RecordsTyped
  <1>2. \A n \in DOMAIN revisions' : revisions'[n].base = n - 1
    BY <1>1 DEF RevisionsSound
  <1>3. \A n \in DOMAIN revisions : [revisions[n] EXCEPT !.status = revisions[n].status] = revisions[n]
    <2> TAKE n \in DOMAIN revisions
    <2>1. revisions[n] \in Revision
      BY <1>0
    <2> QED
      BY <2>1 DEF Revision
  <1>4. CASE UNCHANGED revisions
    BY <1>0, <1>2, <1>3, <1>4
  <1>5. ASSUME NEW c \in RecordCall, SaveRevision(c)
        PROVE  /\ Len(revisions') >= Len(revisions)
               /\ \A n \in DOMAIN revisions : revisions'[n] = revisions[n]
    <2>1. PICK saved : revisions' = Append(revisions, saved)
      BY <1>5 DEF SaveRevision
    <2> QED
      BY <1>0, <2>1
  <1>6. ASSUME NEW m \in DOMAIN revisions, NEW status \in ReportStatus,
               update_revision_status(m, status)
        PROVE  /\ Len(revisions') = Len(revisions)
               /\ \A n \in DOMAIN revisions :
                     [revisions'[n] EXCEPT !.status = revisions[n].status] = revisions[n]
    <2> DEFINE row == [revisions[m] EXCEPT !.status = status]
    <2>1. revisions' = [revisions EXCEPT ![m] = row]
      BY <1>6 DEF update_revision_status
    <2>2. revisions[m] \in Revision
      BY <1>0
    <2>3. [row EXCEPT !.status = revisions[m].status] = revisions[m]
      BY <2>2 DEF Revision
    <2> HIDE DEF row
    <2>4. Len(revisions') = Len(revisions)
      BY <1>0, <1>1, <2>1
    <2>5. \A n \in DOMAIN revisions : n # m => revisions'[n] = revisions[n]
      BY <1>0, <2>1
    <2>6. revisions'[m] = row
      BY <1>0, <2>1
    <2> QED
      BY <1>3, <2>3, <2>4, <2>5, <2>6
  <1>7. CASE FindingStep
    BY <1>4, <1>7 DEF FindingStep, add_finding, update_finding, add_activity, delete_finding
  <1>8. CASE EvidenceStep
    BY <1>4, <1>8 DEF EvidenceStep, CheckFinding, ReadLink, InsertEvidence, UpdateLink, delete_evidence
  <1>9. CASE ReportStep
    <2>1. CASE \E m \in DOMAIN revisions, status \in ReportStatus : update_revision_status(m, status)
      BY <1>0, <1>1, <1>2, <1>6, <2>1
    <2>2. CASE \E c \in RecordCall : SaveRevision(c)
      BY <1>0, <1>1, <1>2, <1>3, <1>5, <2>2
    <2> QED
      BY <1>4, <1>9, <2>1, <2>2 DEF ReportStep, get_revision, RefuseRevision, ReadFindings, ReadEvidence
  <1> QED
    BY <1>4, <1>7, <1>8, <1>9 DEF RecordsNext, recordVars

-------------------------------------------------------------------------------
(* Inventory.                                                              *)

Posting == {"host", "port", "edge", "posting"}

InventoryTyped ==
    /\ drawnRows \in Nat /\ DOMAIN rows \subseteq 1..drawnRows
    /\ DOMAIN services \subseteq ServiceId
    /\ jobsKept \subseteq ScanJob
    /\ links \subseteq ScanJob \X (Nat \cup ServiceId) /\ observed \subseteq ScanJob \X DOMAIN rows
    /\ handler = [h \in Handler |-> handler[h]]

\* What an upload found to be new still is, and the nodes it needs are stored or its own.
ImportSound(w) ==
    /\ w.stage \in {"reading", "writing"} => w.batch \in Batch /\ w.job \in ScanJob \cup {Nothing}
    /\ w.stage = "writing" =>
          /\ w.new = Fresh(w.batch.tool, w.batch.items)
          /\ \A n \in w.new : upsert(w.batch.items[n], Nothing, TRUE) \subseteq assets \cup w.nodes

\* The nodes a post has looked for are stored or its own.
PostSound(w) ==
    w.stage \in Posting =>
        /\ DOMAIN w = {"stage", "at", "job", "existing", "nodes", "edges"}
        /\ w.at \in Listening /\ w.job \in ScanJob \cup {Nothing}
        /\ w.stage # "posting" => w.existing = Nothing
        /\ w.existing = Nothing =>
              /\ w.stage # "host" => HostNode(w.at) \subseteq assets \cup w.nodes
              /\ w.stage \in {"edge", "posting"} => PortNode(w.at) \subseteq assets \cup w.nodes
              /\ w.edges \subseteq HostNode(w.at) \X PortNode(w.at)
              /\ w.stage # "posting" => w.edges = {}

\* If a service is there although a post found none, their posts overlapped.
BesideSound(w) ==
    w.stage \in Posting /\ w.existing = Nothing =>
        \A s \in DOMAIN services : services[s].at = w.at => w.at \in raced

HandlersSound ==
    \A h \in Handler :
        /\ ImportSound(handler[h]) /\ PostSound(handler[h]) /\ BesideSound(handler[h])
        /\ handler[h].stage = "writing" => loop = h

InventoryInv ==
    /\ InventoryTyped /\ HandlersSound
    /\ RowsNeverDuplicated /\ ObservationsKept /\ InventoryTypeOK /\ ServiceStoredOnce

\* The one element of a set of nodes is an element of it.
LEMMA OnlyOfFacts == \A S : OnlyOf(S) \in S \cup {Nothing}
  BY DEF OnlyOf

\* The start: nothing stored, nobody at work.
LEMMA InventoryInitInv == InventoryInit => InventoryInv
  <1> SUFFICES ASSUME InventoryInit PROVE InventoryInv
    OBVIOUS
  <1>1. DOMAIN rows = {} /\ DOMAIN services = {}
    BY DEF InventoryInit
  <1>2. InventoryTyped
    BY <1>1 DEF InventoryInit, InventoryTyped
  <1>3. HandlersSound
    BY DEF InventoryInit, HandlersSound, ImportSound, PostSound, BesideSound, Posting, NoWork
  <1>4. RowsNeverDuplicated /\ ObservationsKept /\ InventoryTypeOK /\ ServiceStoredOnce
    BY <1>1 DEF InventoryInit, RowsNeverDuplicated, ObservationsKept, InventoryTypeOK, ServiceStoredOnce
  <1> QED
    BY <1>2, <1>3, <1>4 DEF InventoryInv

\* A handler that takes up or drops what it holds, the tables unchanged.
LEMMA HandlerKeepsInv ==
    ASSUME InventoryInv, NEW i \in Handler, NEW held, handler' = [handler EXCEPT ![i] = held],
           UNCHANGED importRows, ImportSound(held), PostSound(held), BesideSound(held),
           held.stage = "writing" => loop' = i,
           \A h \in Handler : h # i /\ handler[h].stage = "writing" => loop' = h
    PROVE  InventoryInv'
  <1>0. UNCHANGED <<assets, edges, rows, drawnRows, services, links, jobsKept, observed, dropped, raced>>
    BY DEF importRows
  <1>1. /\ handler = [h \in Handler |-> handler[h]]
        /\ \A h \in Handler : handler'[h] = IF h = i THEN held ELSE handler[h]
    BY DEF InventoryInv, InventoryTyped
  <1>2. InventoryTyped'
    BY <1>0, <1>1 DEF InventoryInv, InventoryTyped
  <1>3. HandlersSound'
    <2>1. ASSUME NEW h \in Handler
          PROVE  ImportSound(handler'[h]) /\ PostSound(handler'[h]) /\ BesideSound(handler'[h])
      BY <1>1 DEF InventoryInv, HandlersSound
    <2>2. ASSUME NEW h \in Handler PROVE ImportSound(handler[h])'
      <3>1. Fresh(handler[h].batch.tool, handler[h].batch.items)'
              = Fresh(handler'[h].batch.tool, handler'[h].batch.items)
        BY <1>0 DEF Fresh, Same
      <3> QED
        BY <1>0, <2>1, <3>1 DEF ImportSound
    <2>3. ASSUME NEW h \in Handler PROVE PostSound(handler[h])' /\ BesideSound(handler[h])'
      BY <1>0, <2>1 DEF PostSound, BesideSound
    <2>4. ASSUME NEW h \in Handler, handler'[h].stage = "writing" PROVE loop' = h
      BY <1>1, <2>4
    <2> QED
      BY <2>2, <2>3, <2>4 DEF HandlersSound
  <1>4. RowsNeverDuplicated' /\ ObservationsKept' /\ InventoryTypeOK' /\ ServiceStoredOnce'
    BY <1>0 DEF InventoryInv, RowsNeverDuplicated, ObservationsKept, InventoryTypeOK, ServiceStoredOnce
  <1> QED
    BY <1>2, <1>3, <1>4 DEF InventoryInv

\* The reads of uploads, and what either kind of handler drops, keep the invariant.
LEMMA ReadsKeepInv ==
    ASSUME InventoryInv, NEW i \in Handler,
           \/ \E batch \in Batch, job \in ScanJob \cup {Nothing} : ReceiveUpload(i, batch, job)
           \/ ParseUpload(i) \/ AbortImport(i) \/ AbortPost(i)
    PROVE  InventoryInv'
  <1>0. /\ ImportSound(NoWork) /\ PostSound(NoWork) /\ BesideSound(NoWork) /\ NoWork.stage = "idle"
        /\ \A h \in Handler : handler[h].stage = "writing" => loop = h
        /\ Nothing \notin Handler
    BY InventoryAssumption
       DEF InventoryAssumption, InventoryInv, HandlersSound, ImportSound, PostSound, BesideSound,
           Posting, NoWork
  <1>1. ASSUME NEW batch \in Batch, NEW job \in ScanJob \cup {Nothing}, ReceiveUpload(i, batch, job)
        PROVE  InventoryInv'
    <2> DEFINE held == [stage |-> "reading", batch |-> batch, job |-> job]
    <2>1. ImportSound(held) /\ PostSound(held) /\ BesideSound(held) /\ held.stage # "writing"
      BY DEF ImportSound, PostSound, BesideSound, Posting
    <2>2. handler' = [handler EXCEPT ![i] = held] /\ UNCHANGED importRows /\ loop' = loop
      BY <1>1 DEF ReceiveUpload
    <2> HIDE DEF held
    <2> QED
      BY <1>0, <2>1, <2>2, HandlerKeepsInv
  <1>2. CASE ParseUpload(i)
    <2> DEFINE batch == handler[i].batch
               new == Fresh(batch.tool, batch.items)
               needed == UNION {upsert(batch.items[n], Nothing, TRUE) : n \in new}
               held == [stage |-> "writing", batch |-> batch, job |-> handler[i].job, new |-> new,
                        nodes |-> needed \ assets]
    <2>1. /\ handler[i].stage = "reading" /\ loop = Nothing /\ UNCHANGED importRows /\ loop' = i
          /\ handler' = [handler EXCEPT ![i] = held]
      BY <1>2 DEF ParseUpload
    <2>2. batch \in Batch /\ handler[i].job \in ScanJob \cup {Nothing}
      BY <2>1 DEF InventoryInv, HandlersSound, ImportSound
    <2>3. \A n \in new : upsert(batch.items[n], Nothing, TRUE) \subseteq needed
      OBVIOUS
    <2>4. /\ held.stage = "writing" /\ held.batch = batch /\ held.job = handler[i].job
          /\ held.new = new /\ held.nodes = needed \ assets
      OBVIOUS
    <2>5. new = Fresh(batch.tool, batch.items)
      OBVIOUS
    <2> HIDE DEF held, needed, new, batch
    <2>6. ImportSound(held)
      BY <2>2, <2>3, <2>4, <2>5 DEF ImportSound
    <2>7. PostSound(held) /\ BesideSound(held)
      BY <2>4 DEF PostSound, BesideSound, Posting
    <2>8. \A h \in Handler : handler[h].stage # "writing"
      BY <1>0, <2>1
    <2> QED
      BY <2>1, <2>6, <2>7, <2>8, HandlerKeepsInv
  <1>3. CASE AbortImport(i)
    <2>1. /\ handler[i].stage = "writing" /\ handler' = [handler EXCEPT ![i] = NoWork]
          /\ UNCHANGED importRows
      BY <1>3 DEF AbortImport
    <2> QED
      BY <1>0, <2>1, HandlerKeepsInv
  <1>4. CASE AbortPost(i)
    <2>1. /\ handler' = [handler EXCEPT ![i] = NoWork] /\ UNCHANGED importRows /\ loop' = loop
      BY <1>4 DEF AbortPost
    <2> QED
      BY <1>0, <2>1, HandlerKeepsInv
  <1> QED
    BY <1>1, <1>2, <1>3, <1>4

\* The queries of a post keep the invariant: each adds what it found missing.
LEMMA QueriesKeepInv ==
    ASSUME InventoryInv, NEW i \in Handler,
           \/ \E svc \in Listening, job \in ScanJob \cup {Nothing} : LookupService(i, svc, job)
           \/ LookupHost(i) \/ LookupPort(i) \/ LookupEdge(i)
    PROVE  InventoryInv'
  <1>0. /\ \A h \in Handler : handler[h].stage = "writing" => loop = h
        /\ PostSound(handler[i]) /\ BesideSound(handler[i])
    BY DEF InventoryInv, HandlersSound
  <1>1. ASSUME NEW svc \in Listening, NEW job \in ScanJob \cup {Nothing}, LookupService(i, svc, job)
        PROVE  InventoryInv'
    <2> DEFINE known == {s \in DOMAIN services : services[s].at = svc}
               stage == IF known = {} THEN "host" ELSE "posting"
               Held(s) == [stage |-> stage, at |-> svc, job |-> job, existing |-> s,
                           nodes |-> {}, edges |-> {}]
    <2>1. UNCHANGED importRows /\ loop' = loop
      BY <1>1 DEF LookupService
    <2>2. PICK s \in IF known = {} THEN {Nothing} ELSE known : handler' = [handler EXCEPT ![i] = Held(s)]
      BY <1>1 DEF LookupService
    <2>3. IF known = {} THEN s = Nothing /\ stage = "host" ELSE s # Nothing /\ stage = "posting"
      BY <2>2, InventoryAssumption DEF InventoryAssumption, InventoryInv, InventoryTyped
    <2> DEFINE held == Held(s)
    <2>4. /\ held.stage = stage /\ held.at = svc /\ held.job = job /\ held.existing = s
          /\ held.nodes = {} /\ held.edges = {}
          /\ DOMAIN held = {"stage", "at", "job", "existing", "nodes", "edges"}
      OBVIOUS
    <2>5. handler' = [handler EXCEPT ![i] = held]
      BY <2>2
    <2>6. known = {} => \A x \in DOMAIN services : services[x].at # svc
      OBVIOUS
    <2> HIDE DEF held, stage, known
    <2>7. PostSound(held)
      BY <2>3, <2>4 DEF PostSound, Posting
    <2>8. ImportSound(held) /\ BesideSound(held) /\ held.stage # "writing"
      BY <2>3, <2>4, <2>6 DEF ImportSound, BesideSound
    <2> QED
      BY <1>0, <2>1, <2>5, <2>7, <2>8, HandlerKeepsInv
  <1>2. CASE LookupHost(i)
    <2> DEFINE w == handler[i]
               found == HostNode(w.at) \ assets
               held == [w EXCEPT !.stage = "port", !.nodes = found]
    <2>1. w.stage = "host" /\ handler' = [handler EXCEPT ![i] = held] /\ UNCHANGED importRows
          /\ loop' = loop
      BY <1>2 DEF LookupHost
    <2>2. HostNode(w.at) \subseteq assets \cup found
      OBVIOUS
    <2>3. DOMAIN w = {"stage", "at", "job", "existing", "nodes", "edges"}
      BY <1>0, <2>1 DEF PostSound, Posting
    <2> HIDE DEF w, found
    <2>4. /\ held.stage = "port" /\ held.nodes = found /\ held.at = w.at /\ held.job = w.job
          /\ held.existing = w.existing /\ held.edges = w.edges /\ DOMAIN held = DOMAIN w
      BY <2>3
    <2> HIDE DEF held
    <2>5. PostSound(held)
      BY <1>0, <2>1, <2>2, <2>3, <2>4 DEF PostSound, Posting, w
    <2>6. ImportSound(held) /\ BesideSound(held) /\ held.stage # "writing"
      BY <1>0, <2>1, <2>4 DEF ImportSound, BesideSound, Posting, w
    <2> QED
      BY <1>0, <2>1, <2>5, <2>6, HandlerKeepsInv
  <1>3. CASE LookupPort(i)
    <2> DEFINE w == handler[i]
               found == w.nodes \cup (PortNode(w.at) \ assets)
               held == [w EXCEPT !.stage = "edge", !.nodes = found]
    <2>1. w.stage = "port" /\ handler' = [handler EXCEPT ![i] = held] /\ UNCHANGED importRows
          /\ loop' = loop
      BY <1>3 DEF LookupPort
    <2>2. PortNode(w.at) \subseteq assets \cup found /\ w.nodes \subseteq found
      OBVIOUS
    <2>3. DOMAIN w = {"stage", "at", "job", "existing", "nodes", "edges"}
      BY <1>0, <2>1 DEF PostSound, Posting
    <2> HIDE DEF w, found
    <2>4. /\ held.stage = "edge" /\ held.nodes = found /\ held.at = w.at /\ held.job = w.job
          /\ held.existing = w.existing /\ held.edges = w.edges /\ DOMAIN held = DOMAIN w
      BY <2>3
    <2> HIDE DEF held
    <2>5. PostSound(held)
      BY <1>0, <2>1, <2>2, <2>3, <2>4 DEF PostSound, Posting, w
    <2>6. ImportSound(held) /\ BesideSound(held) /\ held.stage # "writing"
      BY <1>0, <2>1, <2>4 DEF ImportSound, BesideSound, Posting, w
    <2> QED
      BY <1>0, <2>1, <2>5, <2>6, HandlerKeepsInv
  <1>4. CASE LookupEdge(i)
    <2> DEFINE w == handler[i]
               missing == (HostNode(w.at) \X PortNode(w.at)) \ edges
               held == [w EXCEPT !.stage = "posting", !.edges = missing]
    <2>1. w.stage = "edge" /\ handler' = [handler EXCEPT ![i] = held] /\ UNCHANGED importRows
          /\ loop' = loop
      BY <1>4 DEF LookupEdge
    <2>2. missing \subseteq HostNode(w.at) \X PortNode(w.at)
      OBVIOUS
    <2>3. DOMAIN w = {"stage", "at", "job", "existing", "nodes", "edges"}
      BY <1>0, <2>1 DEF PostSound, Posting
    <2> HIDE DEF w, missing
    <2>4. /\ held.stage = "posting" /\ held.nodes = w.nodes /\ held.at = w.at /\ held.job = w.job
          /\ held.existing = w.existing /\ held.edges = missing /\ DOMAIN held = DOMAIN w
      BY <2>3
    <2> HIDE DEF held
    <2>5. PostSound(held)
      BY <1>0, <2>1, <2>2, <2>3, <2>4 DEF PostSound, Posting, w
    <2>6. ImportSound(held) /\ BesideSound(held) /\ held.stage # "writing"
      BY <1>0, <2>1, <2>4 DEF ImportSound, BesideSound, Posting, w
    <2> QED
      BY <1>0, <2>1, <2>5, <2>6, HandlerKeepsInv
  <1> QED
    BY <1>1, <1>2, <1>3, <1>4

\* What a handler holds stays sound while the tables of others change: nodes are never deleted,
\* and a service that appears while a post of it is under way is marked as raced.
LEMMA HandlersFrame ==
    ASSUME InventoryInv, assets \subseteq assets', raced \subseteq raced',
           \A h \in Handler :
              \/ handler'[h] = NoWork
              \/ /\ handler'[h] = handler[h]
                 /\ handler[h].stage = "writing" => rows' = rows /\ loop' = loop
                 /\ \A x \in DOMAIN services' :
                       \/ x \in DOMAIN services /\ services'[x].at = services[x].at
                       \/ Inserting(h, services'[x].at) => services'[x].at \in raced'
    PROVE  HandlersSound'
  <1> SUFFICES ASSUME NEW h \in Handler
               PROVE  /\ ImportSound(handler[h])' /\ PostSound(handler[h])' /\ BesideSound(handler[h])'
                      /\ handler'[h].stage = "writing" => loop' = h
    BY DEF HandlersSound
  <1>0. /\ ImportSound(handler[h]) /\ PostSound(handler[h]) /\ BesideSound(handler[h])
        /\ handler[h].stage = "writing" => loop = h
    BY DEF InventoryInv, HandlersSound
  <1>1. CASE handler'[h] = NoWork
    BY <1>1 DEF ImportSound, PostSound, BesideSound, Posting, NoWork
  <1>2. CASE handler'[h] # NoWork
    <2>1. handler'[h] = handler[h] /\ (handler[h].stage = "writing" => rows' = rows /\ loop' = loop)
      BY <1>2
    <2>2. ImportSound(handler[h])'
      <3>1. CASE handler[h].stage = "writing"
        <4>1. Fresh(handler[h].batch.tool, handler[h].batch.items)'
                = Fresh(handler[h].batch.tool, handler[h].batch.items)
          BY <2>1, <3>1 DEF Fresh, Same
        <4> QED
          BY <1>0, <2>1, <3>1, <4>1 DEF ImportSound
      <3>2. CASE handler[h].stage # "writing"
        BY <1>0, <2>1, <3>2 DEF ImportSound
      <3> QED
        BY <3>1, <3>2
    <2>3. PostSound(handler[h])'
      BY <1>0, <2>1 DEF PostSound
    <2>4. BesideSound(handler[h])'
      <3> SUFFICES ASSUME handler[h].stage \in Posting, handler[h].existing = Nothing,
                          NEW x \in DOMAIN services', services'[x].at = handler[h].at
                   PROVE  handler[h].at \in raced'
        BY <2>1 DEF BesideSound
      <3>1. CASE x \in DOMAIN services /\ services'[x].at = services[x].at
        BY <1>0, <3>1 DEF BesideSound
      <3>2. CASE Inserting(h, services'[x].at) => services'[x].at \in raced'
        BY <3>2 DEF Inserting, Posting
      <3> QED
        BY <1>2, <3>1, <3>2
    <2> QED
      BY <1>0, <2>1, <2>2, <2>3, <2>4
  <1> QED
    BY <1>1, <1>2

\* Deleting a service or a job keeps the invariant.
LEMMA DeletesKeepInv ==
    ASSUME InventoryInv,
           \/ \E s \in DOMAIN services : delete_service(s)
           \/ \E j \in ScanJob : DropJob(j)
    PROVE  InventoryInv'
  <1>0. InventoryTyped /\ InventoryTypeOK /\ ObservationsKept
    BY DEF InventoryInv
  <1>1. ASSUME NEW s \in DOMAIN services, delete_service(s) PROVE InventoryInv'
    <2>1. /\ services' = [x \in DOMAIN services \ {s} |-> services[x]]
          /\ links' = {l \in links : l[2] # s}
          /\ UNCHANGED <<assets, edges, rows, drawnRows, jobsKept, handler, loop, observed, raced>>
      BY <1>1 DEF delete_service
    <2>2. /\ DOMAIN services' = DOMAIN services \ {s}
          /\ \A x \in DOMAIN services' : services'[x] = services[x]
      BY <2>1
    <2>3. InventoryTyped'
      <3>1. links' \subseteq ScanJob \X (Nat \cup ServiceId)
        BY <1>0, <2>1 DEF InventoryTyped
      <3> QED
        BY <1>0, <2>1, <2>2, <3>1 DEF InventoryTyped
    <2>4. HandlersSound'
      BY <2>1, <2>2, HandlersFrame
    <2>5. RowsNeverDuplicated'
      BY <2>1 DEF InventoryInv, RowsNeverDuplicated
    <2>6. ObservationsKept'
      <3>1. \A o \in observed : o[2] # s
        <4> TAKE o \in observed
        <4>1. o[2] \in Nat
          BY <1>0 DEF InventoryTyped
        <4>2. s \in ServiceId
          BY <1>0 DEF InventoryTyped
        <4> QED
          BY <4>1, <4>2, InventoryAssumption DEF InventoryAssumption
      <3> QED
        BY <1>0, <2>1, <3>1 DEF ObservationsKept
    <2>7. InventoryTypeOK'
      <3>1. \A l \in links' : l[1] \in jobsKept' /\ l[2] \in DOMAIN rows' \cup DOMAIN services'
        BY <1>0, <2>1, <2>2 DEF InventoryTypeOK
      <3> QED
        BY <1>0, <2>1, <2>2, <3>1 DEF InventoryTypeOK
    <2>8. ServiceStoredOnce'
      BY <2>1, <2>2 DEF InventoryInv, ServiceStoredOnce
    <2> QED
      BY <2>3, <2>4, <2>5, <2>6, <2>7, <2>8 DEF InventoryInv
  <1>2. ASSUME NEW j \in ScanJob, DropJob(j) PROVE InventoryInv'
    <2>1. /\ jobsKept' = jobsKept \ {j} /\ links' = {l \in links : l[1] # j}
          /\ UNCHANGED <<assets, edges, rows, drawnRows, services, handler, loop, observed, raced>>
      BY <1>2 DEF DropJob
    <2>2. InventoryTyped'
      BY <1>0, <2>1 DEF InventoryTyped
    <2>3. HandlersSound'
      BY <2>1, HandlersFrame
    <2>4. RowsNeverDuplicated' /\ ServiceStoredOnce'
      BY <2>1 DEF InventoryInv, RowsNeverDuplicated, ServiceStoredOnce
    <2>5. ObservationsKept'
      BY <1>0, <2>1 DEF ObservationsKept
    <2>6. InventoryTypeOK'
      BY <1>0, <2>1 DEF InventoryTypeOK
    <2> QED
      BY <2>2, <2>3, <2>4, <2>5, <2>6 DEF InventoryInv
  <1> QED
    BY <1>1, <1>2

\* A post that inserts keeps the invariant: a service of its kind is there already, or will be
\* inserted by another that is under way, only if the posts overlapped.
LEMMA CommitInsertKeepsInv ==
    ASSUME InventoryInv, NEW p \in Handler, NEW s \in ServiceId, CommitInsert(p, s)
    PROVE  InventoryInv'
  <1> DEFINE w == handler[p]
             node == OnlyOf(PortNode(w.at))
             row == [at |-> w.at, asset |-> node]
  <1>0. InventoryTyped /\ InventoryTypeOK /\ ObservationsKept /\ ServiceStoredOnce
    BY DEF InventoryInv
  <1>1. /\ w.stage = "posting" /\ w.existing = Nothing
        /\ w.job # Nothing => w.job \in jobsKept
        /\ s \notin DOMAIN services
    BY DEF CommitInsert, PostConflicts
  <1>2. /\ services' = [x \in DOMAIN services \cup {s} |-> IF x = s THEN row ELSE services[x]]
        /\ raced' = IF \E q \in Handler \ {p} : Inserting(q, w.at) THEN raced \cup {w.at} ELSE raced
        /\ links' = links \cup (({w.job} \ {Nothing}) \X {s})
        /\ assets' = assets \cup w.nodes /\ edges' = edges \cup w.edges
        /\ handler' = [handler EXCEPT ![p] = NoWork]
        /\ UNCHANGED <<rows, drawnRows, jobsKept, loop, observed, dropped>>
    BY DEF CommitInsert
  <1>3. PostSound(w) /\ BesideSound(w)
    BY DEF InventoryInv, HandlersSound
  <1>4. /\ HostNode(w.at) \subseteq assets' /\ PortNode(w.at) \subseteq assets'
        /\ w.edges \subseteq HostNode(w.at) \X PortNode(w.at)
    BY <1>1, <1>2, <1>3 DEF PostSound, Posting
  <1>5. node \in assets' \cup {Nothing}
    BY <1>4, OnlyOfFacts
  <1>6. \A t \in DOMAIN services : services[t].at = w.at => w.at \in raced
    BY <1>1, <1>3 DEF BesideSound, Posting
  <1>7. row.at = w.at /\ row.asset = node
    OBVIOUS
  <1>8. raced \subseteq raced' /\ \A q \in Handler : q # p /\ Inserting(q, w.at) => w.at \in raced'
    BY <1>2
  <1> HIDE DEF row, node, w
  <1>9. /\ DOMAIN services' = DOMAIN services \cup {s} /\ services'[s] = row
        /\ \A x \in DOMAIN services : services'[x] = services[x]
    BY <1>1, <1>2
  <1>10. InventoryTyped'
    <2>1. DOMAIN services' \subseteq ServiceId
      BY <1>0, <1>9 DEF InventoryTyped
    <2>2. links' \subseteq ScanJob \X (Nat \cup ServiceId)
      BY <1>0, <1>1, <1>2 DEF InventoryTyped
    <2>3. handler' = [h \in Handler |-> handler'[h]]
      BY <1>0, <1>2 DEF InventoryTyped
    <2> QED
      BY <1>0, <1>2, <2>1, <2>2, <2>3 DEF InventoryTyped
  <1>11. HandlersSound'
    <2>1. \A h \in Handler : handler'[h] = IF h = p THEN NoWork ELSE handler[h]
      BY <1>0, <1>2 DEF InventoryTyped
    <2>2. \A h \in Handler \ {p}, x \in DOMAIN services' :
              \/ x \in DOMAIN services /\ services'[x].at = services[x].at
              \/ Inserting(h, services'[x].at) => services'[x].at \in raced'
      BY <1>7, <1>8, <1>9
    <2> QED
      BY <1>2, <1>8, <2>1, <2>2, HandlersFrame
  <1>12. RowsNeverDuplicated'
    BY <1>2 DEF InventoryInv, RowsNeverDuplicated
  <1>13. ObservationsKept'
    BY <1>0, <1>2 DEF ObservationsKept
  <1>14. InventoryTypeOK'
    <2>1. \A l \in links' : l[1] \in jobsKept' /\ l[2] \in DOMAIN rows' \cup DOMAIN services'
      BY <1>0, <1>1, <1>2, <1>9 DEF InventoryTypeOK
    <2>2. \A r \in DOMAIN rows' : rows'[r].asset \in assets' \cup {Nothing}
      BY <1>0, <1>2 DEF InventoryTypeOK
    <2>3. \A x \in DOMAIN services' : services'[x].asset \in assets' \cup {Nothing}
      BY <1>0, <1>2, <1>5, <1>7, <1>9 DEF InventoryTypeOK
    <2>4. edges' \subseteq assets' \X assets'
      BY <1>0, <1>2, <1>4 DEF InventoryTypeOK
    <2> QED
      BY <2>1, <2>2, <2>3, <2>4 DEF InventoryTypeOK
  <1>15. ServiceStoredOnce'
    <2> SUFFICES ASSUME NEW x \in DOMAIN services', NEW y \in DOMAIN services',
                        services'[x].at = services'[y].at, x # y
                 PROVE  services'[x].at \in raced'
      BY DEF ServiceStoredOnce
    <2>1. CASE x \in DOMAIN services /\ y \in DOMAIN services
      BY <1>0, <1>8, <1>9, <2>1 DEF ServiceStoredOnce
    <2>2. CASE ~(x \in DOMAIN services /\ y \in DOMAIN services)
      BY <1>6, <1>7, <1>8, <1>9, <2>2
    <2> QED
      BY <2>1, <2>2
  <1> QED
    BY <1>10, <1>11, <1>12, <1>13, <1>14, <1>15 DEF InventoryInv

\* A post that updates adds a link.
LEMMA CommitUpdateKeepsInv ==
    ASSUME InventoryInv, NEW p \in Handler, CommitUpdate(p)
    PROVE  InventoryInv'
  <1> DEFINE w == handler[p]
  <1>0. InventoryTyped /\ InventoryTypeOK /\ ObservationsKept
    BY DEF InventoryInv
  <1>1. /\ w.job # Nothing => w.job \in jobsKept
        /\ w.existing \in DOMAIN services
    BY DEF CommitUpdate, PostConflicts
  <1>2. /\ links' = links \cup (({w.job} \ {Nothing}) \X {w.existing})
        /\ handler' = [handler EXCEPT ![p] = NoWork]
        /\ UNCHANGED <<assets, edges, rows, drawnRows, services, jobsKept, loop, observed, raced>>
    BY DEF CommitUpdate
  <1> HIDE DEF w
  <1>3. \A h \in Handler : handler'[h] = IF h = p THEN NoWork ELSE handler[h]
    BY <1>0, <1>2 DEF InventoryTyped
  <1>4. InventoryTyped'
    <2>1. links' \subseteq ScanJob \X (Nat \cup ServiceId)
      BY <1>0, <1>1, <1>2 DEF InventoryTyped
    <2>2. handler' = [h \in Handler |-> handler'[h]]
      BY <1>0, <1>2 DEF InventoryTyped
    <2> QED
      BY <1>0, <1>2, <2>1, <2>2 DEF InventoryTyped
  <1>5. HandlersSound'
    BY <1>2, <1>3, HandlersFrame
  <1>6. RowsNeverDuplicated' /\ ObservationsKept' /\ ServiceStoredOnce'
    BY <1>2 DEF InventoryInv, RowsNeverDuplicated, ObservationsKept, ServiceStoredOnce
  <1>7. InventoryTypeOK'
    <2>1. \A l \in links' : l[1] \in jobsKept' /\ l[2] \in DOMAIN rows' \cup DOMAIN services'
      BY <1>0, <1>1, <1>2 DEF InventoryTypeOK
    <2> QED
      BY <1>0, <1>2, <2>1 DEF InventoryTypeOK
  <1> QED
    BY <1>4, <1>5, <1>6, <1>7 DEF InventoryInv

\* What an upload that commits stores.  No id is drawn twice, and a fresh report becomes a row
\* of its own.
LEMMA StoredRows ==
    ASSUME InventoryInv, NEW i \in Handler, handler[i].stage = "writing"
    PROVE  LET batch == handler[i].batch
               added == Added(batch, handler[i].new)
           IN  /\ DOMAIN added = {drawnRows + n : n \in handler[i].new}
               /\ \A n \in handler[i].new :
                     /\ n \in 1..Len(batch.items)
                     /\ added[drawnRows + n].tool = batch.tool
                     /\ added[drawnRows + n].key = DedupKey(batch.tool, batch.items[n])
                     /\ added[drawnRows + n].asset \in assets \cup handler[i].nodes \cup {Nothing}
               /\ DOMAIN added \cap DOMAIN rows = {} /\ Len(batch.items) \in Nat
  <1> DEFINE batch == handler[i].batch
             added == Added(batch, handler[i].new)
             items == batch.items
  <1>0. ImportSound(handler[i]) /\ InventoryTyped
    BY DEF InventoryInv, HandlersSound
  <1>1. /\ batch \in Batch /\ handler[i].new = Fresh(batch.tool, items)
        /\ \A n \in handler[i].new :
              upsert(items[n], Nothing, TRUE) \subseteq assets \cup handler[i].nodes
    BY <1>0 DEF ImportSound
  <1>2. Len(items) \in Nat /\ DOMAIN items = 1..Len(items)
    BY <1>1, InventoryAssumption DEF InventoryAssumption
  <1>3. DOMAIN added = {drawnRows + n : n \in handler[i].new}
    BY DEF Added
  <1>4. \A n \in handler[i].new : n \in 1..Len(items)
    BY <1>1, <1>2 DEF Fresh
  <1>5. ASSUME NEW n \in handler[i].new
        PROVE  /\ added[drawnRows + n].tool = batch.tool
               /\ added[drawnRows + n].key = DedupKey(batch.tool, items[n])
               /\ added[drawnRows + n].asset \in assets \cup handler[i].nodes \cup {Nothing}
    <2> DEFINE node == OnlyOf(upsert(items[n], Nothing, TRUE))
    <2>1. drawnRows \in Nat /\ n \in Nat /\ (drawnRows + n) - drawnRows = n
      BY <1>0, <1>2, <1>4 DEF InventoryTyped
    <2>2. added[drawnRows + n] =
            [tool |-> batch.tool, key |-> DedupKey(batch.tool, items[n]), asset |-> node]
      BY <2>1 DEF Added
    <2>3. node \in upsert(items[n], Nothing, TRUE) \cup {Nothing}
      BY OnlyOfFacts
    <2>4. upsert(items[n], Nothing, TRUE) \subseteq assets \cup handler[i].nodes
      BY <1>1
    <2>5. node \in assets \cup handler[i].nodes \cup {Nothing}
      BY <2>3, <2>4
    <2> HIDE DEF node, added, batch, items
    <2> QED
      BY <2>2, <2>5
  <1>6. DOMAIN added \cap DOMAIN rows = {}
    <2>1. drawnRows \in Nat /\ DOMAIN rows \subseteq 1..drawnRows
      BY <1>0 DEF InventoryTyped
    <2> HIDE DEF added
    <2> QED
      BY <1>2, <1>3, <1>4, <2>1
  <1> HIDE DEF added, batch, items
  <1>7. QED
    BY <1>2, <1>3, <1>4, <1>5, <1>6 DEF batch, added, items

\* An upload that commits keeps the invariant: its reports are still new when they are stored,
\* because no other upload ran since they were compared with the stored rows.
LEMMA CommitImportKeepsInv ==
    ASSUME InventoryInv, NEW i \in Handler, CommitImport(i)
    PROVE  InventoryInv'
  <1> DEFINE w == handler[i]
             batch == w.batch
             items == batch.items
             job == {w.job} \ {Nothing}
             added == Added(batch, w.new)
             stored == [r \in DOMAIN rows \cup DOMAIN added |->
                           IF r \in DOMAIN rows THEN rows[r] ELSE added[r]]
             linked == Linked(batch, stored)
             about == About(batch, stored)
  <1>0. InventoryTyped /\ InventoryTypeOK /\ ObservationsKept /\ RowsNeverDuplicated
    BY DEF InventoryInv
  <1>1. w.stage = "writing" /\ (w.job # Nothing => w.job \in jobsKept)
    BY DEF CommitImport, ImportConflicts
  <1>2. /\ rows' = stored
        /\ drawnRows' = IF w.new = {} THEN drawnRows ELSE drawnRows + Len(items)
        /\ links' = links \cup (job \X linked)
        /\ observed' = observed \cup (job \X about)
    BY DEF CommitImport
  <1>3. /\ assets' = assets \cup w.nodes /\ handler' = [handler EXCEPT ![i] = NoWork]
        /\ UNCHANGED <<edges, services, jobsKept, dropped, raced>>
    BY DEF CommitImport
  <1>5. /\ DOMAIN added = {drawnRows + n : n \in w.new}
        /\ DOMAIN added \cap DOMAIN rows = {} /\ Len(items) \in Nat
    BY <1>1, StoredRows
  <1>6. \A n \in w.new :
           /\ n \in 1..Len(items)
           /\ added[drawnRows + n].tool = batch.tool
           /\ added[drawnRows + n].key = DedupKey(batch.tool, items[n])
           /\ added[drawnRows + n].asset \in assets \cup w.nodes \cup {Nothing}
    BY <1>1, StoredRows
  <1>7. /\ w.new = Fresh(batch.tool, items)
        /\ \A h \in Handler : h # i => handler[h].stage # "writing"
    BY <1>1 DEF InventoryInv, HandlersSound, ImportSound
  <1>8. linked \subseteq DOMAIN stored /\ about \subseteq linked
    BY DEF Linked, About
  <1>9. job \subseteq jobsKept /\ jobsKept \subseteq ScanJob
    BY <1>0, <1>1 DEF InventoryTyped
  <1> HIDE DEF added, linked, about, job
  <1>10. /\ DOMAIN rows' = DOMAIN rows \cup DOMAIN added
         /\ \A r \in DOMAIN rows : rows'[r] = rows[r]
         /\ \A r \in DOMAIN added : rows'[r] = added[r]
    BY <1>2, <1>5
  <1>11. linked \subseteq DOMAIN rows' /\ about \subseteq DOMAIN rows'
    BY <1>2, <1>8
  <1> HIDE DEF w, batch, items, stored
  <1>12. /\ drawnRows \in Nat /\ drawnRows' \in Nat /\ drawnRows' >= drawnRows
         /\ DOMAIN rows \subseteq 1..drawnRows
    BY <1>0, <1>2, <1>5 DEF InventoryTyped
  <1>13. DOMAIN rows' \subseteq 1..drawnRows'
    <2>1. \A r \in DOMAIN rows : r \in 1..drawnRows'
      BY <1>12
    <2>2. \A n \in w.new : drawnRows + n \in 1..drawnRows'
      BY <1>2, <1>5, <1>6, <1>12
    <2> QED
      BY <1>5, <1>10, <2>1, <2>2
  <1>14. InventoryTyped'
    <2>2. links' \subseteq ScanJob \X (Nat \cup ServiceId)
      <3>1. linked \subseteq Nat
        BY <1>11, <1>12, <1>13
      <3> QED
        BY <1>0, <1>2, <1>9, <3>1 DEF InventoryTyped
    <2>3. observed' \subseteq ScanJob \X DOMAIN rows'
      <3>1. observed \subseteq ScanJob \X DOMAIN rows /\ DOMAIN rows \subseteq DOMAIN rows'
        BY <1>0, <1>10 DEF InventoryTyped
      <3> QED
        BY <1>2, <1>9, <1>11, <3>1
    <2>4. handler' = [h \in Handler |-> handler'[h]]
      BY <1>0, <1>3 DEF InventoryTyped
    <2> QED
      BY <1>0, <1>3, <1>10, <1>12, <1>13, <2>2, <2>3, <2>4 DEF InventoryTyped
  <1>15. HandlersSound'
    <2>1. \A h \in Handler : handler'[h] = IF h = i THEN NoWork ELSE handler[h]
      BY <1>0, <1>3 DEF InventoryTyped
    <2>2. services' = services /\ raced' = raced
      BY <1>3
    <2> QED
      BY <1>3, <1>7, <2>1, <2>2, HandlersFrame
  <1>17. RowsNeverDuplicated'
    <2> SUFFICES ASSUME NEW r \in DOMAIN rows', NEW s \in DOMAIN rows', rows'[r].tool = rows'[s].tool,
                        rows'[r].key = rows'[s].key, rows'[r].key # Nothing
                 PROVE  r = s
      BY DEF RowsNeverDuplicated
    <2>1. CASE r \in DOMAIN rows /\ s \in DOMAIN rows
      BY <1>0, <1>10, <2>1 DEF RowsNeverDuplicated
    <2>2. ASSUME NEW n \in w.new, NEW x \in DOMAIN rows, rows'[x].tool = batch.tool,
                 rows'[x].key = DedupKey(batch.tool, items[n]), rows'[x].key # Nothing
          PROVE  FALSE
      <3>1. Same(batch.tool, items[n]) = {}
        BY <1>7, <2>2 DEF Fresh
      <3>2. rows[x].tool = batch.tool /\ rows[x].key = DedupKey(batch.tool, items[n])
        BY <1>10, <2>2
      <3> QED
        BY <3>1, <3>2 DEF Same
    <2>3. ASSUME NEW n \in w.new, NEW m \in w.new, m < n, DedupKey(batch.tool, items[n]) # Nothing
          PROVE  DedupKey(batch.tool, items[n]) # DedupKey(batch.tool, items[m])
      <3>1. \A k \in 1..(n - 1) : DedupKey(batch.tool, items[k]) # DedupKey(batch.tool, items[n])
        BY <1>7, <2>3 DEF Fresh
      <3>2. m \in 1..(n - 1)
        BY <1>5, <1>6, <2>3
      <3> QED
        BY <3>1, <3>2
    <2>4. \A x \in DOMAIN rows' : x \in DOMAIN rows \/ \E n \in w.new : x = drawnRows + n
      BY <1>5, <1>10
    <2>5. \A n \in w.new : /\ rows'[drawnRows + n].tool = batch.tool
                           /\ rows'[drawnRows + n].key = DedupKey(batch.tool, items[n])
      BY <1>5, <1>6, <1>10
    <2>6. CASE r \notin DOMAIN rows /\ s \notin DOMAIN rows
      <3>1. PICK n \in w.new : r = drawnRows + n
        BY <2>4, <2>6
      <3>2. PICK m \in w.new : s = drawnRows + m
        BY <2>4, <2>6
      <3>3. n \in Nat /\ m \in Nat
        BY <1>5, <1>6
      <3>4. ~(m < n) /\ ~(n < m)
        BY <2>3, <2>5, <3>1, <3>2
      <3> QED
        BY <3>1, <3>2, <3>3, <3>4
    <2>7. CASE r \in DOMAIN rows /\ s \notin DOMAIN rows
      <3>1. PICK m \in w.new : s = drawnRows + m
        BY <2>4, <2>7
      <3> QED
        BY <2>2, <2>5, <2>7, <3>1
    <2>8. CASE r \notin DOMAIN rows /\ s \in DOMAIN rows
      <3>1. PICK n \in w.new : r = drawnRows + n
        BY <2>4, <2>8
      <3> QED
        BY <2>2, <2>5, <2>8, <3>1
    <2> QED
      BY <2>1, <2>6, <2>7, <2>8
  <1>18. ObservationsKept'
    <2>1. job \X about \subseteq job \X linked
      BY <1>8
    <2> QED
      BY <1>0, <1>2, <1>3, <2>1 DEF ObservationsKept
  <1>19. InventoryTypeOK'
    <2>1. \A l \in links' : l[1] \in jobsKept' /\ l[2] \in DOMAIN rows' \cup DOMAIN services'
      BY <1>0, <1>2, <1>3, <1>9, <1>10, <1>11 DEF InventoryTypeOK
    <2>2. \A r \in DOMAIN rows' : rows'[r].asset \in assets' \cup {Nothing}
      <3>1. \A r \in DOMAIN rows : rows'[r].asset \in assets' \cup {Nothing}
        BY <1>0, <1>3, <1>10 DEF InventoryTypeOK
      <3>2. \A n \in w.new : rows'[drawnRows + n].asset \in assets' \cup {Nothing}
        BY <1>3, <1>5, <1>6, <1>10
      <3> QED
        BY <1>5, <1>10, <3>1, <3>2
    <2>3. \A s \in DOMAIN services' : services'[s].asset \in assets' \cup {Nothing}
      BY <1>0, <1>3 DEF InventoryTypeOK
    <2>4. edges' \subseteq assets' \X assets'
      BY <1>0, <1>3 DEF InventoryTypeOK
    <2> QED
      BY <2>1, <2>2, <2>3, <2>4 DEF InventoryTypeOK
  <1>20. ServiceStoredOnce'
    BY <1>3 DEF InventoryInv, ServiceStoredOnce
  <1> QED
    BY <1>14, <1>15, <1>17, <1>18, <1>19, <1>20 DEF InventoryInv

\* The invariant of the inventory is inductive.
LEMMA InventoryInductive == InventoryInv /\ [InventoryNext]_inventoryVars => InventoryInv'
  <1>1. ASSUME InventoryInv, UNCHANGED inventoryVars PROVE InventoryInv'
    <2>1. /\ UNCHANGED <<assets, edges, rows, drawnRows, services, links, jobsKept, loop, handler>>
          /\ UNCHANGED <<observed, dropped, raced>>
      BY <1>1 DEF inventoryVars
    <2>2. InventoryTyped' /\ RowsNeverDuplicated' /\ ObservationsKept'
      BY <1>1, <2>1 DEF InventoryInv, InventoryTyped, RowsNeverDuplicated, ObservationsKept
    <2>3. HandlersSound'
      BY <1>1, <2>1, HandlersFrame
    <2>4. InventoryTypeOK' /\ ServiceStoredOnce'
      BY <1>1, <2>1 DEF InventoryInv, InventoryTypeOK, ServiceStoredOnce
    <2> QED
      BY <2>2, <2>3, <2>4 DEF InventoryInv
  <1>2. ASSUME InventoryInv, InventoryNext PROVE InventoryInv'
    BY <1>2, ReadsKeepInv, QueriesKeepInv, CommitImportKeepsInv, CommitInsertKeepsInv,
       CommitUpdateKeepsInv, DeletesKeepInv DEF InventoryNext
  <1> QED
    BY <1>1, <1>2

\* No two posts that have looked for one service and found none are under way together.
PostsApart ==
    \A p, q \in Handler, svc \in Listening : Inserting(p, svc) /\ Inserting(q, svc) => p = q

\* Overlapping first posts are the only cause of a service stored twice: in any run in which they
\* keep apart, as a lock on the engagement would make them, bulk_create_services upserts.
THEOREM UpsertedWhenApart == InventorySpec /\ []PostsApart => []ServicesUpserted
  <1>1. ASSUME InventoryInv, [InventoryNext]_inventoryVars, PostsApart, raced = {}
        PROVE  raced' = {}
    <2>1. ASSUME NEW p \in Handler, NEW s \in ServiceId, CommitInsert(p, s)
          PROVE  raced' = {}
      <3>1. Inserting(p, handler[p].at)
        BY <2>1 DEF CommitInsert, Inserting
      <3>2. handler[p].at \in Listening
        BY <1>1, <3>1 DEF InventoryInv, HandlersSound, PostSound, Posting, Inserting
      <3>3. \A q \in Handler \ {p} : ~Inserting(q, handler[p].at)
        BY <1>1, <3>1, <3>2 DEF PostsApart
      <3> QED
        BY <1>1, <2>1, <3>3 DEF CommitInsert
    <2>2. CASE UNCHANGED raced
      BY <1>1, <2>2
    <2> QED
      BY <1>1, <2>1, <2>2
      DEF InventoryNext, inventoryVars, importRows, ReceiveUpload, ParseUpload, AbortImport,
          CommitImport, LookupService, LookupHost, LookupPort, LookupEdge, AbortPost, CommitUpdate,
          delete_service, DropJob
  <1>2. InventoryInit => raced = {}
    BY DEF InventoryInit
  <1>3. InventoryInv /\ raced = {} => ServicesUpserted
    BY DEF InventoryInv, ServiceStoredOnce, ServicesUpserted
  <1>4. InventoryInv /\ [InventoryNext]_inventoryVars /\ PostsApart /\ raced = {} => (raced = {})'
    BY <1>1
  <1> QED
    BY <1>2, <1>3, <1>4, InventoryInitInv, InventoryInductive, PTL DEF InventorySpec

-------------------------------------------------------------------------------
(* The services together.                                                  *)

ServicesInv == AuthInv /\ KeysInv /\ AccessInv /\ InventoryInv /\ ApiInv /\ RecordsInv

\* A step of the services is a step, or a stutter, of each of them.
LEMMA StepsOfServices ==
    [ServicesNext]_servicesVars =>
        /\ [AuthNext]_authVars /\ [KeysNext]_keyVars /\ [AccessNext]_accessVars
        /\ [InventoryNext]_inventoryVars /\ [ApiNext]_apiVars /\ [RecordsNext]_recordVars
  <1>1. CASE UNCHANGED servicesVars
    BY <1>1 DEF servicesVars
  <1>2. CASE ServicesNext
    BY <1>2 DEF ServicesNext, AccessNext, RecordsNext
  <1> QED
    BY <1>1, <1>2

\* The invariants of the services hold together, in every behaviour.
LEMMA ServicesInvariant == ServicesSpec => []ServicesInv
  <1>1. ServicesInit => ServicesInv
    BY AuthInitInv, KeysInitInv, AccessInitInv, InventoryInitInv, ApiInitInv, RecordsInitInv
       DEF ServicesInit, ServicesInv
  <1>2. ServicesInv /\ [ServicesNext]_servicesVars => ServicesInv'
    BY StepsOfServices, AuthInductive, KeysInductive, AccessInductive, InventoryInductive,
       ApiInductive, RecordsInductive DEF ServicesInv
  <1> QED
    BY <1>1, <1>2, PTL DEF ServicesSpec

\* No row names one that is gone, however deletions overlap the requests that read before them.
THEOREM ReferencesTheorem == ServicesSpec => []ReferencesHold
  <1>1. ServicesInv => ReferencesHold
    BY AuthInvType, AccessConsequences
       DEF ServicesInv, AccessInv, InventoryInv, RecordsInv, ReferencesHold
  <1> QED
    BY <1>1, ServicesInvariant, PTL

\* Keys and members exceed their limits by no more than the requests that overlapped.
THEOREM LimitsTheorem == ServicesSpec => []LimitsOvershootByOverlap
  <1>1. ServicesInv => LimitsOvershootByOverlap
    BY DEF ServicesInv, KeysInv, AccessInv, LimitsOvershootByOverlap
  <1> QED
    BY <1>1, ServicesInvariant, PTL

\* Lists and single checks agree, and tenants stay apart, whatever invitations, removals and
\* creations of organizations overlap.
THEOREM AccessTheorem == ServicesSpec => []AccessFollowsGrants
  <1>1. ServicesInv => AccessFollowsGrants
    BY AccessConsequences DEF ServicesInv, AccessFollowsGrants
  <1> QED
    BY <1>1, ServicesInvariant, PTL

\* No report is stored twice, no observation is lost, a service is stored twice only by posts
\* that overlapped, and exchanges are counted exactly until deletions overlap.
THEOREM InventoryTheorem == ServicesSpec => []InventoryIsExact
  <1>1. ServicesInv => InventoryIsExact
    BY DEF ServicesInv, InventoryInv, ApiInv, InventoryIsExact
  <1> QED
    BY <1>1, ServicesInvariant, PTL

\* The history of a finding opens once and ends with the finding as it stands, and a report
\* shows every note that preceded the version it shows.
THEOREM HistoryTheorem == ServicesSpec => []HistoryIsComplete
  <1>1. ServicesInv => HistoryIsComplete
    BY DEF ServicesInv, RecordsInv, HistoryIsComplete
  <1> QED
    BY <1>1, ServicesInvariant, PTL

\* A session or key that was revoked admits nobody, not even a request that read it before.
THEOREM RevocationTheorem == ServicesSpec => RevocationHolds
  <1>1. ServicesInv /\ [ServicesNext]_servicesVars =>
          [\A t \in (1..drawn) \ DOMAIN sessions : t \notin DOMAIN sessions']_authVars
    BY StepsOfServices, RevokedStep DEF ServicesInv
  <1>2. ServicesInv /\ [ServicesNext]_servicesVars =>
          [\A c \in KeyCall : keyCall'[c].stage = "admitted" /\ keyCall[c].stage # "admitted"
                                  => keyCall'[c].key \notin revoked]_keyVars
    BY StepsOfServices, AdmittedStep DEF ServicesInv
  <1> QED
    BY <1>1, <1>2, ServicesInvariant, PTL
       DEF ServicesSpec, RevocationHolds, RevokedStaysRevoked, RevokedKeyAdmitsNobody

\* The loser of a race overwrites no invitation, loses no promoted exchange and moves no evidence.
THEOREM RacesTheorem == ServicesSpec => RacesLoseNothing
  <1>1. ServicesInv /\ [ServicesNext]_servicesVars =>
          [\A e \in DOMAIN engagements, u \in User :
              engagements[e].members[u] # Absent
                  => engagements'[e].members[u] \in {engagements[e].members[u], Absent}]_accessVars
    BY StepsOfServices, InvitationStep DEF ServicesInv
  <1>2. ServicesInv /\ [ServicesNext]_servicesVars =>
          [\A c \in ApiCall : apiCall[c].stage = "promote" /\ apiCall'[c] = NoApiCall
              => Cardinality(DOMAIN exchanges') = Cardinality(DOMAIN exchanges) + 1]_apiVars
    BY StepsOfServices, PromotionStep DEF ServicesInv
  <1>3. ServicesInv /\ [ServicesNext]_servicesVars =>
          [\A e \in DOMAIN evidence \cap DOMAIN evidence' :
              evidence[e] # Unlinked => evidence'[e] = evidence[e]]_recordVars
    BY StepsOfServices, EvidenceStays DEF ServicesInv
  <1> QED
    BY <1>1, <1>2, <1>3, ServicesInvariant, PTL
       DEF ServicesSpec, RacesLoseNothing, InvitationNeverOverwrites, PromotionNeverLost,
           EvidenceNeverMoves

\* Each revision of a report was written from the one before it, and a saved one changes only
\* its status.
THEOREM RevisionsTheorem == ServicesSpec => RevisionsBuildOnLatest
  <1>1. ServicesInv /\ [ServicesNext]_servicesVars =>
          [/\ Len(revisions') >= Len(revisions)
           /\ \A n \in DOMAIN revisions' :
                 /\ revisions'[n].base = n - 1
                 /\ n <= Len(revisions) =>
                        [revisions'[n] EXCEPT !.status = revisions[n].status] = revisions[n]]_recordVars
    BY StepsOfServices, RevisionsStep DEF ServicesInv
  <1> QED
    BY <1>1, ServicesInvariant, PTL DEF ServicesSpec, RevisionsBuildOnLatest
===============================================================================
