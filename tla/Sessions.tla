------------------------------ MODULE Sessions ------------------------------
(***************************************************************************)
(* Who may call the API: sessions and API tokens in Postgres, the Redis    *)
(* copies every request is checked against, logout, revocation, and the    *)
(* rate limits that a request must pass before it is looked at.  Each      *)
(* operation is a sequence of awaited statements on two stores, and other  *)
(* requests run between any two of them.  A session is named by the login  *)
(* that made it.                                                           *)
(***************************************************************************)
EXTENDS Naturals

CONSTANTS
  Logins,      \* logins of the bootstrap admin; also their sessions
  Passwords,   \* what a login may send as password
  Bootstrap,   \* BOOTSTRAP_ADMIN_PASSWORD
  Tokens,      \* API tokens that may be issued, by jti
  Requests,    \* request slots: each checks a credential and acts on it
  LoginLimit,  \* login attempts in a window
  MaxFaults    \* bound on failed Redis calls and restarts

ASSUME BoundsAssumption == LoginLimit \in Nat \ {0} /\ MaxFaults \in Nat
ASSUME NamesAssumption == Logins \cap Tokens = {} /\ Bootstrap \in Passwords

VARIABLES
  limiter,    \* the rate limits: whether the server runs in production, whether
              \* Redis has the script, and the login attempts in the window
  admin,      \* the password hashed in the admin's row of users, if it exists
  login,      \* how far POST /auth/login is
  role,       \* api_tokens: the role of each token that was issued
  row,        \* sessions, in Postgres
  session,    \* session:<id> keys, in Redis
  revoked,    \* tokens in token_revocations
  verdict,    \* revocation keys, in Redis: "1", "0" or "none"
  request,    \* the requests under way
  ended,      \* credentials whose logout or revocation has been answered
  overlapped, \* ended credentials a slower check wrote back into Redis
  faults

stores == <<row, role, revoked>>
caches == <<session, verdict>>
ghosts == <<ended, overlapped>>
vars == <<limiter, admin, login, stores, caches, request, ghosts, faults>>

Credentials == Logins \cup Tokens
NoCredential == "none"
Idle == [pc |-> "idle", cred |-> NoCredential, after |-> FALSE]

NoHash == {}

Init ==
  /\ limiter \in [production : BOOLEAN, scripted : {TRUE}, tries : {0}]
  /\ admin = NoHash
  /\ role = [t \in Tokens |-> "none"]
  /\ login = [l \in Logins |-> "idle"]
  /\ row = [l \in Logins |-> "none"]
  /\ session = [l \in Logins |-> FALSE]
  /\ revoked = {}
  /\ verdict = [t \in Tokens |-> "none"]
  /\ request = [r \in Requests |-> Idle]
  /\ ended = {} /\ overlapped = {} /\ faults = 0

-----------------------------------------------------------------------------
(* The rate limits.  The server loads the script once and calls it by its  *)
(* digest, which a Redis that was restarted does not know: in production   *)
(* every request is then answered with a 503.  Requests refused with a 429 *)
(* change nothing; only the limit on logins is counted out here.           *)

RateLimitHook == limiter.scripted \/ ~limiter.production

LoginRateLimitHook ==
  IF limiter.scripted THEN limiter.tries < LoginLimit ELSE ~limiter.production

Tried == [limiter EXCEPT !.tries = IF limiter.scripted THEN @ + 1 ELSE @]

\* ZREMRANGEBYSCORE drops the attempts that the window has left behind.
WindowMoves ==
  /\ limiter.tries > 0
  /\ limiter' = [limiter EXCEPT !.tries = @ - 1]
  /\ UNCHANGED <<admin, login, stores, caches, request, ghosts, faults>>

-----------------------------------------------------------------------------
(* POST /auth/login: the first one creates the admin, then the password is *)
(* compared with the hash and, if it is right, the session made.           *)

\* ensureBootstrapAdmin, the SELECT.
LooksForAdmin(l) ==
  /\ login[l] = "idle"
  /\ RateLimitHook /\ LoginRateLimitHook
  /\ limiter' = Tried
  /\ login' = [login EXCEPT ![l] = IF admin = NoHash THEN "seeding" ELSE "checking"]
  /\ UNCHANGED <<admin, stores, caches, request, ghosts, faults>>

\* ensureBootstrapAdmin, the INSERT, which does nothing on a conflict.
EnsureBootstrapAdmin(l) ==
  /\ login[l] = "seeding"
  /\ admin' = IF admin = NoHash THEN {Bootstrap} ELSE admin
  /\ login' = [login EXCEPT ![l] = "checking"]
  /\ UNCHANGED <<limiter, stores, caches, request, ghosts, faults>>

VerifyPassword(password) == password \in admin

\* A wrong password is answered with a 401.
AuthenticatePassword(l) ==
  /\ login[l] = "checking"
  /\ \E password \in Passwords :
       login' = [login EXCEPT ![l] = IF VerifyPassword(password) THEN "right" ELSE "idle"]
  /\ UNCHANGED <<limiter, admin, stores, caches, request, ghosts, faults>>

\* createSession
SessionInsert(l) ==
  /\ login[l] = "right"
  /\ row' = [row EXCEPT ![l] = "live"]
  /\ login' = [login EXCEPT ![l] = "inserted"]
  /\ UNCHANGED <<limiter, admin, role, revoked, caches, request, ghosts, faults>>

\* The client gets its cookie once the Redis copy is written.
SessionSet(l) ==
  /\ login[l] = "inserted"
  /\ session' = [session EXCEPT ![l] = TRUE]
  /\ login' = [login EXCEPT ![l] = "in"]
  /\ UNCHANGED <<limiter, admin, stores, verdict, request, ghosts, faults>>

Login(l) ==
  \/ LooksForAdmin(l)
  \/ EnsureBootstrapAdmin(l)
  \/ AuthenticatePassword(l)
  \/ SessionInsert(l)
  \/ SessionSet(l)

-----------------------------------------------------------------------------
(* authenticate: the bearer token first, then the cookie; a request that   *)
(* sends both is two checks here, the second if the first is rejected.     *)

\* A request that is rejected is over; one that is accepted may be all there
\* is to it, or go on to a handler below.
To(r, pc) == [request EXCEPT ![r] = IF pc = "rejected" THEN Idle ELSE [@ EXCEPT !.pc = pc]]
At(r, pc) == request[r].pc = pc
Cred(r) == request[r].cred

\* A client knows the credentials it was given.
Begin(r) ==
  /\ request[r].pc \in {"idle", "accepted"}
  /\ RateLimitHook
  /\ \E x \in {t \in Tokens : role[t] # "none"} \cup {l \in Logins : login[l] = "in"} :
       request' = [request EXCEPT ![r] = [pc |-> "get", cred |-> x, after |-> x \in ended]]
  /\ UNCHANGED <<limiter, admin, login, stores, caches, ghosts, faults>>

\* verifyBearer -> isRevoked, the Redis GET.
TokenGet(r) ==
  /\ At(r, "get")
  /\ Cred(r) \in Tokens
  /\ request' = To(r, CASE verdict[Cred(r)] = "1" -> "rejected"
                        [] verdict[Cred(r)] = "0" -> "accepted"
                        [] OTHER -> "select")
  /\ UNCHANGED <<limiter, admin, login, stores, caches, ghosts, faults>>

\* isRevoked, the SELECT on token_revocations and api_tokens.
TokenSelect(r) ==
  /\ At(r, "select")
  /\ Cred(r) \in Tokens
  /\ request' = To(r, IF Cred(r) \in revoked THEN "fill1" ELSE "fill0")
  /\ UNCHANGED <<limiter, admin, login, stores, caches, ghosts, faults>>

\* isRevoked, the SET of what the SELECT said, and the answer.
TokenFill(r) ==
  /\ request[r].pc \in {"fill0", "fill1"}
  /\ Cred(r) \in Tokens
  /\ verdict' = [verdict EXCEPT ![Cred(r)] = IF At(r, "fill1") THEN "1" ELSE "0"]
  /\ overlapped' = overlapped \cup (IF At(r, "fill0") THEN {Cred(r)} \cap ended ELSE {})
  /\ request' = To(r, IF At(r, "fill1") THEN "rejected" ELSE "accepted")
  /\ UNCHANGED <<limiter, admin, login, stores, session, ended, faults>>

\* resolveSession, the Redis GET.
SessionGet(r) ==
  /\ At(r, "get")
  /\ Cred(r) \in Logins
  /\ request' = To(r, IF session[Cred(r)] THEN "accepted" ELSE "select")
  /\ UNCHANGED <<limiter, admin, login, stores, caches, ghosts, faults>>

\* resolveSession, the SELECT of a row that has not expired.
SessionSelect(r) ==
  /\ At(r, "select")
  /\ Cred(r) \in Logins
  /\ request' = To(r, IF row[Cred(r)] = "live" THEN "fill1" ELSE "rejected")
  /\ UNCHANGED <<limiter, admin, login, stores, caches, ghosts, faults>>

\* resolveSession, the SET with a full SESSION_TTL_SECONDS.
SessionFill(r) ==
  /\ At(r, "fill1")
  /\ Cred(r) \in Logins
  /\ session' = [session EXCEPT ![Cred(r)] = TRUE]
  /\ overlapped' = overlapped \cup ({Cred(r)} \cap ended)
  /\ request' = To(r, "accepted")
  /\ UNCHANGED <<limiter, admin, login, stores, verdict, ended, faults>>

-----------------------------------------------------------------------------
(* POST /auth/logout and POST /auth/tokens/:jti/revoke.                    *)

LogoutDelete(r) ==
  /\ At(r, "accepted")
  /\ Cred(r) \in Logins
  /\ row' = [row EXCEPT ![Cred(r)] = "gone"]
  /\ request' = To(r, "deleted")
  /\ UNCHANGED <<limiter, admin, login, role, revoked, caches, ghosts, faults>>

LogoutDel(r) ==
  /\ At(r, "deleted")
  /\ session' = [session EXCEPT ![Cred(r)] = FALSE]
  /\ ended' = ended \cup {Cred(r)}
  /\ request' = [request EXCEPT ![r] = Idle]
  /\ UNCHANGED <<limiter, admin, login, stores, verdict, overlapped, faults>>

\* The session is the bootstrap admin's; a token has the role it was issued
\* with.
RequireAdmin(r) == Cred(r) \in Tokens => role[Cred(r)] = "admin"

\* A jti is new, and its row is there before the token is handed out.
IssueApiToken(t, as) ==
  /\ role[t] = "none"
  /\ role' = [role EXCEPT ![t] = as]

\* POST /auth/tokens
PostTokens(r) ==
  /\ At(r, "accepted")
  /\ RequireAdmin(r)
  /\ \E t \in Tokens, as \in {"viewer", "admin"} : IssueApiToken(t, as)
  /\ request' = [request EXCEPT ![r] = Idle]
  /\ UNCHANGED <<limiter, admin, login, row, revoked, caches, ghosts, faults>>

\* An admin's request revokes a token, perhaps the one it came with: the
\* INSERT and the UPDATE that isRevoked reads with one SELECT.
RevokeInsert(r) ==
  /\ At(r, "accepted")
  /\ RequireAdmin(r)
  /\ \E t \in {x \in Tokens : role[x] # "none"} :
       /\ revoked' = revoked \cup {t}
       /\ request' = [request EXCEPT ![r] = [Idle EXCEPT !.pc = "revoking", !.cred = t]]
  /\ UNCHANGED <<limiter, admin, login, row, role, caches, ghosts, faults>>

\* Mutant: the revocation leaves Redis to the next check.
RevokeSetLater(r) ==
  /\ At(r, "revoking")
  /\ ended' = ended \cup {Cred(r)}
  /\ request' = [request EXCEPT ![r] = Idle]
  /\ UNCHANGED <<limiter, admin, login, stores, caches, overlapped, faults>>

RevokeSet(r) ==
  /\ At(r, "revoking")
  /\ verdict' = [verdict EXCEPT ![Cred(r)] = "1"]
  /\ ended' = ended \cup {Cred(r)}
  /\ request' = [request EXCEPT ![r] = Idle]
  /\ UNCHANGED <<limiter, admin, login, stores, session, overlapped, faults>>

-----------------------------------------------------------------------------
(* Expiries and failures.                                                  *)

\* expires_at of a session row passes; nothing else changes.
SessionExpires(l) ==
  /\ row[l] = "live"
  /\ row' = [row EXCEPT ![l] = "expired"]
  /\ UNCHANGED <<limiter, admin, login, role, revoked, caches, request, ghosts, faults>>

\* EX SESSION_TTL_SECONDS of a session key.
SessionKeyExpires(l) ==
  /\ session[l]
  /\ session' = [session EXCEPT ![l] = FALSE]
  /\ UNCHANGED <<limiter, admin, login, stores, verdict, request, ghosts, faults>>

\* Mutant: only the "1" is written with a time to live.
VerdictExpiresRevoked(t) ==
  /\ verdict[t] = "1"
  /\ verdict' = [verdict EXCEPT ![t] = "none"]
  /\ UNCHANGED <<limiter, admin, login, stores, session, request, ghosts, faults>>

\* EX 3600 of a revocation key.
VerdictExpires(t) ==
  /\ verdict[t] # "none"
  /\ verdict' = [verdict EXCEPT ![t] = "none"]
  /\ UNCHANGED <<limiter, admin, login, stores, session, request, ghosts, faults>>

\* The Redis call of a logout or a revocation fails; the client gets a 500.
CallFails(r) ==
  /\ faults < MaxFaults
  /\ request[r].pc \in {"deleted", "revoking"}
  /\ request' = [request EXCEPT ![r] = Idle]
  /\ faults' = faults + 1
  /\ UNCHANGED <<limiter, admin, login, stores, caches, ghosts>>

\* Redis comes back empty, without the script.
RedisRestart ==
  /\ faults < MaxFaults
  /\ faults' = faults + 1
  /\ limiter' = [limiter EXCEPT !.scripted = FALSE, !.tries = 0]
  /\ session' = [l \in Logins |-> FALSE]
  /\ verdict' = [t \in Tokens |-> "none"]
  /\ UNCHANGED <<admin, login, stores, request, ghosts>>

\* The server starts again and loads the script; what it was doing is cut off.
ServerRestart ==
  /\ faults < MaxFaults
  /\ faults' = faults + 1
  /\ limiter' = [limiter EXCEPT !.scripted = TRUE]
  /\ login' = [l \in Logins |-> CASE login[l] = "in" -> "in"
                                  [] login[l] \in {"inserted", "lost"} -> "lost"
                                  [] OTHER -> "idle"]
  /\ request' = [r \in Requests |-> Idle]
  /\ UNCHANGED <<admin, stores, caches, ghosts>>

\* What the server does for a request once it has arrived.
Handle(r) ==
  \/ TokenGet(r) \/ TokenSelect(r) \/ TokenFill(r)
  \/ SessionGet(r) \/ SessionSelect(r) \/ SessionFill(r)
  \/ LogoutDel(r) \/ RevokeSet(r)

Next ==
  \/ \E l \in Logins : Login(l) \/ SessionExpires(l) \/ SessionKeyExpires(l)
  \/ \E r \in Requests :
       Begin(r) \/ Handle(r) \/ LogoutDelete(r) \/ CallFails(r)
       \/ PostTokens(r) \/ RevokeInsert(r)
  \/ \E t \in Tokens : VerdictExpires(t)
  \/ WindowMoves \/ RedisRestart \/ ServerRestart

\* The server goes on with a request it has, and Redis drops expired keys.
Fairness ==
  /\ \A r \in Requests : WF_vars(Handle(r))
  /\ \A l \in Logins : WF_vars(SessionKeyExpires(l))
  /\ \A t \in Tokens : WF_vars(VerdictExpires(t))

Spec == Init /\ [][Next]_vars /\ Fairness

-----------------------------------------------------------------------------
\* A request that arrives after a logout or a revocation was answered is
\* refused, unless a check that read Postgres before it wrote its answer
\* into Redis after it: the one case where isRevoked and resolveSession
\* bring an ended credential back (destroySession, revokeToken).
RefusedOnceEnded ==
  \A r \in Requests : At(r, "accepted") /\ request[r].after => Cred(r) \in overlapped

\* Whatever the order of checks, expiries and failed Redis calls, a token in
\* token_revocations or a session whose row is deleted or expired is refused
\* for good at some point: the stale copies in Redis run out and no check
\* writes them again.
DeniedForGood ==
  /\ \A t \in Tokens : t \in revoked ~> [](verdict[t] # "0")
  /\ \A l \in Logins : row[l] \in {"gone", "expired"} ~> [](~session[l])
=============================================================================
