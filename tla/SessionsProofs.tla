--------------------------- MODULE SessionsProofs ---------------------------
(***************************************************************************)
(* Proofs about Sessions, for any number of logins, tokens and concurrent  *)
(* requests and any bounds.                                                *)
(*                                                                         *)
(* RefusedOnceEnded speaks of requests that have been accepted.  It is so  *)
(* because of what the two stores say of a credential that has ended, and  *)
(* of what a request on its way has read from them.                        *)
(***************************************************************************)
EXTENDS Sessions, TLAPS

Steps == {"idle", "get", "select", "fill0", "fill1", "accepted", "deleted", "revoking"}

RequestType == [pc : Steps, cred : Credentials \cup {NoCredential}, after : BOOLEAN]

(* The keys and rows of each store and the requests have the type the code
   gives them. *)
TypeOK ==
  /\ login \in [Logins -> {"idle", "seeding", "checking", "right", "inserted", "in", "lost"}]
  /\ row \in [Logins -> {"none", "live", "gone", "expired"}]
  /\ session \in [Logins -> BOOLEAN]
  /\ revoked \subseteq Tokens
  /\ verdict \in [Tokens -> {"none", "0", "1"}]
  /\ request \in [Requests -> RequestType]
  /\ ended \subseteq Credentials

(* A token whose revocation was answered is in Postgres; Redis says otherwise
   only when a slower check wrote it. *)
EndedTokens ==
  \A t \in Tokens : t \in ended => t \in revoked /\ (verdict[t] = "0" => t \in overlapped)

(* A session whose logout was answered has no live row; Redis has it only when
   a slower check wrote it. *)
EndedSessions ==
  \A l \in Logins : l \in ended =>
    login[l] = "in" /\ row[l] # "live" /\ (session[l] => l \in overlapped)

(* What the stage of a request says about its credential. *)
RequestOK(q) ==
  /\ q.pc # "idle" => q.cred \in Credentials
  /\ q.pc # "idle" /\ q.cred \in Logins => login[q.cred] = "in"
  /\ q.pc = "deleted" => q.cred \in Logins /\ row[q.cred] # "live"
  /\ q.pc = "revoking" => q.cred \in revoked
  /\ q.pc = "fill0" => q.cred \in Tokens

(* A request that came too late is past no check that would accept it, except
   with a credential that was written back. *)
LateOK(q) ==
  q.pc # "idle" /\ q.after =>
    /\ q.cred \in ended
    /\ q.pc # "fill0"
    /\ q.pc = "fill1" => q.cred \in Tokens
    /\ q.pc = "accepted" => q.cred \in overlapped

RequestsOK == \A r \in Requests : RequestOK(request[r]) /\ LateOK(request[r])

IInv == TypeOK /\ EndedTokens /\ EndedSessions /\ RequestsOK

-----------------------------------------------------------------------------
(* Nothing that the invariant says of a request that stands still is taken
   back: a login that is in stays in, a row that is not live stays so, and the
   sets only grow. *)
Forward ==
  /\ \A l \in Logins : login[l] = "in" => login'[l] = "in"
  /\ \A l \in Logins : login[l] = "in" /\ row[l] # "live" => row'[l] # "live"
  /\ revoked \subseteq revoked'
  /\ ended \subseteq ended'
  /\ overlapped \subseteq overlapped'

LEMMA RequestsKept ==
  ASSUME RequestsOK, Forward,
         \A r \in Requests : request'[r] = request[r] \/ (RequestOK(request[r]) /\ LateOK(request[r]))'
  PROVE  RequestsOK'
  BY DEF RequestsOK, RequestOK, LateOK, Forward

(* Both requests that end and requests not yet begun satisfy the invariant. *)
LEMMA IdleOK == RequestOK(Idle) /\ LateOK(Idle) /\ Idle \in RequestType
  BY DEF RequestOK, LateOK, Idle, RequestType, Steps

LEMMA InitIInv == Init => IInv
  BY IdleOK DEF Init, IInv, TypeOK, EndedTokens, EndedSessions, RequestsOK, RequestOK, LateOK,
     Idle, RequestType, Steps

(* The steps of a login, and the expiry of what it made. *)
LEMMA LoginStep ==
  ASSUME IInv, NEW l \in Logins, Login(l) \/ SessionExpires(l) \/ SessionKeyExpires(l)
  PROVE  IInv'
  <1> USE DEF IInv
  <1>1. Forward /\ request' = request /\ TypeOK'
    BY DEF Login, LooksForAdmin, EnsureBootstrapAdmin, AuthenticatePassword, SessionInsert,
       SessionSet, SessionExpires, SessionKeyExpires, TypeOK, Forward, stores, caches, ghosts
  <1>2. RequestsOK'
    BY <1>1, RequestsKept
  <1>3. EndedTokens'
    BY DEF Login, LooksForAdmin, EnsureBootstrapAdmin, AuthenticatePassword, SessionInsert,
       SessionSet, SessionExpires, SessionKeyExpires, EndedTokens, stores, caches, ghosts
  <1>4. EndedSessions'
    BY DEF Login, LooksForAdmin, EnsureBootstrapAdmin, AuthenticatePassword, SessionInsert,
       SessionSet, SessionExpires, SessionKeyExpires, EndedSessions, TypeOK, stores, caches, ghosts
  <1> QED
    BY <1>1, <1>2, <1>3, <1>4

(* A request arrives, or reads a store and goes on. *)
LEMMA ReadStep ==
  ASSUME IInv, NEW r \in Requests,
         Begin(r) \/ TokenGet(r) \/ TokenSelect(r) \/ SessionGet(r) \/ SessionSelect(r)
  PROVE  IInv'
  <1> USE DEF IInv
  <1>1. Forward /\ UNCHANGED <<login, stores, caches, ghosts>>
    BY DEF Begin, TokenGet, TokenSelect, SessionGet, SessionSelect, Forward, stores, caches, ghosts
  <1>2. request[r] \in RequestType /\ RequestOK(request[r]) /\ LateOK(request[r])
    BY DEF TypeOK, RequestsOK
  <1>3. EndedTokens' /\ EndedSessions'
    BY <1>1 DEF EndedTokens, EndedSessions, stores, caches, ghosts
  <1>4. TypeOK' /\ RequestsOK'
    <2>1. CASE Begin(r)
      <3>1. PICK x \in {t \in Tokens : role[t] # "none"} \cup {l \in Logins : login[l] = "in"} :
              request' = [request EXCEPT ![r] = [pc |-> "get", cred |-> x, after |-> x \in ended]]
        BY <2>1 DEF Begin
      <3> DEFINE q == [pc |-> "get", cred |-> x, after |-> x \in ended]
      <3>2. q \in RequestType
        BY DEF RequestType, Steps, Credentials
      <3>3. (RequestOK(request[r]) /\ LateOK(request[r]))'
        BY <1>1, <3>1, NamesAssumption
        DEF TypeOK, RequestOK, LateOK, Credentials, stores, caches, ghosts
      <3> QED
        BY <1>1, <3>1, <3>2, <3>3, RequestsKept DEF TypeOK, stores, caches, ghosts
    <2>2. CASE TokenGet(r)
      BY <1>1, <1>2, <2>2, RequestsKept, NamesAssumption
      DEF TokenGet, At, Cred, To, Idle, EndedTokens, TypeOK, RequestType, Steps, RequestOK, LateOK, Credentials, stores, caches, ghosts
    <2>3. CASE TokenSelect(r)
      BY <1>1, <1>2, <2>3, RequestsKept, NamesAssumption
      DEF TokenSelect, At, Cred, To, Idle, EndedTokens, TypeOK, RequestType, Steps, RequestOK, LateOK, Credentials, stores, caches, ghosts
    <2>4. CASE SessionGet(r)
      BY <1>1, <1>2, <2>4, RequestsKept, NamesAssumption
      DEF SessionGet, At, Cred, To, Idle, EndedSessions, TypeOK, RequestType, Steps, RequestOK, LateOK, Credentials, stores, caches, ghosts
    <2>5. CASE SessionSelect(r)
      BY <1>1, <1>2, <2>5, RequestsKept, NamesAssumption
      DEF SessionSelect, At, Cred, To, Idle, EndedSessions, TypeOK, RequestType, Steps, RequestOK, LateOK, Credentials, stores, caches, ghosts
    <2> QED
      BY <2>1, <2>2, <2>3, <2>4, <2>5
  <1> QED
    BY <1>3, <1>4

(* A check writes its answer into Redis. *)
LEMMA FillStep ==
  ASSUME IInv, NEW r \in Requests, TokenFill(r) \/ SessionFill(r)
  PROVE  IInv'
  <1> USE DEF IInv
  <1>1. Forward
    BY DEF TokenFill, SessionFill, Forward, stores
  <1>2. request[r] \in RequestType /\ RequestOK(request[r]) /\ LateOK(request[r])
    BY DEF TypeOK, RequestsOK
  <1>3. CASE TokenFill(r)
    <2>1. EndedTokens' /\ EndedSessions'
      BY <1>2, <1>3 DEF TokenFill, At, Cred, TypeOK, EndedTokens, EndedSessions, RequestOK, LateOK, stores
    <2>2. TypeOK' /\ RequestsOK'
      BY <1>1, <1>2, <1>3, RequestsKept, NamesAssumption
      DEF TokenFill, At, Cred, To, Idle, TypeOK, RequestType, Steps, RequestOK, LateOK, stores
    <2> QED
      BY <2>1, <2>2
  <1>4. CASE SessionFill(r)
    <2>1. EndedTokens' /\ EndedSessions'
      BY <1>2, <1>4 DEF SessionFill, At, Cred, TypeOK, EndedTokens, EndedSessions, stores
    <2>2. TypeOK' /\ RequestsOK'
      BY <1>1, <1>2, <1>4, RequestsKept, NamesAssumption
      DEF SessionFill, At, Cred, To, Idle, TypeOK, RequestType, Steps, RequestOK, LateOK, stores
    <2> QED
      BY <2>1, <2>2
  <1> QED
    BY <1>3, <1>4

(* Logout and revocation, up to their answers. *)
LEMMA EndStep ==
  ASSUME IInv, NEW r \in Requests,
         LogoutDelete(r) \/ LogoutDel(r) \/ RevokeInsert(r) \/ RevokeSet(r)
  PROVE  IInv'
  <1> USE DEF IInv
  <1>1. request[r] \in RequestType /\ RequestOK(request[r]) /\ LateOK(request[r])
    BY DEF TypeOK, RequestsOK
  <1>2. CASE LogoutDelete(r)
    <2>1. Forward /\ EndedTokens' /\ EndedSessions'
      BY <1>2 DEF LogoutDelete, Forward, TypeOK, EndedTokens, EndedSessions, caches, ghosts
    <2>2. TypeOK' /\ RequestsOK'
      BY <1>1, <1>2, <2>1, RequestsKept
      DEF LogoutDelete, At, Cred, To, TypeOK, RequestType, Steps, RequestOK, LateOK, caches, ghosts
    <2> QED
      BY <2>1, <2>2
  <1>3. CASE LogoutDel(r)
    <2>1. Forward /\ EndedTokens' /\ EndedSessions'
      BY <1>1, <1>3, NamesAssumption
      DEF LogoutDel, At, Cred, Forward, TypeOK, EndedTokens, EndedSessions, RequestOK, stores
    <2>2. TypeOK' /\ RequestsOK'
      BY <1>1, <1>3, <2>1, RequestsKept
      DEF LogoutDel, At, Cred, Idle, TypeOK, RequestType, Steps, RequestOK, LateOK, Credentials, stores
    <2> QED
      BY <2>1, <2>2
  <1>4. CASE RevokeInsert(r)
    <2>1. PICK t \in Tokens :
            /\ revoked' = revoked \cup {t}
            /\ request' = [request EXCEPT ![r] = [Idle EXCEPT !.pc = "revoking", !.cred = t]]
      BY <1>4 DEF RevokeInsert
    <2>2. Forward /\ EndedTokens' /\ EndedSessions'
      BY <1>4, <2>1 DEF RevokeInsert, Forward, TypeOK, EndedTokens, EndedSessions, caches, ghosts
    <2>3. TypeOK' /\ RequestsOK'
      BY <1>1, <1>4, <2>1, <2>2, RequestsKept, NamesAssumption
      DEF RevokeInsert, Idle, TypeOK, RequestType, Steps, RequestOK, LateOK, Credentials, caches, ghosts
    <2> QED
      BY <2>2, <2>3
  <1>5. CASE RevokeSet(r)
    <2>1. Forward /\ EndedTokens' /\ EndedSessions'
      BY <1>1, <1>5, NamesAssumption
      DEF RevokeSet, At, Cred, Forward, TypeOK, EndedTokens, EndedSessions, RequestOK, stores
    <2>2. TypeOK' /\ RequestsOK'
      BY <1>1, <1>5, <2>1, RequestsKept
      DEF RevokeSet, At, Cred, Idle, TypeOK, RequestType, Steps, RequestOK, LateOK, Credentials, stores
    <2> QED
      BY <2>1, <2>2
  <1> QED
    BY <1>2, <1>3, <1>4, <1>5

(* The steps that end requests without an answer about a credential, or take
   keys out of Redis. *)
LEMMA LossStep ==
  ASSUME IInv,
         \/ \E r \in Requests : PostTokens(r) \/ CallFails(r)
         \/ \E t \in Tokens : VerdictExpires(t)
         \/ WindowMoves \/ RedisRestart \/ ServerRestart
         \/ UNCHANGED vars
  PROVE  IInv'
  <1> USE DEF IInv
  <1>1. Forward /\ EndedTokens' /\ EndedSessions'
    BY DEF PostTokens, CallFails, VerdictExpires, WindowMoves, RedisRestart, ServerRestart, vars,
       Forward, TypeOK, EndedTokens, EndedSessions, stores, caches, ghosts
  <1>2. \A r \in Requests : request'[r] = request[r] \/ request'[r] = Idle
    BY DEF PostTokens, CallFails, VerdictExpires, WindowMoves, RedisRestart, ServerRestart, vars,
       TypeOK
  <1>3. (RequestOK(Idle) /\ LateOK(Idle))'
    BY DEF RequestOK, LateOK, Idle
  <1>4. RequestsOK'
    BY <1>1, <1>2, <1>3, RequestsKept
  <1>5. request' \in [Requests -> RequestType]
    BY IdleOK
    DEF PostTokens, CallFails, VerdictExpires, WindowMoves, RedisRestart, ServerRestart, vars, TypeOK
  <1>6. login' \in [Logins -> {"idle", "seeding", "checking", "right", "inserted", "in", "lost"}]
    BY DEF PostTokens, CallFails, VerdictExpires, WindowMoves, RedisRestart, ServerRestart, vars, TypeOK
  <1>7. UNCHANGED <<row, revoked>> /\ ended' = ended
    BY DEF PostTokens, CallFails, VerdictExpires, WindowMoves, RedisRestart, ServerRestart, vars,
           stores, ghosts
  <1>8. session' \in [Logins -> BOOLEAN] /\ verdict' \in [Tokens -> {"none", "0", "1"}]
    BY DEF PostTokens, CallFails, VerdictExpires, WindowMoves, RedisRestart, ServerRestart, vars,
           TypeOK, caches
  <1>9. TypeOK'
    BY <1>5, <1>6, <1>7, <1>8 DEF TypeOK
  <1> QED
    BY <1>1, <1>4, <1>9

LEMMA NextIInv == IInv /\ [Next]_vars => IInv'
  BY LoginStep, ReadStep, FillStep, EndStep, LossStep DEF Next, Handle

(* What is logged out or revoked is refused to every request that arrives after
   the answer, unless a check that was under way wrote it back: the checks of
   isRevoked and resolveSession against destroySession and revokeToken, for any
   number of sessions, tokens, concurrent requests, restarts and failed calls. *)
THEOREM RefusedOnceEndedThm == Spec => []RefusedOnceEnded
  <1>1. IInv => RefusedOnceEnded
    BY DEF IInv, RequestsOK, LateOK, RefusedOnceEnded, At, Cred
  <1> QED
    BY <1>1, InitIInv, NextIInv, PTL DEF Spec
=============================================================================
