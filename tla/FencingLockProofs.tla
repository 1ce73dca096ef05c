------------------------- MODULE FencingLockProofs -------------------------
(***************************************************************************)
(* Proofs about FencingLock, for any number of keys, owners, processes and *)
(* concurrent calls and any bounds.                                        *)
(*                                                                         *)
(* TokenOwnerUnique is not inductive: it speaks of the ledger, and what    *)
(* keeps it true is in Redis and in the calls that have run their script   *)
(* and not yet written their row.  The invariant therefore speaks of every *)
(* token issued, in the ledger or on its way there.                        *)
(*                                                                         *)
(* Nor is AcceptedIsNewest: validation goes by timestamps, so its          *)
(* invariant orders the timestamps of transactions like their tokens, and  *)
(* says why the token of an acquire stays the newest until its BEGIN.      *)
(***************************************************************************)
EXTENDS FencingLock, TLAPS

CallType ==
    [pc : Stages, key : Keys \cup {NoKey}, owner : Owners \cup {System, NoOwner},
     tok : Token, reason : Reasons, at : Nat, keys : SUBSET Keys]

(* What the stage of a call says about its fields. *)
CallFields(f) ==
    /\ f.pc \in Acquiring \cup {"abort", "unledger"} => f.key \in Keys /\ f.owner \in Owners
    /\ f.pc \in Reclaiming => f.key \in Keys /\ f.owner = System
    /\ f.pc \in Acquiring => f.reason \in AcquireReasons
    /\ f.pc \in Reclaiming => f.reason \in ReclaimReasons

CallOK == \A c \in Calls : CallFields(call[c])

TypeInv == TypeOK /\ CallOK

-----------------------------------------------------------------------------
(* Type correctness *)

LEMMA InitTypeInv == Init => TypeInv
  BY NamesAssumption, CallsAssumption
  DEF Init, TypeInv, TypeOK, CallOK, CallFields, IdleCall, NoToken, NoId, NoRow, Token, Stages,
      Acquiring, Reclaiming, Rotating, Reasons, AcquireReasons, ReclaimReasons, Row

(* A call that moves to well-formed fields keeps all calls well-formed. *)
LEMMA CallUpdate ==
  ASSUME call \in [Calls -> CallType], CallOK,
         NEW c \in Calls, NEW r \in CallType, CallFields(r),
         call' = [call EXCEPT ![c] = r]
  PROVE  call' \in [Calls -> CallType] /\ CallOK'
  BY DEF CallOK

(* The history names tokens of calls. *)
LEMMA OvertakeType ==
  ASSUME TypeOK, NEW k \in Keys, Overtake(k)
  PROVE  overtaken' \subseteq [key : Keys, tok : Token] /\ overtaken \subseteq overtaken'
  BY DEF Overtake, InFlight, TypeOK

(* release_lock.lua keeps the types of the keys it deletes. *)
LEMMA ReleaseScriptType ==
  ASSUME TypeOK, NEW k \in Keys, NEW o, ReleaseScript(k, o)
  PROVE  /\ lock' \in [Keys -> Owners \cup {NoOwner}] /\ token' \in [Keys -> Token]
         /\ overtaken' \subseteq [key : Keys, tok : Token] /\ overtaken \subseteq overtaken'
  <1>1. NoToken \in Token
    BY DEF NoToken, NoId, Token
  <1>2. CASE lock[k] = o
    <2>1. overtaken' \subseteq [key : Keys, tok : Token] /\ overtaken \subseteq overtaken'
      BY <1>2, OvertakeType DEF ReleaseScript
    <2> QED BY <1>1, <1>2, <2>1 DEF ReleaseScript, TypeOK
  <1>3. CASE lock[k] # o
    BY <1>3 DEF ReleaseScript, TypeOK
  <1> QED
    BY <1>2, <1>3

LEMMA NextTypeInv == TypeInv /\ [Next]_vars => TypeInv'
  <1> SUFFICES ASSUME TypeInv, [Next]_vars PROVE TypeInv'
    OBVIOUS
  <1> USE NamesAssumption, CallsAssumption, BoundsAssumption
      DEF TypeInv, TypeOK, CallOK, CallFields, CallType, vars, redisVars, pgVars, envVars,
          IdleCall, NoToken, NoId, NoRow, Token, Stages, Acquiring, Reclaiming, Rotating,
          Reasons, AcquireReasons, ReclaimReasons, Row
  <1>1. ASSUME NEW p \in Procs, EnsureInstanceId(p)
        PROVE  TypeInv'
    <2>1. CASE redisId # NoId
      BY <1>1, <2>1 DEF EnsureInstanceId
    <2>2. CASE redisId = NoId
      BY <1>1, <2>2 DEF EnsureInstanceId
    <2> QED
      BY <2>1, <2>2
  <1>3. ASSUME NEW c \in Calls, CheckRedisFailover(c)
        PROVE  TypeInv'
    <2>1. call' \in [Calls -> CallType] /\ CallOK' /\ nextId' \in Nat
      <3>1. CASE redisId = NoId
        <4> DEFINE r == [IdleCall EXCEPT !.pc = "restore",
                                         !.tok = [inst |-> pgId, ctr |-> 0]]
        <4>1. r \in CallType /\ CallFields(r)
          OBVIOUS
        <4>2. call' = [call EXCEPT ![c] = r] /\ nextId' = nextId
          BY <1>3, <3>1 DEF CheckRedisFailover
        <4> HIDE DEF r
        <4> QED
          BY <4>1, <4>2, CallUpdate
      <3>2. CASE redisId # NoId
        <4> DEFINE r == [IdleCall EXCEPT !.pc = "fbegin",
                                         !.tok = [inst |-> nextId, ctr |-> 0],
                                         !.keys = {k \in Keys : pgLocks[k] # NoRow}]
        <4>1. r \in CallType /\ CallFields(r)
          OBVIOUS
        <4>2. call' = [call EXCEPT ![c] = r] /\ nextId' = nextId + 1
          BY <1>3, <3>2 DEF CheckRedisFailover
        <4> HIDE DEF r
        <4> QED
          BY <4>1, <4>2, CallUpdate
      <3> QED
        BY <3>1, <3>2
    <2> QED
      BY <1>3, <2>1 DEF CheckRedisFailover
  <1>4. ASSUME NEW c \in Calls, RestoreInstanceId(c)
        PROVE  TypeInv'
    BY <1>4 DEF RestoreInstanceId
  <1>5. ASSUME NEW c \in Calls, Begin(c)
        PROVE  TypeInv'
    BY <1>5 DEF Begin
  <1>6. ASSUME NEW c \in Calls, RotateCommit(c)
        PROVE  TypeInv'
    <2>1. FailoverLedgerRows(c) \subseteq Row
      BY DEF FailoverLedgerRows
    <2>2. pgLocks' \in [Keys -> [owner : Owners \cup {NoOwner}, tok : Token]]
      BY <1>6 DEF RotateCommit
    <2>3. call' \in [Calls -> CallType] /\ CallOK'
      <3> DEFINE r == [call[c] EXCEPT !.pc = "fset"]
      <3>1. r \in CallType /\ CallFields(r)
        <4>1. call[c] \in CallType
          OBVIOUS
        <4> QED
          BY <4>1
      <3>2. call' = [call EXCEPT ![c] = r]
        BY <1>6 DEF RotateCommit
      <3> QED
        BY <3>1, <3>2, CallUpdate
    <2> QED
      BY <1>6, <2>1, <2>2, <2>3 DEF RotateCommit
  <1>7. ASSUME NEW c \in Calls, RotateSet(c)
        PROVE  TypeInv'
    BY <1>7 DEF RotateSet
  <1>8. ASSUME NEW c \in Calls, NEW k \in Keys, NEW o \in Owners, AcquireFree(c, k, o)
        PROVE  TypeInv'
    <2> DEFINE r == [IdleCall EXCEPT !.pc = "begin", !.key = k, !.owner = o,
                                     !.tok = NextToken(k), !.reason = "ACQUIRED"]
    <2>1. NextToken(k) \in Token
      BY DEF NextToken
    <2>2. r \in CallType /\ CallFields(r)
      BY <2>1
    <2>3. call' = [call EXCEPT ![c] = r]
      BY <1>8 DEF AcquireFree
    <2>4. call' \in [Calls -> CallType] /\ CallOK'
      BY <2>2, <2>3
    <2> QED
      BY <1>8, <2>1, <2>4 DEF AcquireFree
  <1>9. ASSUME NEW c \in Calls, NEW k \in Keys, NEW o \in Owners, AcquireReentrant(c, k, o)
        PROVE  TypeInv'
    <2> DEFINE t == IF token[k] # NoToken THEN token[k] ELSE NextToken(k)
               r == [IdleCall EXCEPT !.pc = "begin", !.key = k, !.owner = o,
                                     !.tok = t, !.reason = "REENTRANT"]
    <2>1. t \in Token
      BY DEF NextToken
    <2> HIDE DEF t
    <2>2. r \in CallType /\ CallFields(r)
      BY <2>1
    <2>3. call' = [call EXCEPT ![c] = r] /\ token' = [token EXCEPT ![k] = t]
      BY <1>9 DEF AcquireReentrant, t
    <2>4. call' \in [Calls -> CallType] /\ CallOK'
      BY <2>2, <2>3
    <2>5. counter' \in [Keys -> Nat]
      BY <1>9 DEF AcquireReentrant
    <2> QED
      BY <1>9, <2>1, <2>3, <2>4, <2>5 DEF AcquireReentrant
  <1>10. ASSUME NEW c \in Calls, AcquireCommit(c)
        PROVE  TypeInv'
    BY <1>10 DEF DoubleWrite, AcquireCommit
  <1>11. ASSUME NEW c \in Calls, AcquireFails(c)
        PROVE  TypeInv'
    <2>1. call' \in [Calls -> CallType] /\ CallOK'
      <3> DEFINE r == [call[c] EXCEPT !.pc = "abort"]
      <3>1. r \in CallType /\ CallFields(r)
        <4>1. call[c] \in CallType /\ call[c].pc \in Acquiring /\ CallFields(call[c])
          BY <1>11 DEF AcquireFails
        <4> QED
          BY <4>1
      <3>2. call' = [call EXCEPT ![c] = r]
        BY <1>11 DEF AcquireFails
      <3> QED
        BY <3>1, <3>2, CallUpdate
    <2>a. /\ faults' \in Nat
          /\ UNCHANGED <<redisVars, pgId, clock, cachedId, nextId, promotions, losses, overtaken>>
      BY <1>11 DEF AcquireFails
    <2>2. CASE DoubleWrite(c) /\ call[c].pc = "commit"
      <3>1. call[c].key \in Keys /\ call[c].owner \in Owners /\ call[c].tok \in Token
        BY <2>2
      <3>2. ledger' \subseteq Row
        BY <2>2, <3>1 DEF DoubleWrite
      <3>3. pgLocks' \in [Keys -> [owner : Owners \cup {NoOwner}, tok : Token]]
        BY <2>2, <3>1 DEF DoubleWrite
      <3> QED
        BY <2>1, <2>a, <3>2, <3>3
    <2>3. CASE UNCHANGED <<ledger, pgLocks>>
      BY <2>1, <2>3, <2>a
    <2> QED
      BY <1>11, <2>2, <2>3 DEF AcquireFails
  <1>12. ASSUME NEW c \in Calls, AcquireAbort(c)
        PROVE  TypeInv'
    <2>1. call' \in [Calls -> CallType] /\ CallOK'
      BY <1>12 DEF AcquireAbort
    <2>2. /\ lock' \in [Keys -> Owners \cup {NoOwner}]
          /\ token' \in [Keys -> Token]
          /\ overtaken' \subseteq [key : Keys, tok : Token]
      BY <1>12, ReleaseScriptType DEF AcquireAbort
    <2> QED
      BY <1>12, <2>1, <2>2 DEF AcquireAbort
  <1>13. ASSUME NEW c \in Calls, NEW k \in Keys, NEW o \in Owners, ReleaseRedis(c, k, o)
        PROVE  TypeInv'
    <2> DEFINE r == [IdleCall EXCEPT !.pc = "unledger", !.key = k, !.owner = o]
    <2>1. r \in CallType /\ CallFields(r)
      OBVIOUS
    <2>2. call' \in [Calls -> CallType] /\ CallOK'
      BY <1>13, <2>1 DEF ReleaseRedis
    <2>3. /\ lock' \in [Keys -> Owners \cup {NoOwner}]
          /\ token' \in [Keys -> Token]
          /\ overtaken' \subseteq [key : Keys, tok : Token]
      BY <1>13, ReleaseScriptType DEF ReleaseRedis
    <2> QED
      BY <1>13, <2>2, <2>3 DEF ReleaseRedis
  <1>14. ASSUME NEW c \in Calls, ReleasePg(c)
        PROVE  TypeInv'
    BY <1>14 DEF ReleasePg
  <1>15. ASSUME NEW c \in Calls, NEW k \in Keys, NEW reason \in ReclaimReasons, ReclaimRedis(c, k, reason)
        PROVE  TypeInv'
    <2> DEFINE r == [IdleCall EXCEPT !.pc = "rbegin", !.key = k, !.owner = System,
                                     !.tok = NextToken(k), !.reason = reason]
    <2>1. NextToken(k) \in Token
      BY DEF NextToken
    <2>2. r \in CallType /\ CallFields(r)
      BY <2>1
    <2>3. call' = [call EXCEPT ![c] = r]
      BY <1>15 DEF ReclaimRedis
    <2>4. call' \in [Calls -> CallType] /\ CallOK'
      BY <2>2, <2>3
    <2>5. overtaken' \subseteq [key : Keys, tok : Token]
      BY <1>15, OvertakeType DEF ReclaimRedis
    <2> QED
      BY <1>15, <2>1, <2>4, <2>5 DEF ReclaimRedis
  <1>16. ASSUME NEW c \in Calls, ReclaimCommit(c)
        PROVE  TypeInv'
    BY <1>16 DEF ReclaimCommit
  <1>17. ASSUME NEW c \in Calls, CallFails(c)
        PROVE  TypeInv'
    BY <1>17 DEF CallFails
  <1>18. ASSUME NEW k \in Keys, LockExpires(k)
        PROVE  TypeInv'
    <2>1. overtaken' \subseteq [key : Keys, tok : Token]
      BY <1>18, OvertakeType DEF LockExpires
    <2> QED BY <1>18, <2>1 DEF LockExpires
  <1>19. ASSUME NEW k \in Keys, TokenExpires(k)
        PROVE  TypeInv'
    <2>1. overtaken' \subseteq [key : Keys, tok : Token]
      BY <1>19, OvertakeType DEF TokenExpires
    <2> QED BY <1>19, <2>1 DEF TokenExpires
  <1>20. ASSUME NEW p \in Procs, Crash(p)
        PROVE  TypeInv'
    BY <1>20 DEF Crash
  <1>21. CASE PromoteMaster
    BY <1>21 DEF EmptyRedis, PromoteMaster
  <1>22. CASE LoseRedis
    BY <1>22 DEF EmptyRedis, LoseRedis
  <1>23. CASE UNCHANGED vars
    BY <1>23
  <1> HIDE DEF TypeInv, TypeOK, CallOK, CallFields, CallType, vars, redisVars, pgVars, envVars,
          IdleCall, NoToken, NoId, NoRow, Token, Stages, Acquiring, Reclaiming, Rotating,
          Reasons, AcquireReasons, ReclaimReasons, Row
  <1> QED
    BY <1>1, <1>3, <1>4, <1>5, <1>6, <1>7, <1>8, <1>9, <1>10, <1>11, <1>12,
       <1>13, <1>14, <1>15, <1>16, <1>17, <1>18, <1>19, <1>20, <1>21, <1>22, <1>23
    DEF Next, ServiceStep, Request, Environment

(* Every variable keeps its type (FencingLock!TypeOK), for every instance of
   the service: in particular no script ever leaves "system" in a lock key. *)
THEOREM TypeCorrect == Spec => []TypeOK
  <1>1. TypeInv => TypeOK
    BY DEF TypeInv
  <1> QED
    BY <1>1, InitTypeInv, NextTypeInv, PTL DEF Spec

-----------------------------------------------------------------------------
(* One owner per token *)

Issuing == Acquiring \cup Reclaiming

(* The tokens of locks that were issued and still matter: those in the ledger
   and those of calls that are about to write it. *)
Issued ==
    {[key |-> r.key, owner |-> r.owner, tok |-> r.tok] :
        r \in {s \in ledger : s.reason # "FAILOVER"}}
    \cup
    {[key |-> call[c].key, owner |-> call[c].owner, tok |-> call[c].tok] :
        c \in {d \in Calls : call[d].pc \in Issuing}}

(* A token t of key k was made by INCR under an id that Redis has or had. *)
Minted(k, t) ==
    /\ t.ctr >= 1 /\ t.inst < nextId
    /\ t.inst = redisId => t.ctr <= counter[k]
    /\ \A c \in Calls : call[c].pc \in Rotating => call[c].tok.inst # t.inst

(* Redis has an id for good once it has one, so none is ever restored, and a
   rotation in progress carries an id of its own that Redis never had. *)
IdInv ==
    /\ redisId < nextId /\ pgId < nextId
    /\ pgId # NoId
    /\ \A c \in Calls : call[c].pc # "restore"
    /\ \A c \in Calls : call[c].pc \in Rotating =>
          /\ redisId # NoId
          /\ call[c].tok.inst # redisId /\ call[c].tok.inst < nextId
          /\ call[c].tok.inst # NoId /\ call[c].tok.ctr = 0
    /\ \A c, d \in Calls :
          call[c].pc \in Rotating /\ call[d].pc \in Rotating /\ c # d
          => call[c].tok.inst # call[d].tok.inst

(* Before Redis has an id no process knows one and no token was issued. *)
Booted == redisId = NoId => \A p \in Procs : cachedId[p] = NoId

Fresh == redisId = NoId => Issued = {} /\ \A k \in Keys : token[k] = NoToken

IssuedMinted == \A i \in Issued : i.key \in Keys /\ i.tok \in Token /\ Minted(i.key, i.tok)

TokenMinted == \A k \in Keys : token[k] # NoToken => Minted(k, token[k])

IssuedUnique ==
    \A i, j \in Issued : i.key = j.key /\ i.tok = j.tok => i.owner = j.owner

(* The token stored beside a lock that is held was issued to nobody but its
   holder, so that a reentrant acquire may hand it out again. *)
HeldToken ==
    \A i \in Issued :
        lock[i.key] # NoOwner /\ token[i.key] # NoToken /\ i.tok = token[i.key]
        => i.owner = lock[i.key]

FailoverRows ==
    \A r \in ledger : IF r.reason = "FAILOVER" THEN r.tok.ctr = 0 /\ r.owner = System
                                               ELSE r.key \in Keys

IInv == /\ TypeInv /\ IdInv /\ IssuedMinted /\ TokenMinted
        /\ IssuedUnique /\ HeldToken /\ FailoverRows /\ Booted /\ Fresh

-----------------------------------------------------------------------------
(* A step that hands out no token: rows come from calls that were issuing, and
   calls that are issuing were so before, with the same token. *)
NoIssue ==
    /\ \A r \in ledger' : \/ r.reason = "FAILOVER"
                          \/ r \in ledger
                          \/ \E c \in Calls : /\ call[c].pc \in Issuing
                                              /\ r.key = call[c].key
                                              /\ r.owner = call[c].owner
                                              /\ r.tok = call[c].tok
    /\ \A c \in Calls : call'[c].pc \in Issuing =>
          /\ call[c].pc \in Issuing /\ call'[c].key = call[c].key
          /\ call'[c].owner = call[c].owner /\ call'[c].tok = call[c].tok

LEMMA IssuedShrinks ==
  ASSUME NoIssue
  PROVE  Issued' \subseteq Issued
  <1> SUFFICES ASSUME NEW i \in Issued' PROVE i \in Issued
    OBVIOUS
  <1>1. CASE \E r \in ledger' : /\ r.reason # "FAILOVER"
                               /\ i = [key |-> r.key, owner |-> r.owner, tok |-> r.tok]
    <2> PICK r \in ledger' : /\ r.reason # "FAILOVER"
                             /\ i = [key |-> r.key, owner |-> r.owner, tok |-> r.tok]
      BY <1>1
    <2>1. CASE r \in ledger
      BY <2>1 DEF Issued
    <2>2. CASE \E c \in Calls : /\ call[c].pc \in Issuing /\ r.key = call[c].key
                               /\ r.owner = call[c].owner /\ r.tok = call[c].tok
      BY <2>2 DEF Issued
    <2> QED
      BY <2>1, <2>2 DEF NoIssue
  <1>2. CASE \E c \in Calls : /\ call'[c].pc \in Issuing
                             /\ i = [key |-> call'[c].key, owner |-> call'[c].owner,
                                     tok |-> call'[c].tok]
    BY <1>2 DEF Issued, NoIssue
  <1> QED
    BY <1>1, <1>2 DEF Issued

(* A minted token stays so while Redis counts on under its id, or when Redis
   has another. *)
LEMMA MintedKept ==
  ASSUME NEW k \in Keys, NEW t \in Token, Minted(k, t), TypeOK, TypeOK',
         nextId <= nextId',
         \/ redisId' = redisId /\ counter[k] <= counter'[k]
         \/ t.inst # redisId',
         \A c \in Calls : call'[c].pc \in Rotating =>
            \/ call[c].pc \in Rotating /\ call'[c].tok = call[c].tok
            \/ call'[c].tok.inst >= nextId
  PROVE  Minted(k, t)'
  <1>1. t.ctr >= 1 /\ t.inst < nextId'
    BY DEF Minted, Token, TypeOK
  <1>2. t.inst = redisId' => t.ctr <= counter'[k]
    BY DEF Minted, Token, TypeOK
  <1>3. ASSUME NEW c \in Calls, call'[c].pc \in Rotating
        PROVE  call'[c].tok.inst # t.inst
    <2>1. CASE call[c].pc \in Rotating /\ call'[c].tok = call[c].tok
      BY <2>1 DEF Minted
    <2>2. CASE call'[c].tok.inst >= nextId
      <3>1. t.inst < nextId /\ t.inst \in Nat /\ nextId \in Nat
        BY DEF Minted, Token, TypeOK
      <3> QED
        BY <2>2, <3>1
    <2> QED
      BY <1>3, <2>1, <2>2
  <1> QED
    BY <1>1, <1>2, <1>3 DEF Minted

(* The invariant survives a step that hands out no token, whose new Redis id,
   if any, is no id of a token, and whose new rotations have new ids. *)
LEMMA NonIssuingStep ==
  ASSUME IInv, TypeInv', IdInv', FailoverRows', NoIssue, nextId <= nextId',
         Booted', redisId' = NoId => redisId = NoId,
         \A k \in Keys : /\ lock'[k] \in {lock[k], NoOwner}
                         /\ token'[k] \in {token[k], NoToken},
         \/ UNCHANGED <<redisId, counter>>
         \/ /\ \A i \in Issued : i.tok.inst # redisId'
            /\ \A k \in Keys : token[k] # NoToken => token[k].inst # redisId',
         \A c \in Calls : call'[c].pc \in Rotating =>
            \/ call[c].pc \in Rotating /\ call'[c].tok = call[c].tok
            \/ call'[c].tok.inst >= nextId
  PROVE  IInv'
  <1>1. Issued' \subseteq Issued
    BY IssuedShrinks
  <1>2. TypeOK /\ TypeOK'
    BY DEF IInv, TypeInv
  <1>3. IssuedMinted'
    <2> SUFFICES ASSUME NEW i \in Issued'
                 PROVE  i.key \in Keys /\ i.tok \in Token /\ Minted(i.key, i.tok)'
      BY DEF IssuedMinted
    <2>1. i \in Issued /\ i.key \in Keys /\ i.tok \in Token /\ Minted(i.key, i.tok)
      BY <1>1 DEF IInv, IssuedMinted
    <2>2. \/ redisId' = redisId /\ counter[i.key] <= counter'[i.key]
          \/ i.tok.inst # redisId'
      BY <1>2, <2>1 DEF TypeOK
    <2> QED
      BY <1>2, <2>1, <2>2, MintedKept
  <1>4. TokenMinted'
    <2> SUFFICES ASSUME NEW k \in Keys, token'[k] # NoToken PROVE Minted(k, token[k])'
      BY DEF TokenMinted
    <2>1. token'[k] = token[k] /\ token[k] \in Token /\ Minted(k, token[k])
      BY <1>2 DEF IInv, TokenMinted, TypeOK
    <2>2. \/ redisId' = redisId /\ counter[k] <= counter'[k]
          \/ token[k].inst # redisId'
      BY <1>2, <2>1 DEF TypeOK
    <2> DEFINE t == token[k]
    <2>3. ASSUME NEW u \in Token, u = t PROVE Minted(k, u)'
      BY <1>2, <2>1, <2>2, <2>3, MintedKept
    <2> QED
      BY <2>1, <2>3 DEF Minted
  <1>5. IssuedUnique'
    BY <1>1 DEF IInv, IssuedUnique
  <1>6. HeldToken'
    BY <1>1, <1>3 DEF IInv, HeldToken, IssuedMinted
  <1>7. Fresh'
    BY <1>1 DEF IInv, Fresh
  <1> QED
    BY <1>3, <1>4, <1>5, <1>6, <1>7 DEF IInv

(* What a step by which call c hands out the token t of key k to o must meet:
   nobody else was given t, and the lock is then held by o or by nobody. *)
Issues(c, k, o, t) ==
  /\ UNCHANGED <<redisId, pgId, nextId, ledger>> /\ redisId # NoId
  /\ call[c].pc = "idle" /\ \A d \in Calls : d # c => call'[d] = call[d]
  /\ call'[c].pc \in Issuing
  /\ call'[c].key = k /\ call'[c].owner = o /\ call'[c].tok = t
  /\ t \in Token /\ t.ctr >= 1 /\ t.inst < nextId
  /\ t.inst = redisId => t.ctr <= counter'[k]
  /\ \A l \in Keys : counter[l] <= counter'[l]
  /\ \A i \in Issued : i.key = k /\ i.tok = t => i.owner = o
  /\ \A d \in Calls : call[d].pc \in Rotating => call[d].tok.inst # t.inst
  /\ token' = [token EXCEPT ![k] = t]
  /\ lock'[k] \in {o, NoOwner} /\ \A l \in Keys \ {k} : lock'[l] = lock[l]

(* The invariant survives such a step. *)
LEMMA IssuingStep ==
  ASSUME IInv, TypeInv', Booted', NEW c \in Calls, NEW k \in Keys, NEW o, NEW t, Issues(c, k, o, t)
  PROVE  IInv'
  <1> USE DEF Issues
  <1> DEFINE n == [key |-> k, owner |-> o, tok |-> t]
  <1>1. TypeOK /\ TypeOK' /\ NoToken \in Token
    BY DEF IInv, TypeInv, NoToken, NoId, Token
  <1>2. "idle" \notin Issuing /\ Issuing \cap Rotating = {} /\ "restore" \notin Issuing
    BY DEF Issuing, Acquiring, Reclaiming, Rotating
  <1>3. Issued' \subseteq Issued \cup {n}
    <2> SUFFICES ASSUME NEW i \in Issued', i # n PROVE i \in Issued
      OBVIOUS
    <2>1. CASE \E q \in ledger : /\ q.reason # "FAILOVER"
                                /\ i = [key |-> q.key, owner |-> q.owner, tok |-> q.tok]
      BY <2>1 DEF Issued
    <2>2. CASE \E d \in Calls : /\ call'[d].pc \in Issuing
                               /\ i = [key |-> call'[d].key, owner |-> call'[d].owner,
                                       tok |-> call'[d].tok]
      BY <2>2 DEF Issued
    <2> QED
      BY <2>1, <2>2 DEF Issued
  <1>4. \A d \in Calls : call'[d].pc \in Rotating => call[d].pc \in Rotating /\ call'[d] = call[d]
    BY <1>2
  <1>5. IdInv'
    BY <1>2, <1>4 DEF IInv, IdInv
  <1>6. Minted(k, t)'
    BY <1>4 DEF Minted
  <1>7. ASSUME NEW l \in Keys, NEW u \in Token, Minted(l, u) PROVE Minted(l, u)'
    <2>1. nextId <= nextId' /\ redisId' = redisId /\ counter[l] <= counter'[l]
      BY <1>1 DEF TypeOK
    <2>2. \A d \in Calls : call'[d].pc \in Rotating =>
             \/ call[d].pc \in Rotating /\ call'[d].tok = call[d].tok
             \/ call'[d].tok.inst >= nextId
      BY <1>4
    <2> QED
      BY <1>1, <1>7, <2>1, <2>2, MintedKept
  <1>8. IssuedMinted'
    BY <1>3, <1>6, <1>7 DEF IInv, IssuedMinted
  <1>9. TokenMinted'
    <2> SUFFICES ASSUME NEW l \in Keys, token'[l] # NoToken PROVE Minted(l, token[l])'
      BY DEF TokenMinted
    <2>1. CASE l = k
      <3>1. token'[l] = t
        BY <1>1, <2>1 DEF TypeOK
      <3> QED
        BY <1>6, <2>1, <3>1 DEF Minted
    <2>2. CASE l # k
      <3>1. token'[l] = token[l] /\ token[l] \in Token
        BY <1>1, <2>2 DEF TypeOK
      <3>2. Minted(l, token[l])
        BY <3>1 DEF IInv, TokenMinted
      <3>3. ASSUME NEW u \in Token, u = token[l] PROVE Minted(l, u)'
        BY <1>7, <3>2, <3>3
      <3> QED
        BY <3>1, <3>3 DEF Minted
    <2> QED
      BY <2>1, <2>2
  <1>10. IssuedUnique'
    BY <1>3 DEF IInv, IssuedUnique
  <1>11. HeldToken'
    <2> SUFFICES ASSUME NEW i \in Issued', lock'[i.key] # NoOwner, token'[i.key] # NoToken,
                        i.tok = token'[i.key]
                 PROVE  i.owner = lock'[i.key]
      BY DEF HeldToken
    <2>1. CASE i.key = k
      BY <1>1, <1>3, <2>1 DEF TypeOK
    <2>2. CASE i.key # k
      BY <1>1, <1>3, <1>8, <2>2 DEF IInv, HeldToken, IssuedMinted, TypeOK
    <2> QED
      BY <2>1, <2>2
  <1> QED
    BY <1>5, <1>8, <1>9, <1>10, <1>11 DEF IInv, FailoverRows, Fresh

-----------------------------------------------------------------------------
(* A step that leaves the ids, the counters and the rotations alone. *)
LEMMA OrdinaryStep ==
  ASSUME IInv, TypeInv', Booted', NoIssue, UNCHANGED <<redisId, pgId, nextId, counter>>,
         \A r \in ledger' : r \in ledger \/ (r.reason # "FAILOVER" /\ r.key \in Keys),
         \A k \in Keys : /\ lock'[k] \in {lock[k], NoOwner}
                         /\ token'[k] \in {token[k], NoToken},
         \A c \in Calls : call'[c].pc # "restore",
         \A c \in Calls : call'[c].pc \in Rotating =>
            call[c].pc \in Rotating /\ call'[c].tok = call[c].tok
  PROVE  IInv'
  <1>1. IdInv'
    BY DEF IInv, IdInv
  <1>2. FailoverRows'
    BY DEF IInv, FailoverRows
  <1>3. nextId <= nextId'
    BY DEF IInv, TypeInv, TypeOK
  <1> QED
    BY <1>1, <1>2, <1>3, NonIssuingStep

(* The calls after a step that moves one call, to r. *)
LEMMA MovedCall ==
  ASSUME TypeOK, NEW c \in Calls, NEW r, call' = [call EXCEPT ![c] = r]
  PROVE  call'[c] = r /\ \A d \in Calls : d # c => call'[d] = call[d]
  BY DEF TypeOK

(* One call ends or moves on; everything else is as OrdinaryStep wants it. *)
LEMMA OrdinaryCall ==
  ASSUME IInv, TypeInv', Booted', UNCHANGED <<redisId, pgId, nextId, counter>>,
         NEW c \in Calls, NEW r, call' = [call EXCEPT ![c] = r],
         \/ r.pc \in {"idle", "abort", "unledger"}
         \/ /\ r.pc \in Issuing /\ call[c].pc \in Issuing
            /\ r.key = call[c].key /\ r.owner = call[c].owner /\ r.tok = call[c].tok
         \/ r.pc \in Rotating /\ call[c].pc \in Rotating /\ r.tok = call[c].tok,
         \A q \in ledger' : \/ q \in ledger
                            \/ /\ call[c].pc \in Issuing /\ q.reason # "FAILOVER"
                               /\ q.key = call[c].key /\ q.owner = call[c].owner
                               /\ q.tok = call[c].tok,
         \A k \in Keys : /\ lock'[k] \in {lock[k], NoOwner}
                         /\ token'[k] \in {token[k], NoToken}
  PROVE  IInv'
  <1>1. TypeOK /\ CallOK
    BY DEF IInv, TypeInv
  <1>2. call'[c] = r /\ \A d \in Calls : d # c => call'[d] = call[d]
    BY <1>1, MovedCall
  <1>3. NoIssue
    BY <1>2 DEF NoIssue, Issuing, Acquiring, Reclaiming, Rotating
  <1>4. \A d \in Calls : /\ call'[d].pc # "restore"
                         /\ call'[d].pc \in Rotating =>
                               call[d].pc \in Rotating /\ call'[d].tok = call[d].tok
    BY <1>2 DEF IInv, IdInv, Issuing, Acquiring, Reclaiming, Rotating
  <1>5. call[c].pc \in Issuing => call[c].key \in Keys
    BY <1>1 DEF CallOK, CallFields, Issuing
  <1>6. \A q \in ledger' : q \in ledger \/ (q.reason # "FAILOVER" /\ q.key \in Keys)
    BY <1>5
  <1> QED
    BY <1>3, <1>4, <1>6, OrdinaryStep

-----------------------------------------------------------------------------
(* The scripts that hand out tokens *)

(* The next token of a key is new: INCR has counted past every token that was
   issued under the present id. *)
LEMMA NextTokenNew ==
  ASSUME IInv, NEW k \in Keys, redisId # NoId, counter' = [counter EXCEPT ![k] = @ + 1]
  PROVE  /\ NextToken(k) \in Token /\ NextToken(k).ctr >= 1
         /\ NextToken(k).inst < nextId
         /\ NextToken(k).ctr <= counter'[k]
         /\ \A l \in Keys : counter[l] <= counter'[l]
         /\ \A i \in Issued : i.key = k /\ i.tok.inst = NextToken(k).inst =>
               i.tok.ctr < NextToken(k).ctr
         /\ \A i \in Issued : ~ (i.key = k /\ i.tok = NextToken(k))
         /\ \A d \in Calls : call[d].pc \in Rotating => call[d].tok.inst # NextToken(k).inst
  <1>1. counter[k] \in Nat /\ counter \in [Keys -> Nat] /\ redisId \in Nat
    BY DEF IInv, TypeInv, TypeOK
  <1>2. NextToken(k).inst = redisId /\ NextToken(k).ctr = counter[k] + 1
    BY DEF NextToken
  <1>3. NextToken(k) \in Token
    BY <1>1 DEF NextToken, Token
  <1>4. \A i \in Issued : i.key = k /\ i.tok.inst = redisId =>
           i.tok.ctr <= counter[k] /\ i.tok.ctr \in Nat
    BY DEF IInv, IssuedMinted, Minted, Token
  <1>5. /\ \A i \in Issued : i.key = k /\ i.tok.inst = NextToken(k).inst =>
              i.tok.ctr < NextToken(k).ctr
        /\ \A i \in Issued : ~ (i.key = k /\ i.tok = NextToken(k))
    BY <1>1, <1>2, <1>4
  <1>6. NextToken(k).ctr <= counter'[k] /\ \A l \in Keys : counter[l] <= counter'[l]
    BY <1>1, <1>2
  <1>7. \A d \in Calls : call[d].pc \in Rotating => call[d].tok.inst # redisId
    BY DEF IInv, IdInv
  <1>8. NextToken(k).ctr >= 1 /\ NextToken(k).inst < nextId
    BY <1>1, <1>2 DEF IInv, IdInv
  <1> QED
    BY <1>2, <1>3, <1>5, <1>6, <1>7, <1>8

(* acquire_lock.lua on a free key. *)
LEMMA AcquireFreeIssues ==
  ASSUME IInv, NEW c \in Calls, NEW k \in Keys, NEW o \in Owners, AcquireFree(c, k, o)
  PROVE  Issues(c, k, o, NextToken(k))
  <1>t. TypeOK
    BY DEF IInv, TypeInv
  <1> DEFINE t == NextToken(k)
             r == [IdleCall EXCEPT !.pc = "begin", !.key = k, !.owner = o,
                                   !.tok = t, !.reason = "ACQUIRED"]
  <1>1. /\ call[c].pc = "idle" /\ call' = [call EXCEPT ![c] = r]
        /\ UNCHANGED <<redisId, pgId, nextId, ledger>>
        /\ redisId # NoId
    BY DEF AcquireFree, MayIssue, Ready, pgVars
  <1>2. r.pc \in Issuing /\ r.key = k /\ r.owner = o /\ r.tok = t
    BY DEF IdleCall, Issuing, Acquiring, Reclaiming
  <1>3. /\ token' = [token EXCEPT ![k] = t] /\ counter' = [counter EXCEPT ![k] = @ + 1]
        /\ lock'[k] = o /\ \A l \in Keys \ {k} : lock'[l] = lock[l]
    BY <1>t DEF AcquireFree, TypeOK
  <1>4. /\ t \in Token /\ t.ctr >= 1 /\ t.inst < nextId
        /\ t.inst = redisId => t.ctr <= counter'[k]
        /\ \A l \in Keys : counter[l] <= counter'[l]
        /\ \A i \in Issued : i.key = k /\ i.tok = t => i.owner = o
        /\ \A d \in Calls : call[d].pc \in Rotating => call[d].tok.inst # t.inst
    BY NextTokenNew, <1>1, <1>3
  <1>5. lock'[k] \in {o, NoOwner}
    BY <1>3
  <1> HIDE DEF r, t
  <1>6. call'[c] = r /\ \A d \in Calls : d # c => call'[d] = call[d]
    BY <1>t, <1>1, MovedCall
  <1>7. Issues(c, k, o, t)
    BY <1>1, <1>2, <1>3, <1>4, <1>5, <1>6 DEF Issues
  <1> QED
    BY <1>7 DEF t

(* bump_fencing.lua. *)
LEMMA ReclaimIssues ==
  ASSUME IInv, NEW c \in Calls, NEW k \in Keys, NEW reason \in ReclaimReasons, ReclaimRedis(c, k, reason)
  PROVE  Issues(c, k, System, NextToken(k))
  <1>t. TypeOK
    BY DEF IInv, TypeInv
  <1> DEFINE t == NextToken(k)
             r == [IdleCall EXCEPT !.pc = "rbegin", !.key = k, !.owner = System,
                                   !.tok = t, !.reason = reason]
  <1>1. /\ call[c].pc = "idle" /\ call' = [call EXCEPT ![c] = r]
        /\ UNCHANGED <<redisId, pgId, nextId, ledger>>
        /\ redisId # NoId
    BY DEF ReclaimRedis, MayIssue, Ready, pgVars
  <1>2. r.pc \in Issuing /\ r.key = k /\ r.owner = System /\ r.tok = t
    BY DEF IdleCall, Issuing, Acquiring, Reclaiming
  <1>3. /\ token' = [token EXCEPT ![k] = t] /\ counter' = [counter EXCEPT ![k] = @ + 1]
        /\ lock'[k] = NoOwner /\ \A l \in Keys \ {k} : lock'[l] = lock[l]
    BY <1>t DEF ReclaimRedis, TypeOK
  <1>4. /\ t \in Token /\ t.ctr >= 1 /\ t.inst < nextId
        /\ t.inst = redisId => t.ctr <= counter'[k]
        /\ \A l \in Keys : counter[l] <= counter'[l]
        /\ \A i \in Issued : i.key = k /\ i.tok = t => i.owner = System
        /\ \A d \in Calls : call[d].pc \in Rotating => call[d].tok.inst # t.inst
    BY NextTokenNew, <1>1, <1>3
  <1>5. lock'[k] \in {System, NoOwner}
    BY <1>3
  <1> HIDE DEF r, t
  <1>6. call'[c] = r /\ \A d \in Calls : d # c => call'[d] = call[d]
    BY <1>t, <1>1, MovedCall
  <1>7. Issues(c, k, System, t)
    BY <1>1, <1>2, <1>3, <1>4, <1>5, <1>6 DEF Issues
  <1> QED
    BY <1>7 DEF t

(* acquire_lock.lua by the owner. *)
LEMMA AcquireReentrantIssues ==
  ASSUME IInv, NEW c \in Calls, NEW k \in Keys, NEW o \in Owners, AcquireReentrant(c, k, o)
  PROVE  Issues(c, k, o, IF token[k] # NoToken THEN token[k] ELSE NextToken(k))
  <1>t. TypeOK
    BY DEF IInv, TypeInv
  <1> DEFINE t == IF token[k] # NoToken THEN token[k] ELSE NextToken(k)
             r == [IdleCall EXCEPT !.pc = "begin", !.key = k, !.owner = o,
                                   !.tok = t, !.reason = "REENTRANT"]
  <1>1. /\ call[c].pc = "idle" /\ call' = [call EXCEPT ![c] = r]
        /\ UNCHANGED <<redisId, pgId, nextId, ledger, lock>> /\ lock[k] = o
        /\ redisId # NoId
    BY DEF AcquireReentrant, MayIssue, Ready, pgVars
  <1>2. r.pc \in Issuing /\ r.key = k /\ r.owner = o /\ r.tok = t
    BY DEF IdleCall, Issuing, Acquiring, Reclaiming
  <1>3. token' = [token EXCEPT ![k] = t]
    BY DEF AcquireReentrant
  <1>4. /\ t \in Token /\ t.ctr >= 1 /\ t.inst < nextId
        /\ t.inst = redisId => t.ctr <= counter'[k]
        /\ \A l \in Keys : counter[l] <= counter'[l]
        /\ \A i \in Issued : i.key = k /\ i.tok = t => i.owner = o
        /\ \A d \in Calls : call[d].pc \in Rotating => call[d].tok.inst # t.inst
    <2>1. CASE token[k] = NoToken
      <3>1. t = NextToken(k) /\ counter' = [counter EXCEPT ![k] = @ + 1]
        BY <2>1 DEF AcquireReentrant
      <3> HIDE DEF t
      <3> QED
        BY NextTokenNew, <1>1, <3>1
    <2>2. CASE token[k] # NoToken
      <3>1. t = token[k] /\ counter' = counter
        BY <2>2 DEF AcquireReentrant
      <3>2. t \in Token /\ Minted(k, t)
        BY <1>t, <2>2, <3>1 DEF IInv, TokenMinted, TypeOK
      <3>3. \A i \in Issued : i.key = k /\ i.tok = t => i.owner = o
        BY NamesAssumption, <1>1, <2>2, <3>1 DEF IInv, HeldToken
      <3>4. \A l \in Keys : counter[l] <= counter'[l]
        BY <1>t, <3>1 DEF TypeOK
      <3> HIDE DEF t
      <3> QED
        BY <3>1, <3>2, <3>3, <3>4 DEF Minted
    <2> QED
      BY <2>1, <2>2
  <1>5. lock'[k] \in {o, NoOwner} /\ \A l \in Keys \ {k} : lock'[l] = lock[l]
    BY <1>1
  <1> HIDE DEF r, t
  <1>6. call'[c] = r /\ \A d \in Calls : d # c => call'[d] = call[d]
    BY <1>t, <1>1, MovedCall
  <1>7. Issues(c, k, o, t)
    BY <1>1, <1>2, <1>3, <1>4, <1>5, <1>6 DEF Issues
  <1> QED
    BY <1>7 DEF t

-----------------------------------------------------------------------------
(* The invariant *)

(* release_lock.lua only deletes. *)
LEMMA ReleaseStep ==
  ASSUME TypeOK, NEW k \in Keys, NEW o, ReleaseScript(k, o)
  PROVE  \A l \in Keys : /\ lock'[l] \in {lock[l], NoOwner}
                         /\ token'[l] \in {token[l], NoToken}
  <1>1. CASE lock[k] = o
    BY <1>1 DEF ReleaseScript, TypeOK
  <1>2. CASE lock[k] # o
    BY <1>2 DEF ReleaseScript
  <1> QED
    BY <1>1, <1>2

LEMMA InitIInv == Init => IInv
  <1> SUFFICES ASSUME Init PROVE IInv
    OBVIOUS
  <1>1. TypeInv
    BY InitTypeInv
  <1>2. \A c \in Calls : call[c].pc = "idle"
    BY DEF Init, IdleCall
  <1>3. Issued = {}
    BY <1>2 DEF Init, Issued, Issuing, Acquiring, Reclaiming
  <1>4. IdInv
    BY <1>2 DEF Init, IdInv, NoId, Rotating
  <1>6. Booted /\ Fresh
    BY <1>3 DEF Init, Booted, Fresh
  <1>5. TokenMinted /\ FailoverRows
    BY DEF Init, TokenMinted, FailoverRows
  <1> QED
    BY <1>1, <1>3, <1>4, <1>5, <1>6 DEF IInv, IssuedMinted, IssuedUnique, HeldToken

(* Redis keeps an id once it has one, and a process learns one from Redis. *)
LEMMA BootedStep ==
  ASSUME MaxLosses = 0, IInv, [Next]_vars
  PROVE  Booted' /\ (redisId' = NoId => redisId = NoId)
  <1> USE DEF Booted
  <1>1. TypeOK /\ Booted /\ IdInv
    BY DEF IInv, TypeInv
  <1>2. ASSUME NEW p \in Procs, EnsureInstanceId(p)
        PROVE  redisId' # NoId
    BY <1>1, <1>2 DEF EnsureInstanceId, IdInv
  <1>3. ASSUME NEW c \in Calls, RotateSet(c)
        PROVE  redisId' # NoId
    BY <1>1, <1>3 DEF RotateSet, IdInv, Rotating
  <1>4. ASSUME NEW p \in Procs, Crash(p)
        PROVE  redisId' = redisId /\ \A q \in Procs : cachedId'[q] \in {cachedId[q], NoId}
    BY <1>1, <1>4 DEF Crash, redisVars, TypeOK
  <1>5. CASE PromoteMaster
    BY <1>1, <1>5 DEF PromoteMaster, TypeOK, IdInv, NoId
  <1>6. ASSUME NEW c \in Calls, RestoreInstanceId(c)
        PROVE  FALSE
    BY <1>1, <1>6 DEF RestoreInstanceId, IdInv
  <1>7. ASSUME LoseRedis
        PROVE  FALSE
    BY <1>1, <1>7 DEF LoseRedis, TypeOK
  <1>8. ASSUME NEW c \in Calls,
               \/ Begin(c) \/ AcquireCommit(c) \/ AcquireAbort(c) \/ ReleasePg(c)
               \/ ReclaimCommit(c) \/ RotateCommit(c) \/ CheckRedisFailover(c)
               \/ AcquireFails(c) \/ CallFails(c) \/ Request(c)
        PROVE  redisId' = redisId /\ cachedId' = cachedId
    BY <1>8 DEF Begin, AcquireCommit, AcquireAbort, ReleasePg, ReclaimCommit, RotateCommit,
                CheckRedisFailover, AcquireFails, CallFails, Request, AcquireFree,
                AcquireReentrant, ReleaseRedis, ReclaimRedis, redisVars
  <1>9. ASSUME NEW k \in Keys, LockExpires(k) \/ TokenExpires(k)
        PROVE  redisId' = redisId /\ cachedId' = cachedId
    BY <1>9 DEF LockExpires, TokenExpires
  <1>10. CASE UNCHANGED vars
    BY <1>1, <1>10 DEF vars, redisVars
  <1> QED
    BY <1>1, <1>2, <1>3, <1>4, <1>5, <1>6, <1>7, <1>8, <1>9, <1>10
    DEF Next, ServiceStep, Environment

LEMMA NextIInv ==
  ASSUME MaxLosses = 0, IInv, [Next]_vars
  PROVE  IInv'
  <1>t. /\ TypeInv' /\ TypeOK /\ CallOK
        /\ Booted' /\ (redisId' = NoId => redisId = NoId)
    BY NextTypeInv, BootedStep DEF IInv, TypeInv
  <1>1. ASSUME NEW c \in Calls, Begin(c)
        PROVE  IInv'
    <2> DEFINE r == [[call[c] EXCEPT !.at = clock] EXCEPT !.pc =
                        CASE call[c].pc = "begin"  -> "commit"
                          [] call[c].pc = "rbegin" -> "rcommit"
                          [] OTHER -> "fcommit"]
    <2>1. call[c] \in CallType
      BY <1>t DEF TypeOK, CallType
    <2>2. /\ r.key = call[c].key /\ r.owner = call[c].owner /\ r.tok = call[c].tok
          /\ \/ r.pc \in Issuing /\ call[c].pc \in Issuing
             \/ r.pc \in Rotating /\ call[c].pc \in Rotating
      BY <1>1, <2>1 DEF Begin, CallType, Issuing, Acquiring, Reclaiming, Rotating
    <2>3. call' = [call EXCEPT ![c] = r]
      BY <1>1 DEF Begin
    <2>4. /\ UNCHANGED <<redisId, pgId, nextId, counter>> /\ ledger' = ledger
          /\ UNCHANGED <<lock, token>>
      BY <1>1 DEF Begin, redisVars
    <2> HIDE DEF r
    <2> QED
      BY <1>t, <2>2, <2>3, <2>4, OrdinaryCall
  <1>2. ASSUME NEW c \in Calls, AcquireCommit(c)
        PROVE  IInv'
    <2>1. call' = [call EXCEPT ![c] = IdleCall] /\ IdleCall.pc = "idle"
      BY <1>2 DEF AcquireCommit, IdleCall
    <2>2. \A q \in ledger' : \/ q \in ledger
                             \/ /\ call[c].pc \in Issuing /\ q.reason # "FAILOVER"
                                /\ q.key = call[c].key /\ q.owner = call[c].owner
                                /\ q.tok = call[c].tok
      BY <1>2, <1>t DEF AcquireCommit, DoubleWrite, CallOK, CallFields, Issuing, Acquiring, Reclaiming, Rotating,
                         AcquireReasons, ReclaimReasons
    <2>3. /\ UNCHANGED <<redisId, pgId, nextId, counter>>
          /\ \A l \in Keys : /\ lock'[l] \in {lock[l], NoOwner}
                            /\ token'[l] \in {token[l], NoToken}
      BY <1>2 DEF AcquireCommit, redisVars, pgVars
    <2> QED
      BY <1>t, <2>1, <2>2, <2>3, OrdinaryCall
  <1>3. ASSUME NEW c \in Calls, AcquireFails(c)
        PROVE  IInv'
    <2> DEFINE r == [call[c] EXCEPT !.pc = "abort"]
    <2>1. call[c] \in CallType
      BY <1>t DEF TypeOK, CallType
    <2>2. r.pc = "abort" /\ call' = [call EXCEPT ![c] = r]
      BY <1>3, <2>1 DEF AcquireFails, CallType
    <2>3. \A q \in ledger' : \/ q \in ledger
                             \/ /\ call[c].pc \in Issuing /\ q.reason # "FAILOVER"
                                /\ q.key = call[c].key /\ q.owner = call[c].owner
                                /\ q.tok = call[c].tok
      <3>1. CASE UNCHANGED <<ledger, pgLocks>>
        BY <3>1
      <3>2. CASE call[c].pc = "commit" /\ DoubleWrite(c)
        BY <3>2, <1>t DEF DoubleWrite, CallOK, CallFields, Issuing, Acquiring, Reclaiming, Rotating, AcquireReasons
      <3> QED
        BY <1>3, <3>1, <3>2 DEF AcquireFails
    <2>4. UNCHANGED <<redisId, pgId, nextId, counter, lock, token>>
      BY <1>3 DEF AcquireFails, redisVars
    <2> HIDE DEF r
    <2> QED
      BY <1>t, <2>2, <2>3, <2>4, OrdinaryCall
  <1>4. ASSUME NEW c \in Calls, AcquireAbort(c)
        PROVE  IInv'
    <2>1. call' = [call EXCEPT ![c] = IdleCall] /\ IdleCall.pc = "idle"
      BY <1>4 DEF AcquireAbort, IdleCall
    <2>2. ledger' = ledger
      BY <1>4 DEF AcquireAbort, redisVars, pgVars
    <2>3. /\ UNCHANGED <<redisId, pgId, nextId, counter>>
          /\ \A l \in Keys : /\ lock'[l] \in {lock[l], NoOwner}
                            /\ token'[l] \in {token[l], NoToken}
      BY <1>4, <1>t, ReleaseStep DEF AcquireAbort, redisVars, pgVars, CallOK, CallFields
    <2> QED
      BY <1>t, <2>1, <2>2, <2>3, OrdinaryCall
  <1>5. ASSUME NEW c \in Calls, NEW k \in Keys, NEW o \in Owners, ReleaseRedis(c, k, o)
        PROVE  IInv'
    <2> DEFINE r == [IdleCall EXCEPT !.pc = "unledger", !.key = k, !.owner = o]
    <2>1. r.pc = "unledger" /\ call' = [call EXCEPT ![c] = r]
      BY <1>5 DEF ReleaseRedis, IdleCall
    <2>2. \A l \in Keys : /\ lock'[l] \in {lock[l], NoOwner}
                          /\ token'[l] \in {token[l], NoToken}
      BY <1>5, <1>t, ReleaseStep DEF ReleaseRedis
    <2>3. UNCHANGED <<redisId, pgId, nextId, counter, ledger>>
      BY <1>5 DEF ReleaseRedis, pgVars
    <2> HIDE DEF r
    <2> QED
      BY <1>t, <2>1, <2>2, <2>3, OrdinaryCall
  <1>6. ASSUME NEW c \in Calls, ReleasePg(c)
        PROVE  IInv'
    <2>1. call' = [call EXCEPT ![c] = IdleCall] /\ IdleCall.pc = "idle"
      BY <1>6 DEF ReleasePg, IdleCall
    <2>2. ledger' = ledger
      BY <1>6 DEF ReleasePg, redisVars, pgVars
    <2>3. /\ UNCHANGED <<redisId, pgId, nextId, counter>>
          /\ \A l \in Keys : /\ lock'[l] \in {lock[l], NoOwner}
                            /\ token'[l] \in {token[l], NoToken}
      BY <1>6 DEF ReleasePg, redisVars, pgVars
    <2> QED
      BY <1>t, <2>1, <2>2, <2>3, OrdinaryCall
  <1>7. ASSUME NEW c \in Calls, ReclaimCommit(c)
        PROVE  IInv'
    <2>1. call' = [call EXCEPT ![c] = IdleCall] /\ IdleCall.pc = "idle"
      BY <1>7 DEF ReclaimCommit, IdleCall
    <2>2. \A q \in ledger' : \/ q \in ledger
                             \/ /\ call[c].pc \in Issuing /\ q.reason # "FAILOVER"
                                /\ q.key = call[c].key /\ q.owner = call[c].owner
                                /\ q.tok = call[c].tok
      BY <1>7, <1>t DEF ReclaimCommit, TypeOK, CallOK, CallFields, Issuing, Acquiring, Reclaiming, Rotating,
                         AcquireReasons, ReclaimReasons
    <2>3. /\ UNCHANGED <<redisId, pgId, nextId, counter>>
          /\ \A l \in Keys : /\ lock'[l] \in {lock[l], NoOwner}
                            /\ token'[l] \in {token[l], NoToken}
      BY <1>7 DEF ReclaimCommit, redisVars, pgVars
    <2> QED
      BY <1>t, <2>1, <2>2, <2>3, OrdinaryCall
  <1>8. ASSUME NEW c \in Calls, CallFails(c)
        PROVE  IInv'
    <2>1. call' = [call EXCEPT ![c] = IdleCall] /\ IdleCall.pc = "idle"
      BY <1>8 DEF CallFails, IdleCall
    <2>2. ledger' = ledger
      BY <1>8 DEF CallFails, redisVars, pgVars
    <2>3. /\ UNCHANGED <<redisId, pgId, nextId, counter>>
          /\ \A l \in Keys : /\ lock'[l] \in {lock[l], NoOwner}
                            /\ token'[l] \in {token[l], NoToken}
      BY <1>8 DEF CallFails, redisVars, pgVars
    <2> QED
      BY <1>t, <2>1, <2>2, <2>3, OrdinaryCall
  <1>9. ASSUME NEW k \in Keys, LockExpires(k) \/ TokenExpires(k)
        PROVE  IInv'
    <2>1. UNCHANGED <<redisId, pgId, nextId, counter, ledger, call>>
      BY <1>9 DEF LockExpires, TokenExpires, pgVars
    <2>2. \A l \in Keys : /\ lock'[l] \in {lock[l], NoOwner}
                          /\ token'[l] \in {token[l], NoToken}
      BY <1>9, <1>t DEF LockExpires, TokenExpires, TypeOK
    <2>3. NoIssue
      BY <2>1 DEF NoIssue
    <2> QED
      BY <1>t, <2>1, <2>2, <2>3, OrdinaryStep DEF IInv, IdInv
  <1>10. ASSUME NEW p \in Procs, Crash(p)
        PROVE  IInv'
    <2>1. UNCHANGED <<redisId, pgId, nextId, counter, ledger, lock, token>>
      BY <1>10 DEF Crash, redisVars, pgVars
    <2>2. \A c \in Calls : call'[c] = call[c] \/ call'[c].pc = "idle"
      BY <1>10 DEF Crash, IdleCall
    <2>3. NoIssue
      BY <2>1, <2>2 DEF NoIssue, Issuing, Acquiring, Reclaiming, Rotating
    <2>4. \A c \in Calls : /\ call'[c].pc # "restore"
                           /\ call'[c].pc \in Rotating =>
                                 call[c].pc \in Rotating /\ call'[c].tok = call[c].tok
      BY <2>2 DEF IInv, IdInv, Rotating
    <2> QED
      BY <1>t, <2>1, <2>3, <2>4, OrdinaryStep
  <1>11. CASE UNCHANGED vars
    <2>1. UNCHANGED <<redisId, pgId, nextId, counter, ledger, lock, token, call>>
      BY <1>11 DEF vars, redisVars, pgVars
    <2>2. NoIssue
      BY <2>1 DEF NoIssue
    <2> QED
      BY <1>t, <2>1, <2>2, OrdinaryStep DEF IInv, IdInv
  (* No token has the id that randomUUID returns next. *)
  <1>f. /\ \A i \in Issued : i.tok.inst < nextId /\ i.tok.inst \in Nat
        /\ \A k \in Keys : token[k] # NoToken => token[k].inst < nextId
        /\ \A k \in Keys : token[k].inst \in Nat
        /\ nextId \in Nat /\ redisId \in Nat /\ pgId \in Nat
    BY <1>t DEF IInv, IssuedMinted, TokenMinted, Minted, TypeOK, Token
  <1>12. ASSUME NEW p \in Procs, EnsureInstanceId(p)
        PROVE  IInv'
    <2>1. UNCHANGED <<counter, ledger, lock, token, call, pgId, nextId>>
      BY <1>12 DEF EnsureInstanceId, pgVars
    <2>2. NoIssue
      BY <2>1 DEF NoIssue
    <2>3. CASE redisId # NoId
      <3>1. redisId' = redisId
        BY <1>12, <2>3 DEF EnsureInstanceId
      <3> QED
        BY <1>t, <2>1, <2>2, <3>1, OrdinaryStep DEF IInv, IdInv
    <2>4. CASE redisId = NoId
      <3>1. redisId' = pgId
        BY <1>12, <2>4 DEF EnsureInstanceId
      <3>2. FailoverRows'
        BY <2>1 DEF IInv, FailoverRows
      <3>3. IdInv'
        BY <2>1, <2>4, <3>1 DEF IInv, IdInv
      <3>4. /\ \A i \in Issued : i.tok.inst # redisId'
            /\ \A k \in Keys : token[k] # NoToken => token[k].inst # redisId'
        BY <2>4 DEF IInv, Fresh
      <3>5. nextId <= nextId'
        BY <1>f, <2>1
      <3> QED
        BY <1>t, <2>1, <2>2, <3>2, <3>3, <3>4, <3>5, NonIssuingStep
    <2> QED
      BY <2>3, <2>4
  <1>14. ASSUME NEW c \in Calls, CheckRedisFailover(c)
        PROVE  IInv'
    <2> DEFINE r == [IdleCall EXCEPT !.pc = "fbegin", !.tok = [inst |-> nextId, ctr |-> 0],
                                     !.keys = {k \in Keys : pgLocks[k] # NoRow}]
    <2>1. /\ redisId # NoId /\ call[c].pc = "idle"
          /\ call' = [call EXCEPT ![c] = r] /\ nextId' = nextId + 1
      BY <1>14, CallsAssumption DEF CheckRedisFailover, Ready, IInv, Booted
    <2>2. UNCHANGED <<redisId, pgId, counter, ledger, lock, token>>
      BY <1>14 DEF CheckRedisFailover, redisVars, pgVars
    <2>3. r.pc = "fbegin" /\ r.tok.inst = nextId /\ r.tok.ctr = 0
      BY DEF IdleCall
    <2> HIDE DEF r
    <2>4. call'[c] = r /\ \A d \in Calls : d # c => call'[d] = call[d]
      BY <1>t, <2>1, MovedCall
    <2>5. NoIssue
      BY <2>2, <2>3, <2>4 DEF NoIssue, Issuing, Acquiring, Reclaiming
    <2>6. FailoverRows'
      BY <2>2 DEF IInv, FailoverRows
    <2>7. IdInv'
      <3>1. /\ redisId' < nextId' /\ pgId' < nextId' /\ pgId' # NoId
            /\ \A d \in Calls : call'[d].pc # "restore"
        BY <1>f, <2>1, <2>2, <2>3, <2>4 DEF IInv, IdInv
      <3>2. ASSUME NEW d \in Calls, call'[d].pc \in Rotating
            PROVE  /\ redisId' # NoId
                   /\ call'[d].tok.inst # redisId' /\ call'[d].tok.inst < nextId'
                   /\ call'[d].tok.inst # NoId /\ call'[d].tok.ctr = 0
        <4>1. CASE d = c
          BY <1>f, <2>1, <2>2, <2>3, <2>4, <4>1 DEF IInv, IdInv, NoId
        <4>2. CASE d # c
          <5>1. /\ call[d].tok.inst < nextId /\ call[d].tok.inst \in Nat
                /\ call'[d] = call[d] /\ call[d].pc \in Rotating
            BY <1>t, <2>4, <3>2, <4>2 DEF IInv, IdInv, TypeOK, Token
          <5> QED
            BY <1>f, <2>1, <2>2, <5>1 DEF IInv, IdInv
        <4> QED
          BY <4>1, <4>2
      <3>3. ASSUME NEW d \in Calls, NEW e \in Calls, d # e,
                   call'[d].pc \in Rotating, call'[e].pc \in Rotating
            PROVE  call'[d].tok.inst # call'[e].tok.inst
        <4>1. \A x \in Calls : x # c /\ call'[x].pc \in Rotating =>
                 call'[x].tok.inst < nextId /\ call'[x].tok.inst \in Nat
          BY <1>t, <2>4 DEF IInv, IdInv, TypeOK, Token
        <4>2. CASE d # c /\ e # c
          BY <2>4, <3>3, <4>2 DEF IInv, IdInv
        <4> QED
          BY <1>f, <2>3, <2>4, <3>3, <4>1, <4>2
      <3> QED
        BY <3>1, <3>2, <3>3 DEF IdInv
    <2>8. \A d \in Calls : call'[d].pc \in Rotating =>
             \/ call[d].pc \in Rotating /\ call'[d].tok = call[d].tok
             \/ call'[d].tok.inst >= nextId
      BY <1>f, <2>3, <2>4
    <2>9. nextId <= nextId'
      BY <1>f, <2>1
    <2> QED
      BY <1>t, <2>2, <2>5, <2>6, <2>7, <2>8, <2>9, NonIssuingStep
  <1>15. ASSUME NEW c \in Calls, RestoreInstanceId(c)
        PROVE  IInv'
    BY <1>15 DEF RestoreInstanceId, IInv, IdInv
  <1>16. ASSUME NEW c \in Calls, RotateCommit(c)
        PROVE  IInv'
    <2> DEFINE r == [call[c] EXCEPT !.pc = "fset"]
    <2>1. call[c] \in CallType
      BY <1>t DEF TypeOK, CallType
    <2>2. /\ call[c].pc \in Rotating
          /\ r.pc = "fset" /\ r.tok = call[c].tok /\ call' = [call EXCEPT ![c] = r]
      BY <1>16, <2>1 DEF RotateCommit, CallType, Rotating
    <2> HIDE DEF r
    <2>3. call'[c] = r /\ \A d \in Calls : d # c => call'[d] = call[d]
      BY <1>t, <2>2, MovedCall
    <2>4. /\ UNCHANGED <<redisId, nextId, counter, lock, token>>
          /\ pgId' = call[c].tok.inst
          /\ ledger' = ledger \cup FailoverLedgerRows(c)
      BY <1>16 DEF RotateCommit, redisVars
    <2>5. \A q \in FailoverLedgerRows(c) :
             q.reason = "FAILOVER" /\ q.tok = call[c].tok /\ q.owner = System
      BY DEF FailoverLedgerRows
    <2>6. NoIssue
      BY <2>2, <2>3, <2>4, <2>5 DEF NoIssue, Issuing, Acquiring, Reclaiming
    <2>7. FailoverRows'
      BY <2>2, <2>4, <2>5 DEF IInv, FailoverRows, IdInv
    <2>8. \A d \in Calls : /\ call'[d].pc # "restore"
                           /\ call'[d].pc \in Rotating =>
                                 call[d].pc \in Rotating /\ call'[d].tok = call[d].tok
      BY <2>2, <2>3 DEF IInv, IdInv
    <2>9. IdInv'
      BY <2>2, <2>4, <2>8 DEF IInv, IdInv
    <2>10. nextId <= nextId'
      BY <1>f, <2>4
    <2> QED
      BY <1>t, <2>4, <2>6, <2>7, <2>8, <2>9, <2>10, NonIssuingStep
  <1>17. ASSUME NEW c \in Calls, RotateSet(c)
        PROVE  IInv'
    <2>1. /\ call[c].pc \in Rotating /\ redisId' = call[c].tok.inst
          /\ call' = [call EXCEPT ![c] = IdleCall] /\ IdleCall.pc = "idle"
          /\ UNCHANGED <<pgId, nextId, counter, ledger, lock, token>>
      BY <1>17 DEF RotateSet, pgVars, IdleCall, Rotating
    <2>2. call'[c] = IdleCall /\ \A d \in Calls : d # c => call'[d] = call[d]
      BY <1>t, <2>1, MovedCall
    <2>3. NoIssue
      BY <2>1, <2>2 DEF NoIssue, Issuing, Acquiring, Reclaiming
    <2>4. FailoverRows'
      BY <2>1 DEF IInv, FailoverRows
    <2>5. \A d \in Calls : /\ call'[d].pc # "restore"
                           /\ call'[d].pc \in Rotating =>
                                 d # c /\ call[d].pc \in Rotating /\ call'[d].tok = call[d].tok
      BY <2>1, <2>2 DEF IInv, IdInv, Rotating
    <2>6. IdInv'
      BY <2>1, <2>5 DEF IInv, IdInv
    <2>7. /\ \A i \in Issued : i.tok.inst # redisId'
          /\ \A k \in Keys : token[k] # NoToken => token[k].inst # redisId'
      BY <2>1 DEF IInv, IssuedMinted, TokenMinted, Minted
    <2>8. nextId <= nextId'
      BY <1>f, <2>1
    <2> QED
      BY <1>t, <2>1, <2>3, <2>4, <2>5, <2>6, <2>7, <2>8, NonIssuingStep
  <1>18. CASE PromoteMaster
    <2>1. /\ redisId' = nextId /\ nextId' = nextId + 1
          /\ UNCHANGED <<pgId, ledger, call>>
      BY <1>18 DEF PromoteMaster, pgVars
    <2>2. \A k \in Keys : lock'[k] = NoOwner /\ token'[k] = NoToken
      BY <1>18 DEF PromoteMaster, EmptyRedis
    <2>3. NoIssue
      BY <2>1 DEF NoIssue
    <2>4. FailoverRows'
      BY <2>1 DEF IInv, FailoverRows
    <2>5. \A d \in Calls : call[d].tok.inst \in Nat
      BY <1>t DEF TypeOK, Token
    <2>6. IdInv'
      BY <1>f, <2>1, <2>5 DEF IInv, IdInv, NoId
    <2>7. /\ nextId <= nextId'
          /\ \A i \in Issued : i.tok.inst # redisId'
          /\ \A k \in Keys : token[k] # NoToken => token[k].inst # redisId'
      BY <1>f, <2>1
    <2> QED
      BY <1>t, <2>1, <2>2, <2>3, <2>4, <2>6, <2>7, NonIssuingStep
  <1>19. CASE LoseRedis
    BY <1>19, <1>t DEF LoseRedis, TypeOK
  <1>20. ASSUME NEW c \in Calls, NEW k \in Keys, NEW o \in Owners, AcquireFree(c, k, o)
        PROVE  IInv'
    BY <1>t, <1>20, AcquireFreeIssues, IssuingStep
  <1>21. ASSUME NEW c \in Calls, NEW k \in Keys, NEW reason \in ReclaimReasons,
               ReclaimRedis(c, k, reason)
        PROVE  IInv'
    BY <1>t, <1>21, ReclaimIssues, IssuingStep
  <1>22. ASSUME NEW c \in Calls, NEW k \in Keys, NEW o \in Owners, AcquireReentrant(c, k, o)
        PROVE  IInv'
    BY <1>t, <1>22, AcquireReentrantIssues, IssuingStep
  <1> QED
    BY <1>1, <1>2, <1>3, <1>4, <1>5, <1>6, <1>7, <1>8, <1>9, <1>10, <1>11, <1>12,
       <1>14, <1>15, <1>16, <1>17, <1>18, <1>19, <1>20, <1>21, <1>22
    DEF Next, ServiceStep, Request, Environment

(* Unless Redis restarts empty, a fencing token of a lock is never in the
   ledger for two owners (FencingLock!TokenOwnerUnique), whatever expires,
   crashes, is reclaimed or fails over, however late a double-write commits and
   however many calls and processes there are. *)
THEOREM TokenOwnerUniqueThm ==
  ASSUME MaxLosses = 0
  PROVE  Spec => []TokenOwnerUnique
  <1>1. IInv => TokenOwnerUnique
    <2> SUFFICES ASSUME IInv, NEW r \in ledger, NEW s \in ledger,
                        r.key = s.key, r.tok = s.tok
                 PROVE  r.owner = s.owner
      BY DEF TokenOwnerUnique
    <2> DEFINE i(q) == [key |-> q.key, owner |-> q.owner, tok |-> q.tok]
    <2>1. CASE r.reason # "FAILOVER" /\ s.reason # "FAILOVER"
      <3>1. i(r) \in Issued /\ i(s) \in Issued
        BY <2>1 DEF Issued
      <3> QED
        BY <3>1 DEF IInv, IssuedUnique
    <2>2. CASE r.reason = "FAILOVER" /\ s.reason = "FAILOVER"
      BY <2>2 DEF IInv, FailoverRows
    <2>3. ASSUME NEW q \in ledger, q.reason # "FAILOVER" PROVE q.tok.ctr # 0
      <3>1. i(q) \in Issued
        BY <2>3 DEF Issued
      <3>2. q.tok.ctr >= 1
        BY <3>1 DEF IInv, IssuedMinted, Minted
      <3> QED
        BY <3>2
    <2> QED
      BY <2>1, <2>2, <2>3 DEF IInv, FailoverRows
  <1>2. IInv /\ [Next]_vars => IInv'
    BY NextIInv
  <1> QED
    BY <1>1, <1>2, InitIInv, PTL DEF Spec

-----------------------------------------------------------------------------
(* Accepted tokens are the newest *)

(* The transactions that have a timestamp: rows of the ledger, and calls between
   BEGIN and COMMIT.  got tells an acquisition from a reclaim. *)
Stamped ==
    {[key |-> r.key, tok |-> r.tok, at |-> r.at, got |-> r.reason \in AcquireReasons] :
        r \in {s \in ledger : s.reason # "FAILOVER"}}
    \cup
    {[key |-> call[c].key, tok |-> call[c].tok, at |-> call[c].at, got |-> call[c].pc = "commit"] :
        c \in {d \in Calls : call[d].pc \in {"commit", "rcommit"}}}

(* Token t is the newest of key k that was issued under its id. *)
Newest(k, t) == \A i \in Issued : i.key = k /\ i.tok.inst = t.inst => i.tok.ctr <= t.ctr

StoredNewest == \A k \in Keys : token[k] # NoToken => Newest(k, token[k])

(* While an acquire that was not overtaken writes its row, Redis keeps its lock
   and its token, unless Redis has become another: so none newer is issued under
   its id. *)
Writing == {c \in Calls : call[c].pc \in Acquiring}

WritingNewest ==
    \A c \in Writing : Overtaken(call[c].key, call[c].tok) \/ Newest(call[c].key, call[c].tok)

WritingHeld ==
    \A c \in Writing :
        LET k == call[c].key
            t == call[c].tok IN
        \/ Overtaken(k, t)
        \/ /\ token[k] # NoToken /\ token[k].inst = t.inst => token[k] = t
           /\ t.inst = redisId => lock[k] # NoOwner /\ token[k] = t

(* A timestamp is one of the past. *)
StampedPast == \A s \in Stamped : s.at < clock

(* What was stamped before an acquisition has no newer token, unless the
   acquisition was overtaken. *)
StampedOrder ==
    \A r, s \in Stamped :
        r.got /\ s.key = r.key /\ s.tok.inst = r.tok.inst /\ s.at <= r.at
        => s.tok.ctr <= r.tok.ctr \/ Overtaken(r.key, r.tok)

NewestInv == StoredNewest /\ WritingNewest /\ WritingHeld /\ StampedPast /\ StampedOrder

(* A step that hands out no token and stamps nothing.  Locks under which an
   acquire writes its row stay, unless Redis becomes another or the acquire is
   overtaken. *)
LEMMA QuietStep ==
  ASSUME IInv, NewestInv, NoIssue, Stamped' \subseteq Stamped, clock' = clock,
         Writing' \subseteq Writing, overtaken \subseteq overtaken',
         \A k \in Keys : token'[k] \in {token[k], NoToken},
         \A c \in Writing' : call'[c].key \in Keys,
         \A c \in Writing' :
            \/ /\ redisId' = redisId
               /\ lock'[call[c].key] = lock[call[c].key]
               /\ token'[call[c].key] = token[call[c].key]
            \/ call[c].tok.inst # redisId'
            \/ [key |-> call[c].key, tok |-> call[c].tok] \in overtaken'
  PROVE  NewestInv'
  <1> USE DEF Overtaken
  <1>1. Issued' \subseteq Issued
    BY IssuedShrinks
  <1>2. \A c \in Writing' : call'[c].key = call[c].key /\ call'[c].tok = call[c].tok
    BY DEF NoIssue, Writing, Issuing
  <1>3. StoredNewest'
    BY <1>1 DEF NewestInv, StoredNewest, Newest
  <1>4. WritingNewest'
    BY <1>1, <1>2 DEF NewestInv, WritingNewest, Newest
  <1>5. WritingHeld'
    BY <1>2 DEF NewestInv, WritingHeld
  <1>6. StampedPast'
    BY DEF NewestInv, StampedPast
  <1>7. StampedOrder'
    BY DEF NewestInv, StampedOrder
  <1> QED
    BY <1>3, <1>4, <1>5, <1>6, <1>7 DEF NewestInv

(* A step by which call c hands out the token t of key k: it is the newest, and
   no other acquire of that key that is not overtaken is writing another token
   of its id. *)
LEMMA HandOut ==
  ASSUME IInv, NewestInv, TypeOK', NEW c \in Calls, NEW k \in Keys, NEW o, NEW t, Issues(c, k, o, t),
         call'[c].pc \in {"begin", "rbegin"}, clock' = clock, Newest(k, t),
         t.inst = redisId \/ t = token[k], overtaken \subseteq overtaken',
         \A d \in Writing : call[d].key = k /\ call[d].tok.inst = t.inst =>
            call[d].tok = t \/ [key |-> k, tok |-> call[d].tok] \in overtaken',
         \A d \in Writing' : call'[d].key = k =>
            lock'[k] # NoOwner \/ [key |-> k, tok |-> call'[d].tok] \in overtaken'
  PROVE  NewestInv'
  <1> USE DEF Issues, Overtaken
  <1> DEFINE n == [key |-> k, owner |-> o, tok |-> t]
  <1>1. TypeOK /\ t.ctr \in Nat
    BY DEF IInv, TypeInv, Token
  <1>2. Issued' \subseteq Issued \cup {n}
    <2> SUFFICES ASSUME NEW i \in Issued', i # n PROVE i \in Issued
      OBVIOUS
    <2>1. CASE \E q \in ledger : /\ q.reason # "FAILOVER"
                                /\ i = [key |-> q.key, owner |-> q.owner, tok |-> q.tok]
      BY <2>1 DEF Issued
    <2>2. CASE \E d \in Calls : /\ call'[d].pc \in Issuing
                               /\ i = [key |-> call'[d].key, owner |-> call'[d].owner,
                                       tok |-> call'[d].tok]
      BY <2>2 DEF Issued
    <2> QED
      BY <2>1, <2>2 DEF Issued
  <1>3. Stamped' = Stamped
    BY DEF Stamped
  <1>4. \A l \in Keys : token'[l] = IF l = k THEN t ELSE token[l]
    BY <1>1 DEF TypeOK
  <1>5. \A d \in Writing' : d # c => d \in Writing /\ call'[d] = call[d] /\ call[d].key \in Keys
    BY DEF Writing, IInv, TypeInv, CallOK, CallFields
  <1>6. StoredNewest'
    <2> SUFFICES ASSUME NEW l \in Keys, token'[l] # NoToken, NEW i \in Issued',
                        i.key = l, i.tok.inst = token'[l].inst
                 PROVE  i.tok.ctr <= token'[l].ctr
      BY DEF StoredNewest, Newest
    <2>1. CASE l = k /\ i = n
      BY <1>1, <1>4, <2>1
    <2>2. CASE l = k /\ i # n
      BY <1>2, <1>4, <2>2 DEF Newest
    <2>3. CASE l # k
      BY <1>2, <1>4, <2>3 DEF NewestInv, StoredNewest, Newest
    <2> QED BY <2>1, <2>2, <2>3
  <1>7. WritingNewest'
    <2> SUFFICES ASSUME NEW d \in Writing', NEW i \in Issued', i.key = call'[d].key,
                        i.tok.inst = call'[d].tok.inst,
                        [key |-> call'[d].key, tok |-> call'[d].tok] \notin overtaken'
                 PROVE  i.tok.ctr <= call'[d].tok.ctr
      BY DEF WritingNewest, Newest
    <2>1. CASE d = c
      BY <1>1, <1>2, <2>1 DEF Newest
    <2>2. CASE d # c /\ i = n
      BY <1>1, <1>5, <2>2
    <2>3. CASE d # c /\ i # n
      BY <1>2, <1>5, <2>3 DEF NewestInv, WritingNewest, Newest
    <2> QED BY <2>1, <2>2, <2>3
  <1>8. WritingHeld'
    <2> SUFFICES ASSUME NEW d \in Writing',
                        [key |-> call'[d].key, tok |-> call'[d].tok] \notin overtaken'
                 PROVE  /\ token'[call'[d].key] # NoToken /\ token'[call'[d].key].inst = call'[d].tok.inst
                             => token'[call'[d].key] = call'[d].tok
                        /\ call'[d].tok.inst = redisId' =>
                             lock'[call'[d].key] # NoOwner /\ token'[call'[d].key] = call'[d].tok
      BY DEF WritingHeld
    <2>1. CASE d = c
      BY <1>4, <2>1
    <2>2. CASE d # c /\ call[d].key = k
      <3>1. call'[d] = call[d] /\ d \in Writing /\ token'[k] = t /\ lock'[k] # NoOwner
        BY <1>4, <1>5, <2>2
      <3>2. call[d].tok.inst = redisId => t.inst = redisId
        BY <2>2, <3>1 DEF NewestInv, WritingHeld
      <3> QED BY <2>2, <3>1, <3>2
    <2>3. CASE d # c /\ call[d].key # k
      BY <1>4, <1>5, <2>3 DEF NewestInv, WritingHeld
    <2> QED BY <2>1, <2>2, <2>3
  <1>9. StampedPast' /\ StampedOrder'
    BY <1>3 DEF NewestInv, StampedPast, StampedOrder
  <1> QED
    BY <1>6, <1>7, <1>8, <1>9 DEF NewestInv

(* Initially nothing has a timestamp and nobody writes. *)
LEMMA InitNewestInv == Init => NewestInv
  <1> SUFFICES ASSUME Init PROVE NewestInv
    OBVIOUS
  <1>1. \A c \in Calls : call[c].pc = "idle"
    BY DEF Init, IdleCall
  <1>2. Stamped = {} /\ Writing = {}
    BY <1>1 DEF Init, Stamped, Writing, Acquiring
  <1>3. StoredNewest
    BY DEF Init, StoredNewest
  <1> QED
    BY <1>2, <1>3 DEF NewestInv, WritingNewest, WritingHeld, StampedPast, StampedOrder

(* The row that a call writes at its COMMIT. *)
RowOf(c) ==
    [key |-> call[c].key, owner |-> IF call[c].pc = "commit" THEN call[c].owner ELSE System,
     tok |-> call[c].tok, reason |-> call[c].reason, at |-> call[c].at]

(* Stamped calls go on to the ledger or vanish. *)
LEMMA StampedKept ==
  ASSUME CallOK,
         \A r \in ledger' : \/ r \in ledger
                            \/ r.reason = "FAILOVER"
                            \/ \E c \in Calls : call[c].pc \in {"commit", "rcommit"} /\ r = RowOf(c),
         \A c \in Calls : call'[c].pc \in {"commit", "rcommit"} => call'[c] = call[c]
  PROVE  Stamped' \subseteq Stamped
  <1> SUFFICES ASSUME NEW s \in Stamped' PROVE s \in Stamped
    OBVIOUS
  <1>1. CASE \E r \in ledger' : /\ r.reason # "FAILOVER"
               /\ s = [key |-> r.key, tok |-> r.tok, at |-> r.at, got |-> r.reason \in AcquireReasons]
    <2> PICK r \in ledger' : /\ r.reason # "FAILOVER"
               /\ s = [key |-> r.key, tok |-> r.tok, at |-> r.at, got |-> r.reason \in AcquireReasons]
      BY <1>1
    <2>1. CASE r \in ledger
      BY <2>1 DEF Stamped
    <2>2. ASSUME NEW c \in Calls, call[c].pc \in {"commit", "rcommit"}, r.key = call[c].key,
                 r.tok = call[c].tok, r.at = call[c].at, r.reason = call[c].reason
          PROVE  s \in Stamped
      <3>1. (r.reason \in AcquireReasons) = (call[c].pc = "commit")
        BY <2>2 DEF CallOK, CallFields, Acquiring, Reclaiming, AcquireReasons, ReclaimReasons
      <3> QED BY <2>2, <3>1 DEF Stamped
    <2> QED
      BY <2>1, <2>2 DEF RowOf
  <1>2. CASE \E c \in Calls : /\ call'[c].pc \in {"commit", "rcommit"}
               /\ s = [key |-> call'[c].key, tok |-> call'[c].tok, at |-> call'[c].at,
                       got |-> call'[c].pc = "commit"]
    <2> PICK c \in Calls : /\ call'[c].pc \in {"commit", "rcommit"}
               /\ s = [key |-> call'[c].key, tok |-> call'[c].tok, at |-> call'[c].at,
                       got |-> call'[c].pc = "commit"]
      BY <1>2
    <2>1. call'[c] = call[c]
      OBVIOUS
    <2>2. s = [key |-> call[c].key, tok |-> call[c].tok, at |-> call[c].at,
               got |-> call[c].pc = "commit"]
      BY <2>1
    <2>3. c \in {d \in Calls : call[d].pc \in {"commit", "rcommit"}}
      BY <2>1
    <2> QED BY <2>2, <2>3 DEF Stamped
  <1> QED
    BY <1>1, <1>2 DEF Stamped

(* Calls end or go on, rows of stamped calls may appear in the ledger; what
   Redis has under an acquire that writes its row stays, or Redis has become
   another, or the acquire is overtaken. *)
LEMMA FallingStep ==
  ASSUME IInv, NewestInv, clock' = clock,
         \A r \in ledger' : \/ r \in ledger
                            \/ r.reason = "FAILOVER"
                            \/ \E c \in Calls : call[c].pc \in {"commit", "rcommit"} /\ r = RowOf(c),
         \A c \in Calls : call'[c] = call[c] \/ call'[c].pc \notin Issuing,
         \A k \in Keys : token'[k] \in {token[k], NoToken}, overtaken \subseteq overtaken',
         \A c \in Writing : call'[c] = call[c] =>
            \/ /\ redisId' = redisId
               /\ lock'[call[c].key] = lock[call[c].key]
               /\ token'[call[c].key] = token[call[c].key]
            \/ call[c].tok.inst # redisId'
            \/ [key |-> call[c].key, tok |-> call[c].tok] \in overtaken'
  PROVE  NewestInv'
  <1>1. CallOK
    BY DEF IInv, TypeInv
  <1>2. \A c \in Calls : call'[c].pc \in {"commit", "rcommit"} => call'[c] = call[c]
    BY DEF Issuing, Acquiring, Reclaiming
  <1>3. Stamped' \subseteq Stamped
    BY <1>1, <1>2, StampedKept
  <1>4. \A c \in Writing' : c \in Writing /\ call'[c] = call[c] /\ call[c].key \in Keys
    BY <1>1 DEF Writing, Issuing, CallOK, CallFields
  <1>5. NoIssue
    <2>1. ASSUME NEW r \in ledger'
          PROVE  \/ r.reason = "FAILOVER"
                 \/ r \in ledger
                 \/ \E c \in Calls : /\ call[c].pc \in Issuing
                                     /\ r.key = call[c].key
                                     /\ r.owner = call[c].owner
                                     /\ r.tok = call[c].tok
      BY <1>1 DEF Issuing, Acquiring, Reclaiming, CallOK, CallFields, RowOf
    <2> QED BY <2>1 DEF NoIssue
  <1>6. Writing' \subseteq Writing
    BY <1>4
  <1>7. \A c \in Writing' : call'[c].key \in Keys
    BY <1>4
  <1>8. \A c \in Writing' :
            \/ /\ redisId' = redisId
               /\ lock'[call[c].key] = lock[call[c].key]
               /\ token'[call[c].key] = token[call[c].key]
            \/ call[c].tok.inst # redisId'
            \/ [key |-> call[c].key, tok |-> call[c].tok] \in overtaken'
    BY <1>4
  <1> QED
    BY <1>3, <1>5, <1>6, <1>7, <1>8, QuietStep

(* What has a timestamp was issued. *)
LEMMA StampedIssued == \A s \in Stamped : \E i \in Issued : i.key = s.key /\ i.tok = s.tok
  <1> SUFFICES ASSUME NEW s \in Stamped PROVE \E i \in Issued : i.key = s.key /\ i.tok = s.tok
    OBVIOUS
  <1>1. ASSUME NEW r \in ledger, r.reason # "FAILOVER", s.key = r.key, s.tok = r.tok
        PROVE  \E i \in Issued : i.key = s.key /\ i.tok = s.tok
    <2> DEFINE i == [key |-> r.key, owner |-> r.owner, tok |-> r.tok]
    <2>1. i \in Issued
      BY <1>1 DEF Issued
    <2>2. i.key = s.key /\ i.tok = s.tok
      BY <1>1
    <2> HIDE DEF i
    <2> QED BY <2>1, <2>2
  <1>2. ASSUME NEW d \in Calls, call[d].pc \in {"commit", "rcommit"}, s.key = call[d].key,
               s.tok = call[d].tok
        PROVE  \E i \in Issued : i.key = s.key /\ i.tok = s.tok
    <2> DEFINE i == [key |-> call[d].key, owner |-> call[d].owner, tok |-> call[d].tok]
    <2>1. i \in Issued
      BY <1>2 DEF Issued, Issuing, Acquiring, Reclaiming
    <2>2. i.key = s.key /\ i.tok = s.tok
      BY <1>2
    <2> HIDE DEF i
    <2> QED BY <2>1, <2>2
  <1> QED BY <1>1, <1>2 DEF Stamped

(* BEGIN: an acquire that gets its timestamp has a token that none stamped
   before is newer than. *)
LEMMA BeginStep ==
  ASSUME IInv, NewestInv, NEW c \in Calls, Begin(c)
  PROVE  NewestInv'
  <1> DEFINE m == [key |-> call[c].key, tok |-> call[c].tok, at |-> clock,
                   got |-> call[c].pc = "begin"]
  <1>t. TypeOK /\ CallOK /\ clock \in Nat
    BY DEF IInv, TypeInv, TypeOK
  <1>1. /\ UNCHANGED <<redisId, lock, token, ledger, overtaken>> /\ clock' = clock + 1
        /\ \A d \in Calls : d # c => call'[d] = call[d]
        /\ call'[c].key = call[c].key /\ call'[c].tok = call[c].tok /\ call'[c].at = clock
        /\ call'[c].owner = call[c].owner
        /\ <<call[c].pc, call'[c].pc>> \in {<<"begin", "commit">>, <<"rbegin", "rcommit">>,
                                            <<"fbegin", "fcommit">>}
    <2>1. call[c] \in CallType
      BY <1>t DEF TypeOK, CallType
    <2> QED BY <1>t, <2>1 DEF Begin, redisVars, TypeOK, CallType
  <1>2. Issued' = Issued
    <2>1. \A d \in Calls : call'[d].pc \in Issuing <=> call[d].pc \in Issuing
      BY <1>1 DEF Issuing, Acquiring, Reclaiming
    <2>2. \A d \in Calls : call'[d].key = call[d].key /\ call'[d].owner = call[d].owner
                           /\ call'[d].tok = call[d].tok
      BY <1>1
    <2> QED BY <1>1, <2>1, <2>2 DEF Issued
  <1>3. Writing' = Writing /\ \A d \in Calls : call'[d].key = call[d].key /\ call'[d].tok = call[d].tok
    BY <1>1 DEF Writing, Acquiring
  <1>4. StoredNewest' /\ WritingNewest' /\ WritingHeld'
    <2>1. StoredNewest'
      BY <1>1, <1>2 DEF NewestInv, StoredNewest, Newest
    <2> USE DEF Overtaken
    <2>2. \A d \in Writing : call'[d].key = call[d].key /\ call'[d].tok = call[d].tok
      BY <1>3 DEF Writing
    <2>3. WritingNewest'
      BY <1>1, <1>2, <1>3, <2>2 DEF NewestInv, WritingNewest, Newest
    <2>4. UNCHANGED <<redisId, lock, token, overtaken>>
      BY <1>1
    <2>5. WritingHeld'
      BY <1>3, <2>2, <2>4 DEF NewestInv, WritingHeld
    <2> QED BY <2>1, <2>3, <2>5
  <1>5. \A s \in Stamped' : s \in Stamped \/ (s = m /\ call[c].pc \in {"begin", "rbegin"})
    <2> SUFFICES ASSUME NEW s \in Stamped', s \notin Stamped
                 PROVE  s = m /\ call[c].pc \in {"begin", "rbegin"}
      OBVIOUS
    <2>1. PICK d \in Calls : /\ call'[d].pc \in {"commit", "rcommit"}
               /\ s = [key |-> call'[d].key, tok |-> call'[d].tok, at |-> call'[d].at,
                       got |-> call'[d].pc = "commit"]
      BY <1>1 DEF Stamped
    <2>2. d = c
      <3>1. d # c => s = [key |-> call[d].key, tok |-> call[d].tok, at |-> call[d].at,
                       got |-> call[d].pc = "commit"]
        BY <1>1, <2>1
      <3>2. d # c => call[d].pc \in {"commit", "rcommit"}
        BY <1>1, <2>1
      <3> QED BY <3>1, <3>2 DEF Stamped
    <2>3. (call'[c].pc = "commit") = (call[c].pc = "begin")
      BY <1>1
    <2>4. s = [key |-> call[c].key, tok |-> call[c].tok, at |-> clock,
               got |-> call'[c].pc = "commit"]
      BY <1>1, <2>1, <2>2
    <2>5. call[c].pc \in {"begin", "rbegin"}
      BY <1>1, <2>1, <2>2
    <2> QED BY <2>3, <2>4, <2>5
  <1>6. \A s \in Stamped : /\ s.at < clock /\ s.at \in Nat
                           /\ \E i \in Issued : i.key = s.key /\ i.tok = s.tok
    <2>1. \A r \in ledger : r.at \in Nat
      BY <1>t DEF TypeOK, Row
    <2>2. \A d \in Calls : call[d].at \in Nat
      BY <1>t DEF TypeOK
    <2>3. \A s \in Stamped : s.at < clock /\ s.at \in Nat
      BY <2>1, <2>2 DEF Stamped, NewestInv, StampedPast
    <2>4. \A s \in Stamped : \E i \in Issued : i.key = s.key /\ i.tok = s.tok
      BY StampedIssued
    <2> QED BY <2>3, <2>4
  <1>7. m.at = clock /\ m.key = call[c].key /\ m.tok = call[c].tok /\ (m.got => c \in Writing)
    BY DEF Writing, Acquiring
  <1> HIDE DEF m
  <1>8. StampedPast'
    BY <1>t, <1>1, <1>5, <1>6, <1>7 DEF StampedPast
  <1>9. StampedOrder'
    <2> SUFFICES ASSUME NEW r \in Stamped', NEW s \in Stamped', r.got, s.key = r.key,
                        s.tok.inst = r.tok.inst, s.at <= r.at,
                        ~ Overtaken(r.key, r.tok)'
                 PROVE  s.tok.ctr <= r.tok.ctr
      BY DEF StampedOrder
    <2> USE <1>1 DEF Overtaken
    <2>1. CASE r \in Stamped /\ s \in Stamped
      BY <2>1 DEF NewestInv, StampedOrder
    <2>2. CASE r = m /\ s \in Stamped
      BY <1>6, <1>7, <2>2 DEF NewestInv, WritingNewest, Newest
    <2>3. CASE r \in Stamped /\ s = m
      BY <1>t, <1>6, <1>7, <2>3
    <2>4. CASE r = m /\ s = m
      BY <1>t, <1>7, <2>4 DEF TypeOK, Token
    <2> QED BY <1>5, <2>1, <2>2, <2>3, <2>4
  <1> QED
    BY <1>4, <1>8, <1>9 DEF NewestInv

(* A call that writes a row of an acquire has a minted token. *)
LEMMA WritingMinted ==
  ASSUME IInv, NEW c \in Writing
  PROVE  /\ c \in Calls /\ call[c].key \in Keys /\ call[c].tok \in Token
         /\ Minted(call[c].key, call[c].tok) /\ Issued # {}
         /\ c \in InFlight(call[c].key)
  <1> DEFINE i == [key |-> call[c].key, owner |-> call[c].owner, tok |-> call[c].tok]
  <1>1. c \in Calls /\ call[c].pc \in Acquiring /\ c \in InFlight(call[c].key)
    BY DEF Writing, InFlight
  <1>2. i \in Issued
    BY <1>1 DEF Issued, Issuing
  <1>3. i.key = call[c].key /\ i.tok = call[c].tok
    OBVIOUS
  <1> HIDE DEF i
  <1> QED
    BY <1>1, <1>2, <1>3 DEF IInv, IssuedMinted

(* A step of the ledger, or of nothing: Redis stays as it is. *)
LEMMA LedgerStep ==
  ASSUME IInv, NewestInv, clock' = clock, UNCHANGED <<redisId, lock, token>>,
         overtaken' = overtaken,
         \A r \in ledger' : \/ r \in ledger
                            \/ r.reason = "FAILOVER"
                            \/ \E c \in Calls : call[c].pc \in {"commit", "rcommit"} /\ r = RowOf(c),
         \A c \in Calls : call'[c] = call[c] \/ call'[c].pc \notin Issuing
  PROVE  NewestInv'
  BY FallingStep

(* A step that changes Redis under key k only, by deletions, and overtakes the
   acquires of the key that are writing their row. *)
LEMMA DropStep ==
  ASSUME IInv, NewestInv, NEW k \in Keys, Overtake(k),
         clock' = clock, redisId' = redisId, ledger' = ledger,
         \A l \in Keys : token'[l] \in {token[l], NoToken},
         \A l \in Keys \ {k} : lock'[l] = lock[l] /\ token'[l] = token[l],
         \A c \in Calls : call'[c] = call[c] \/ call'[c].pc \notin Issuing
  PROVE  NewestInv'
  <1>1. overtaken \subseteq overtaken'
    BY DEF Overtake
  <1>2. ASSUME NEW c \in Writing
        PROVE  \/ call[c].key \in Keys \ {k}
               \/ [key |-> call[c].key, tok |-> call[c].tok] \in overtaken'
    BY WritingMinted DEF Overtake
  <1>3. \A c \in Writing : call'[c] = call[c] =>
            \/ /\ redisId' = redisId
               /\ lock'[call[c].key] = lock[call[c].key]
               /\ token'[call[c].key] = token[call[c].key]
            \/ call[c].tok.inst # redisId'
            \/ [key |-> call[c].key, tok |-> call[c].tok] \in overtaken'
    BY <1>2
  <1> QED
    BY <1>1, <1>3, FallingStep

(* A step that gives Redis an id that no acquire in progress has. *)
LEMMA NewIdStep ==
  ASSUME IInv, NewestInv, clock' = clock, ledger' = ledger, overtaken' = overtaken,
         \A l \in Keys : token'[l] \in {token[l], NoToken},
         \A c \in Writing : call[c].tok.inst # redisId',
         \A c \in Calls : call'[c] = call[c] \/ call'[c].pc \notin Issuing
  PROVE  NewestInv'
  BY FallingStep

(* acquire_lock.lua on a free key. *)
LEMMA AcquireFreeNewest ==
  ASSUME IInv, NewestInv, TypeOK', NEW c \in Calls, NEW k \in Keys, NEW o \in Owners,
         AcquireFree(c, k, o)
  PROVE  NewestInv'
  <1> DEFINE t == NextToken(k)
  <1>1. Issues(c, k, o, t)
    BY AcquireFreeIssues
  <1>2. /\ redisId # NoId /\ lock[k] = NoOwner /\ clock' = clock /\ call'[c].pc = "begin"
        /\ lock'[k] = o /\ counter' = [counter EXCEPT ![k] = @ + 1] /\ overtaken' = overtaken
    BY DEF AcquireFree, MayIssue, Ready, IInv, TypeInv, TypeOK, pgVars, IdleCall
  <1>3. Newest(k, t)
    <2>1. \A i \in Issued : i.key = k /\ i.tok.inst = t.inst => i.tok.ctr < t.ctr
      BY <1>2, NextTokenNew
    <2>2. \A i \in Issued : i.tok.ctr \in Nat
      BY DEF IInv, IssuedMinted, Token
    <2>3. t.ctr \in Nat
      BY <1>2, NextTokenNew DEF Token
    <2> QED BY <2>1, <2>2, <2>3 DEF Newest
  <1>4. t.inst = redisId
    BY DEF NextToken
  <1>5. \A d \in Writing : call[d].key = k /\ call[d].tok.inst = t.inst =>
            call[d].tok = t \/ [key |-> k, tok |-> call[d].tok] \in overtaken'
    BY <1>2, <1>4 DEF NewestInv, WritingHeld, Overtaken
  <1>6. lock'[k] # NoOwner
    BY <1>2, NamesAssumption
  <1> HIDE DEF t
  <1> QED
    BY <1>1, <1>2, <1>3, <1>4, <1>5, <1>6, HandOut

(* acquire_lock.lua by the owner. *)
LEMMA AcquireReentrantNewest ==
  ASSUME IInv, NewestInv, TypeOK', NEW c \in Calls, NEW k \in Keys, NEW o \in Owners,
         AcquireReentrant(c, k, o)
  PROVE  NewestInv'
  <1> DEFINE t == IF token[k] # NoToken THEN token[k] ELSE NextToken(k)
  <1>1. Issues(c, k, o, t)
    BY AcquireReentrantIssues
  <1>2. /\ redisId # NoId /\ lock[k] = o /\ clock' = clock /\ call'[c].pc = "begin"
        /\ lock' = lock /\ overtaken' = overtaken
    BY DEF AcquireReentrant, MayIssue, Ready, IInv, TypeInv, TypeOK, pgVars, IdleCall
  <1>3. lock'[k] # NoOwner
    BY <1>2, NamesAssumption
  <1>4. /\ Newest(k, t)
        /\ t.inst = redisId \/ t = token[k]
        /\ \A d \in Writing : call[d].key = k /\ call[d].tok.inst = t.inst =>
              call[d].tok = t \/ [key |-> k, tok |-> call[d].tok] \in overtaken'
    <2> USE DEF Overtaken
    <2>1. CASE token[k] # NoToken
      <3>1. t = token[k]
        BY <2>1
      <3> QED
        BY <1>2, <2>1, <3>1 DEF NewestInv, StoredNewest, WritingHeld
    <2>2. CASE token[k] = NoToken
      <3>1. t = NextToken(k) /\ counter' = [counter EXCEPT ![k] = @ + 1]
        BY <2>2 DEF AcquireReentrant
      <3>2. \A i \in Issued : i.key = k /\ i.tok.inst = t.inst => i.tok.ctr < t.ctr
        BY <1>2, <3>1, NextTokenNew
      <3>3. \A i \in Issued : i.tok.ctr \in Nat
        BY DEF IInv, IssuedMinted, Token
      <3>4. t.ctr \in Nat
        BY <1>2, <3>1, NextTokenNew DEF Token
      <3>5. t.inst = redisId
        BY <3>1 DEF NextToken
      <3>6. Newest(k, t)
        BY <3>2, <3>3, <3>4 DEF Newest
      <3>7. NoToken.inst = NoId
        BY DEF NoToken
      <3>8. \A d \in Writing : call[d].key = k /\ call[d].tok.inst = redisId =>
               [key |-> k, tok |-> call[d].tok] \in overtaken'
        BY <1>2, <2>2, <3>7 DEF NewestInv, WritingHeld
      <3> QED
        BY <3>5, <3>6, <3>8
    <2> QED
      BY <2>1, <2>2
  <1> HIDE DEF t
  <1> QED
    BY <1>1, <1>2, <1>3, <1>4, HandOut

(* bump_fencing.lua *)
LEMMA ReclaimNewest ==
  ASSUME IInv, NewestInv, TypeOK', NEW c \in Calls, NEW k \in Keys,
         NEW reason \in ReclaimReasons, ReclaimRedis(c, k, reason)
  PROVE  NewestInv'
  <1> DEFINE t == NextToken(k)
  <1>1. Issues(c, k, System, t)
    BY ReclaimIssues
  <1>2. /\ redisId # NoId /\ clock' = clock /\ call'[c].pc = "rbegin"
        /\ counter' = [counter EXCEPT ![k] = @ + 1] /\ Overtake(k)
    BY DEF ReclaimRedis, MayIssue, Ready, IInv, TypeInv, TypeOK, pgVars, IdleCall
  <1>3. Newest(k, t)
    <2>1. \A i \in Issued : i.key = k /\ i.tok.inst = t.inst => i.tok.ctr < t.ctr
      BY <1>2, NextTokenNew
    <2>2. \A i \in Issued : i.tok.ctr \in Nat
      BY DEF IInv, IssuedMinted, Token
    <2>3. t.ctr \in Nat
      BY <1>2, NextTokenNew DEF Token
    <2> QED BY <2>1, <2>2, <2>3 DEF Newest
  <1>4. t.inst = redisId
    BY DEF NextToken
  <1>5. /\ overtaken \subseteq overtaken'
        /\ \A d \in Writing : call[d].key = k => [key |-> k, tok |-> call[d].tok] \in overtaken'
    BY <1>2, WritingMinted DEF Overtake
  <1> HIDE DEF t
  <1>6. \A d \in Writing' : d \in Writing /\ call'[d] = call[d]
    BY <1>1, <1>2 DEF Writing, Acquiring, Issues
  <1>7. \A d \in Writing' : call'[d].key = k => [key |-> k, tok |-> call'[d].tok] \in overtaken'
    BY <1>5, <1>6
  <1> QED
    BY <1>1, <1>2, <1>3, <1>4, <1>5, <1>7, HandOut

(* Each action is one of the kinds above. *)
LEMMA NextNewest ==
  ASSUME MaxLosses = 0, IInv, NewestInv, [Next]_vars
  PROVE  NewestInv'
  <1>t. TypeOK /\ CallOK /\ TypeOK'
    BY NextIInv DEF IInv, TypeInv
  <1>0. IdleCall.pc = "idle" /\ "idle" \notin Issuing /\ "abort" \notin Issuing
        /\ "unledger" \notin Issuing /\ Rotating \cap Issuing = {}
    BY DEF IdleCall, Issuing, Acquiring, Reclaiming, Rotating
  <1>1. ASSUME NEW c \in Calls, Begin(c)
        PROVE  NewestInv'
    BY <1>1, BeginStep
  <1>2. ASSUME NEW c \in Calls, AcquireCommit(c) \/ AcquireFails(c)
        PROVE  NewestInv'
    <2>1. UNCHANGED <<redisId, lock, token, clock, overtaken>>
      BY <1>2 DEF AcquireCommit, AcquireFails, redisVars
    <2>2. \A d \in Calls : call'[d] = call[d] \/ call'[d].pc \notin Issuing
      <3>1. CASE AcquireCommit(c)
        BY <1>0, <1>t, <3>1 DEF AcquireCommit, TypeOK
      <3>2. CASE AcquireFails(c)
        BY <1>0, <1>t, <3>2 DEF AcquireFails, TypeOK
      <3> QED BY <1>2, <3>1, <3>2
    <2>3. \/ ledger' = ledger
          \/ call[c].pc = "commit" /\ DoubleWrite(c)
      BY <1>2 DEF AcquireCommit, AcquireFails
    <2>4. \A r \in ledger' : \/ r \in ledger
                             \/ call[c].pc = "commit" /\ r = RowOf(c)
      BY <2>3 DEF DoubleWrite, RowOf
    <2> QED BY <2>1, <2>2, <2>4, LedgerStep
  <1>3. ASSUME NEW c \in Calls, ReclaimCommit(c)
        PROVE  NewestInv'
    <2>1. UNCHANGED <<redisId, lock, token, clock, overtaken>>
      BY <1>3 DEF ReclaimCommit, redisVars
    <2>2. \A d \in Calls : call'[d] = call[d] \/ call'[d].pc \notin Issuing
      BY <1>0, <1>3, <1>t DEF ReclaimCommit, TypeOK
    <2>3. \A r \in ledger' : \/ r \in ledger
                             \/ call[c].pc = "rcommit" /\ r = RowOf(c)
      BY <1>3 DEF ReclaimCommit, RowOf
    <2> QED BY <2>1, <2>2, <2>3, LedgerStep
  <1>4. ASSUME NEW c \in Calls, CallFails(c) \/ ReleasePg(c) \/ CheckRedisFailover(c)
        PROVE  NewestInv'
    <2>1. UNCHANGED <<redisId, lock, token, clock, ledger, overtaken>>
      BY <1>4 DEF CallFails, ReleasePg, CheckRedisFailover, redisVars, pgVars
    <2>2. \A d \in Calls : call'[d] = call[d] \/ call'[d].pc \notin Issuing
      <3>1. CASE CallFails(c) \/ ReleasePg(c)
        BY <1>0, <1>t, <3>1 DEF CallFails, ReleasePg, TypeOK
      <3>2. CASE CheckRedisFailover(c)
        <4> DEFINE restore == [IdleCall EXCEPT !.pc = "restore",
                                               !.tok = [inst |-> pgId, ctr |-> 0]]
                   fbegin == [IdleCall EXCEPT !.pc = "fbegin",
                                              !.tok = [inst |-> nextId, ctr |-> 0],
                                              !.keys = {k \in Keys : pgLocks[k] # NoRow}]
        <4>1. call' = [call EXCEPT ![c] = restore] \/ call' = [call EXCEPT ![c] = fbegin]
          BY <3>2 DEF CheckRedisFailover
        <4>2. restore.pc = "restore" /\ fbegin.pc = "fbegin"
          BY DEF IdleCall
        <4> HIDE DEF restore, fbegin
        <4> QED BY <1>t, <4>1, <4>2 DEF TypeOK, Issuing, Acquiring, Reclaiming
      <3> QED BY <1>4, <3>1, <3>2
    <2> QED BY <2>1, <2>2, LedgerStep
  <1>5. ASSUME NEW c \in Calls, RotateCommit(c)
        PROVE  NewestInv'
    <2>1. UNCHANGED <<redisId, lock, token, clock, overtaken>>
      BY <1>5 DEF RotateCommit, redisVars
    <2>2. \A d \in Calls : call'[d] = call[d] \/ call'[d].pc \notin Issuing
      BY <1>t, <1>5 DEF RotateCommit, TypeOK, Issuing, Acquiring, Reclaiming
    <2>3. \A r \in ledger' : r \in ledger \/ r.reason = "FAILOVER"
      BY <1>5 DEF RotateCommit, FailoverLedgerRows
    <2> QED BY <2>1, <2>2, <2>3, LedgerStep
  <1>6. ASSUME NEW c \in Calls, AcquireAbort(c)
        PROVE  NewestInv'
    <2>1. /\ UNCHANGED <<redisId, clock, ledger>>
          /\ ReleaseScript(call[c].key, call[c].owner) /\ call[c].key \in Keys
      BY <1>6, <1>t DEF AcquireAbort, pgVars, CallOK, CallFields
    <2>2. \A d \in Calls : call'[d] = call[d] \/ call'[d].pc \notin Issuing
      BY <1>0, <1>6, <1>t DEF AcquireAbort, TypeOK
    <2>3. CASE lock[call[c].key] = call[c].owner
      <3>1. Overtake(call[c].key)
        BY <2>1, <2>3 DEF ReleaseScript
      <3>2. \A l \in Keys : token'[l] \in {token[l], NoToken}
        BY <1>t, <2>1, ReleaseStep
      <3>3. \A l \in Keys \ {call[c].key} : lock'[l] = lock[l] /\ token'[l] = token[l]
        BY <1>t, <2>1, <2>3 DEF ReleaseScript, TypeOK
      <3> QED BY <2>1, <2>2, <3>1, <3>2, <3>3, DropStep
    <2>4. CASE lock[call[c].key] # call[c].owner
      <3>1. UNCHANGED <<lock, token, overtaken>>
        BY <2>1, <2>4 DEF ReleaseScript
      <3> QED BY <2>1, <2>2, <3>1, LedgerStep
    <2> QED BY <2>3, <2>4
  <1>7. ASSUME NEW c \in Calls, NEW k \in Keys, NEW o \in Owners, ReleaseRedis(c, k, o)
        PROVE  NewestInv'
    <2>1. /\ UNCHANGED <<redisId, clock, ledger>> /\ lock[k] = o /\ ReleaseScript(k, o)
      BY <1>7 DEF ReleaseRedis, pgVars
    <2>2. \A d \in Calls : call'[d] = call[d] \/ call'[d].pc \notin Issuing
      BY <1>7, <1>t DEF ReleaseRedis, TypeOK, Issuing, Acquiring, Reclaiming, IdleCall
    <2>3. Overtake(k)
      BY <2>1 DEF ReleaseScript
    <2>4. \A l \in Keys : token'[l] \in {token[l], NoToken}
      BY <1>t, <2>1, ReleaseStep
    <2>5. \A l \in Keys \ {k} : lock'[l] = lock[l] /\ token'[l] = token[l]
      BY <1>t, <2>1 DEF ReleaseScript, TypeOK
    <2> QED BY <2>1, <2>2, <2>3, <2>4, <2>5, DropStep
  <1>8. ASSUME NEW k \in Keys, LockExpires(k) \/ TokenExpires(k)
        PROVE  NewestInv'
    <2>1. UNCHANGED <<redisId, clock, ledger, call>> /\ Overtake(k)
      BY <1>8 DEF LockExpires, TokenExpires, pgVars
    <2>2. /\ \A l \in Keys : token'[l] \in {token[l], NoToken}
          /\ \A l \in Keys \ {k} : lock'[l] = lock[l] /\ token'[l] = token[l]
      BY <1>8, <1>t DEF LockExpires, TokenExpires, TypeOK
    <2>3. \A d \in Calls : call'[d] = call[d]
      BY <2>1
    <2> QED BY <2>1, <2>2, <2>3, DropStep
  <1>9. ASSUME NEW p \in Procs, Crash(p)
        PROVE  NewestInv'
    <2>1. UNCHANGED <<redisId, lock, token, clock, ledger, overtaken>>
      BY <1>9 DEF Crash, redisVars, pgVars
    <2>2. \A d \in Calls : call'[d] = call[d] \/ call'[d].pc \notin Issuing
      BY <1>0, <1>9 DEF Crash
    <2> QED BY <2>1, <2>2, LedgerStep
  <1>10. CASE UNCHANGED vars
    <2>1. UNCHANGED <<redisId, lock, token, clock, ledger, call, overtaken>>
      BY <1>10 DEF vars, redisVars, pgVars
    <2>2. \A d \in Calls : call'[d] = call[d]
      BY <2>1
    <2> QED BY <2>1, <2>2, LedgerStep
  <1>11. ASSUME NEW p \in Procs, EnsureInstanceId(p)
        PROVE  NewestInv'
    <2>1. UNCHANGED <<lock, token, clock, ledger, call, overtaken>>
      BY <1>11 DEF EnsureInstanceId, pgVars
    <2>2. \A d \in Calls : call'[d] = call[d]
      BY <2>1
    <2>3. CASE redisId # NoId
      <3>1. redisId' = redisId
        BY <1>11, <2>3 DEF EnsureInstanceId
      <3> QED BY <2>1, <2>2, <3>1, LedgerStep
    <2>4. CASE redisId = NoId
      <3>1. Writing = {}
        BY <2>4, WritingMinted DEF IInv, Fresh
      <3> QED BY <2>1, <2>2, <3>1, NewIdStep
    <2> QED BY <2>3, <2>4
  <1>12. ASSUME NEW c \in Calls, RotateSet(c)
        PROVE  NewestInv'
    <2>1. /\ call[c].pc \in Rotating /\ redisId' = call[c].tok.inst
          /\ UNCHANGED <<lock, token, clock, ledger, overtaken>>
      BY <1>12 DEF RotateSet, pgVars, Rotating
    <2>2. \A d \in Calls : call'[d] = call[d] \/ call'[d].pc \notin Issuing
      BY <1>0, <1>12, <1>t DEF RotateSet, TypeOK
    <2>3. \A d \in Writing : call[d].tok.inst # redisId'
      BY <2>1, WritingMinted DEF Minted
    <2> QED BY <2>1, <2>2, <2>3, NewIdStep
  <1>13. CASE PromoteMaster
    <2>1. redisId' = nextId /\ UNCHANGED <<clock, ledger, call, overtaken>>
          /\ \A k \in Keys : token'[k] = NoToken
      BY <1>13 DEF PromoteMaster, pgVars, EmptyRedis
    <2>2. \A d \in Writing : call[d].tok.inst # redisId'
      BY <1>t, <2>1, WritingMinted DEF Minted, TypeOK, Token
    <2>3. \A d \in Calls : call'[d] = call[d]
      BY <2>1
    <2> QED BY <2>1, <2>2, <2>3, NewIdStep
  <1>14. ~ LoseRedis
    BY <1>t DEF LoseRedis, TypeOK
  <1>15. \A c \in Calls : ~ RestoreInstanceId(c)
    BY DEF RestoreInstanceId, IInv, IdInv
  <1>16. ASSUME NEW c \in Calls, NEW k \in Keys, NEW o \in Owners, AcquireFree(c, k, o)
        PROVE  NewestInv'
    BY <1>t, <1>16, AcquireFreeNewest
  <1>17. ASSUME NEW c \in Calls, NEW k \in Keys, NEW o \in Owners, AcquireReentrant(c, k, o)
        PROVE  NewestInv'
    BY <1>t, <1>17, AcquireReentrantNewest
  <1>18. ASSUME NEW c \in Calls, NEW k \in Keys, NEW reason \in ReclaimReasons,
               ReclaimRedis(c, k, reason)
        PROVE  NewestInv'
    BY <1>t, <1>18, ReclaimNewest
  <1> QED
    BY <1>1, <1>2, <1>3, <1>4, <1>5, <1>6, <1>7, <1>8, <1>9, <1>10, <1>11, <1>12,
       <1>13, <1>14, <1>15, <1>16, <1>17, <1>18
    DEF Next, ServiceStep, Request, Environment

(* The order of the timestamped transactions is what validation relies on. *)
LEMMA NewestAccepted == IInv /\ NewestInv => AcceptedIsNewest
  <1> SUFFICES ASSUME IInv, NewestInv, NEW p \in Procs, NEW r \in ledger, NEW s \in ledger,
                      r.key \in Keys, Accepts(p, r.key, r.owner, r.tok),
                      s.key = r.key, s.tok.inst = r.tok.inst, ~ Overtaken(r.key, r.tok)
               PROVE  s.tok.ctr <= r.tok.ctr
    BY DEF AcceptedIsNewest
  <1>1. PICK q \in ledger : /\ q.key = r.key /\ q.tok = r.tok /\ IsLatest(q)
                            /\ q.reason \in AcquireReasons
    BY DEF Accepts
  <1>2. r.tok.ctr \in Nat
    BY DEF IInv, TypeInv, TypeOK, Row, Token
  <1>3. CASE s.reason = "FAILOVER"
    BY <1>2, <1>3 DEF IInv, FailoverRows
  <1>4. CASE s.reason # "FAILOVER"
    <2> DEFINE st(x) == [key |-> x.key, tok |-> x.tok, at |-> x.at,
                         got |-> x.reason \in AcquireReasons]
    <2>1. st(q) \in Stamped /\ st(s) \in Stamped
      BY <1>1, <1>4 DEF Stamped, AcquireReasons
    <2>2. st(q).got /\ st(s).key = st(q).key /\ st(s).tok.inst = st(q).tok.inst
      BY <1>1
    <2>3. st(s).at <= st(q).at
      BY <1>1 DEF IsLatest
    <2>4. st(q).key = r.key /\ st(q).tok = r.tok /\ st(s).tok = s.tok
      BY <1>1
    <2>5. st(s).tok.ctr <= st(q).tok.ctr
      BY <2>1, <2>2, <2>3, <2>4 DEF NewestInv, StampedOrder
    <2> QED BY <2>4, <2>5
  <1> QED BY <1>3, <1>4

(* As long as Redis never restarts empty, validateFencingToken accepts only the
   newest token of its key that was issued under its id, or the token of an
   acquire that lost its lock or token key between its script and its COMMIT
   (FencingLock!AcceptedIsNewest): whatever is released, reclaimed, expires,
   crashes or fails over at any time, an acquire in progress included, and in
   whatever order the transactions commit. *)
THEOREM AcceptedIsNewestThm ==
  ASSUME MaxLosses = 0
  PROVE  Spec => []AcceptedIsNewest
  <1>1. Init => IInv /\ NewestInv
    BY InitIInv, InitNewestInv
  <1>2. IInv /\ NewestInv /\ [Next]_vars => (IInv /\ NewestInv)'
    BY NextIInv, NextNewest
  <1>3. IInv /\ NewestInv => AcceptedIsNewest
    BY NewestAccepted
  <1> QED
    BY <1>1, <1>2, <1>3, PTL DEF Spec

(* Under the same condition, once a reclaim is in the ledger no process accepts
   a token of the key that is older under the same id, but that of an acquire
   overtaken while it wrote its row (FencingLock!ReclaimRejectsPriorTokens): validateFencingToken's promise that
   "workers holding the previous owner token are rejected". *)
THEOREM ReclaimRejectsPriorThm ==
  ASSUME MaxLosses = 0
  PROVE  Spec => []ReclaimRejectsPriorTokens
  <1>1. IInv /\ AcceptedIsNewest => ReclaimRejectsPriorTokens
    <2> SUFFICES ASSUME IInv, AcceptedIsNewest, NEW p \in Procs,
                        NEW q \in ledger, NEW r \in ledger,
                        q.reason \in ReclaimReasons, r.key = q.key,
                        r.tok.inst = q.tok.inst, r.tok.ctr < q.tok.ctr,
                        Accepts(p, r.key, r.owner, r.tok), ~ Overtaken(r.key, r.tok)
                 PROVE  FALSE
      BY DEF ReclaimRejectsPriorTokens
    <2>1. q.key \in Keys
      BY DEF IInv, FailoverRows, ReclaimReasons
    <2>2. q.tok.ctr <= r.tok.ctr
      BY <2>1 DEF AcceptedIsNewest
    <2>3. q.tok.ctr \in Nat /\ r.tok.ctr \in Nat
      BY DEF IInv, TypeInv, TypeOK, Row, Token
    <2> QED
      BY <2>2, <2>3
  <1>2. Init => IInv
    BY InitIInv
  <1>3. IInv /\ [Next]_vars => IInv'
    BY NextIInv
  <1>4. Spec => []AcceptedIsNewest
    BY AcceptedIsNewestThm
  <1> QED
    BY <1>1, <1>2, <1>3, <1>4, PTL DEF Spec

-----------------------------------------------------------------------------
(* The ledger as a register *)

(* No statement of the lock service deletes or updates a ledger row. *)
LEMMA LedgerGrows == [Next]_vars => ledger \subseteq ledger'
  <1> SUFFICES ASSUME [Next]_vars PROVE ledger \subseteq ledger'
    OBVIOUS
  <1>1. CASE UNCHANGED vars
    BY <1>1 DEF vars, pgVars
  <1>2. ASSUME NEW c \in Calls, AcquireCommit(c) \/ AcquireFails(c)
        PROVE  ledger \subseteq ledger'
    BY <1>2 DEF AcquireCommit, AcquireFails, DoubleWrite
  <1>3. ASSUME NEW c \in Calls, ReclaimCommit(c) \/ RotateCommit(c)
        PROVE  ledger \subseteq ledger'
    BY <1>3 DEF ReclaimCommit, RotateCommit
  <1>4. ASSUME NEW c \in Calls,
               \/ CheckRedisFailover(c) \/ RestoreInstanceId(c) \/ RotateSet(c)
               \/ Begin(c) \/ AcquireAbort(c) \/ ReleasePg(c) \/ CallFails(c)
        PROVE  ledger' = ledger
    BY <1>4 DEF CheckRedisFailover, RestoreInstanceId, RotateSet, Begin, AcquireAbort,
                ReleasePg, CallFails, pgVars
  <1>5. ASSUME NEW c \in Calls, Request(c) PROVE ledger' = ledger
    BY <1>5 DEF Request, AcquireFree, AcquireReentrant, ReleaseRedis, ReclaimRedis, pgVars
  <1>6. ASSUME NEW k \in Keys, LockExpires(k) \/ TokenExpires(k) PROVE ledger' = ledger
    BY <1>6 DEF LockExpires, TokenExpires, pgVars
  <1>7. ASSUME NEW p \in Procs, EnsureInstanceId(p) \/ Crash(p) PROVE ledger' = ledger
    BY <1>7 DEF EnsureInstanceId, Crash, pgVars
  <1>8. ASSUME PromoteMaster \/ LoseRedis PROVE ledger' = ledger
    BY <1>8 DEF PromoteMaster, LoseRedis, pgVars
  <1> QED
    BY <1>1, <1>2, <1>3, <1>4, <1>5, <1>6, <1>7, <1>8
    DEF Next, ServiceStep, Environment

(* Unless Redis restarts empty, the ledger implements TokenRegistry
   (FencingLock!LedgerIsRegister): the rest of the system may treat the
   token -> owner relation as a write-once map, for any number of keys, calls,
   processes, crashes, reclaims and failovers. *)
THEOREM LedgerIsRegisterThm ==
  ASSUME MaxLosses = 0
  PROVE  Spec => LedgerIsRegister
  <1> DEFINE entries == {[key |-> r.key, tok |-> r.tok, owner |-> r.owner] : r \in ledger}
  <1>1. Init => Register!Init
    BY DEF Init, Register!Init
  <1>2. TokenOwnerUnique' /\ [Next]_vars => [Register!Give]_entries
    <2> SUFFICES ASSUME TokenOwnerUnique', [Next]_vars PROVE Register!Give
      OBVIOUS
    <2>1. entries \subseteq entries'
      BY LedgerGrows
    <2>2. \A e, f \in entries' : e.key = f.key /\ e.tok = f.tok => e.owner = f.owner
      BY DEF TokenOwnerUnique
    <2> QED
      BY <2>1, <2>2 DEF Register!Give, Register!Determined
  <1>3. Spec => []TokenOwnerUnique
    BY TokenOwnerUniqueThm
  <1> QED
    BY <1>1, <1>2, <1>3, PTL DEF Spec, LedgerIsRegister, Register!Spec
=============================================================================
