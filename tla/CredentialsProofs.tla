------------------------- MODULE CredentialsProofs -------------------------
(***************************************************************************)
(* Proofs about Credentials and the Provisioner it extends, for any jobs,  *)
(* workers and bounds.                                                     *)
(*                                                                         *)
(* What a run is given, or refused, follows from how far the dispatch has  *)
(* come that it belongs to; what sshd accepts follows from how far the     *)
(* request, the sweep or the revoke of a key has come.                     *)
(***************************************************************************)
EXTENDS Credentials, FiniteSetTheorems, TLAPS

Calls == {"sweep", "revoke"}

(* The variables have the type the code gives them, and a dispatch that is
   under way has an attempt. *)
TypeOK ==
  /\ handler \in [Keys -> {"none", "asked", "job", "write", "enter", "ok", "refused"}]
  /\ files \subseteq Keys /\ ledger \subseteq Keys
  /\ expired \subseteq Keys /\ revoked \subseteq Keys
  /\ removing \in [Calls -> SUBSET Keys]
  /\ overlap \in BOOLEAN
  /\ attempt \in [Jobs -> 0 .. MaxAttempts]
  /\ dispatch \in [Jobs -> {"idle", "provision", "envelope", "store", "send", "sent"}]
  /\ envelope \in [Keys -> {"none", "fresh", "consumed"}]
  /\ lapsed \subseteq Keys
  /\ callback \in [Jobs -> 0 .. MaxAttempts]
  /\ sent \subseteq Keys
  /\ worker \in [Workers -> {<<"none">>} \cup ({"verified", "read", "got", "refused"} \X Keys)]
  /\ faults \in Nat
  /\ \A j \in Jobs : dispatch[j] # "idle" => attempt[j] \in 1 .. MaxAttempts

---------------------------------------------------------------------------
(* The provisioner. *)

(* A key that was entered is answered for, or has been taken out for cause. *)
KeyKept(k) ==
  /\ handler[k] = "enter" => k \in files
  /\ handler[k] = "ok" => k \in files \cap ledger \/ k \in expired \cup revoked
  /\ k \in ledger => handler[k] = "ok"
  /\ k \in removing["sweep"] => handler[k] = "ok" /\ k \in expired
  /\ k \in removing["revoke"] => handler[k] = "ok" /\ k \in revoked

KeysInv == (\A k \in Keys : KeyKept(k)) /\ NoForgottenKey

(* Without an overlap, one request at most is past the ceilings, and there is
   room for it. *)
RoomInv ==
  /\ IsFiniteSet(ledger)
  /\ ~overlap =>
       /\ Cardinality(Active) <= MaxKeys
       /\ \A j \in Jobs : Cardinality(ActiveOf(j)) <= MaxSessions
       /\ \A k \in InFlight :
            /\ \A m \in InFlight : m = k
            /\ Cardinality(Active) < MaxKeys
            /\ handler[k] # "job" => Cardinality(ActiveOf(k[1])) < MaxSessions

---------------------------------------------------------------------------
(* The dispatches. *)

(* A dispatch that has not begun has made nothing. *)
Untouched ==
  \A j \in Jobs, n \in 1 .. MaxAttempts :
    n > attempt[j] => /\ handler[<<j, n>>] = "none"
                      /\ envelope[<<j, n>>] = "none"
                      /\ <<j, n>> \notin sent

(* What the step a dispatch is at says about what it has made. *)
DispatchOK(j) ==
  /\ callback[j] <= attempt[j]
  /\ dispatch[j] \in {"provision", "envelope"} => envelope[Now(j)] = "none"
  /\ dispatch[j] \in {"envelope", "store", "send"} => handler[Now(j)] = "ok"
  /\ dispatch[j] \in {"store", "send"} => envelope[Now(j)] # "none"
  /\ dispatch[j] = "send" => callback[j] = attempt[j]
  /\ dispatch[j] \notin {"idle", "sent"} => Now(j) \notin sent

(* A dispatch whose run was started has installed its key, sealed its envelope
   and stored its hash, unless a newer dispatch has done so since. *)
SentOK ==
  \A j \in Jobs, n \in 1 .. MaxAttempts :
    <<j, n>> \in sent => /\ handler[<<j, n>>] = "ok"
                         /\ envelope[<<j, n>>] # "none"
                         /\ callback[j] >= n

DispatchInv == Untouched /\ SentOK /\ \A j \in Jobs : DispatchOK(j)

(* What a run has been told agrees with its dispatch. *)
WorkersInv ==
  \A k \in Keys : \A w \in Workers :
    /\ worker[w] \in {"verified", "read", "got", "refused"} \X {k} => k \in sent
    /\ worker[w] = <<"got", k>> =>
         /\ envelope[k] = "consumed"
         /\ \A v \in Workers : worker[v] = <<"got", k>> => v = w
    /\ worker[w] = <<"refused", k>> =>
         k \in lapsed \/ envelope[k] = "consumed" \/ callback[k[1]] > k[2]

IInv == TypeOK /\ KeysInv /\ RoomInv /\ DispatchInv /\ WorkersInv

---------------------------------------------------------------------------
(* Types *)

LEMMA NowKey == ASSUME TypeOK, NEW j \in Jobs, dispatch[j] # "idle" PROVE Now(j) \in Keys
  BY DEF TypeOK, Now, Keys

LEMMA InitType == Init => TypeOK
  <1> SUFFICES ASSUME Init PROVE TypeOK
    OBVIOUS
  <1>1. /\ attempt \in [Jobs -> 0 .. MaxAttempts] /\ callback \in [Jobs -> 0 .. MaxAttempts]
        /\ \A j \in Jobs : dispatch[j] = "idle"
    BY ProvisionerAssumption DEF Init
  <1>2. removing \in [Calls -> SUBSET Keys]
    BY DEF Init, ProvInit, Calls
  <1> QED
    BY <1>1, <1>2 DEF Init, ProvInit, TypeOK

(* The steps of dispatchJob. *)
LEMMA DispatchType ==
  ASSUME TypeOK, NEW j \in Jobs,
         Dispatch(j) \/ Retry(j) \/ ProvisionUnsent(j) \/ ProvisionAnswerLost(j) \/ DispatchCut(j)
  PROVE  TypeOK'
  <1> USE ProvisionerAssumption
  <1>1. CASE ProvisionPublicKey(j)
    <2>1. attempt[j] + 1 \in 1 .. MaxAttempts
      BY <1>1 DEF ProvisionPublicKey, TypeOK
    <2>2. attempt' \in [Jobs -> 0 .. MaxAttempts] /\ attempt'[j] = attempt[j] + 1
      BY <1>1, <2>1 DEF ProvisionPublicKey, TypeOK
    <2>3. \A i \in Jobs : dispatch'[i] # "idle" => attempt'[i] \in 1 .. MaxAttempts
      BY <1>1, <2>1 DEF ProvisionPublicKey, Step, TypeOK
    <2> QED
      BY <1>1, <2>2, <2>3 DEF ProvisionPublicKey, Step, TypeOK
  <1>2. CASE ProvisionUnsent(j)
    <2>1. attempt[j] + 1 \in 1 .. MaxAttempts
      BY <1>2 DEF ProvisionUnsent, TypeOK
    <2> QED
      BY <1>2, <2>1 DEF ProvisionUnsent, Fault, provVars, TypeOK
  <1>3. CASE \/ ProvisionAnswered(j) \/ CreateEnvelope(j) \/ StoreCallbackHash(j)
             \/ DispatchWorkflow(j) \/ Retry(j)
    BY <1>3, NowKey
    DEF ProvisionAnswered, CreateEnvelope, StoreCallbackHash, DispatchWorkflow, Retry, Step,
        provVars, TypeOK
  <1>4. CASE ProvisionAnswerLost(j) \/ DispatchCut(j)
    BY <1>4, NowKey DEF ProvisionAnswerLost, DispatchCut, Fault, Step, provVars, TypeOK
  <1> QED
    BY <1>1, <1>2, <1>3, <1>4 DEF Dispatch

(* The steps of the provisioner. *)
LEMMA ProvType == ASSUME TypeOK, ProvNext, UNCHANGED credVars PROVE TypeOK'
  <1>1. ASSUME NEW k \in Keys, Handle(k) PROVE TypeOK'
    <2>1. CASE CheckCeiling(k)
      BY <2>1 DEF CheckCeiling, To, credVars, TypeOK
    <2>2. CASE CheckJobCeiling(k) \/ WriteKey(k) \/ EnterKey(k)
      BY <2>2 DEF CheckJobCeiling, WriteKey, EnterKey, To, credVars, TypeOK
    <2> QED
      BY <1>1, <2>1, <2>2 DEF Handle
  <1>2. ASSUME NEW k \in Keys, ProvisionFails(k) PROVE TypeOK'
    BY <1>2
    DEF ProvisionFails, RequestRefused, LedgerUnreadable, KeyRefused, Refused, EntryFails, To, Fault,
        credVars, TypeOK
  <1>3. ASSUME NEW k \in Keys, Revoke(k) \/ Expires(k) PROVE TypeOK'
    BY <1>3 DEF Revoke, Expires, credVars, TypeOK, Calls
  <1>4. ASSUME Sweep \/ EndRevoke PROVE TypeOK'
    BY <1>4 DEF Sweep, EndRevoke, SweepOnce, RemoveFile, Fault, credVars, TypeOK, Calls
  <1>5. ASSUME ProvisionerCrash PROVE TypeOK'
    BY <1>5 DEF ProvisionerCrash, Fault, credVars, TypeOK, Calls
  <1> QED
    BY <1>1, <1>2, <1>3, <1>4, <1>5 DEF ProvNext

(* Expiry of an envelope and the steps of a run. *)
LEMMA RunType ==
  ASSUME TypeOK, NEW k \in Keys, EnvelopeLapses(k) \/ \E w \in Workers : Resolve(k, w)
  PROVE  TypeOK'
  BY DEF EnvelopeLapses, Resolve, ResolveDispatchJwe, ReadReference, Consume, Goes, Fault, provVars,
         TypeOK

LEMMA NextType == TypeOK /\ [Next]_vars => TypeOK'
  <1> SUFFICES ASSUME TypeOK, [Next]_vars PROVE TypeOK'
    OBVIOUS
  <1>1. CASE UNCHANGED vars
    BY <1>1 DEF vars, provVars, credVars, TypeOK, Now
  <1> QED
    BY <1>1, DispatchType, ProvType, RunType DEF Next

---------------------------------------------------------------------------
(* The steps that the provisioner does not see, and the request it is sent. *)

LEMMA Unseen ==
  ASSUME TypeOK, Next
  PROVE  \/ ProvNext /\ UNCHANGED credVars
         \/ \E j \in Jobs : ProvisionPublicKey(j)
         \/ UNCHANGED provVars /\ (faults' = faults \/ faults' = faults + 1)
  BY DEF Next, Dispatch, ProvisionAnswered, CreateEnvelope, StoreCallbackHash, DispatchWorkflow,
     Retry, ProvisionUnsent, ProvisionAnswerLost, DispatchCut, EnvelopeLapses, Resolve,
     ResolveDispatchJwe, ReadReference, Consume, Fault

(* A new request is for a key nobody has asked for before. *)
LEMMA NewRequest ==
  ASSUME TypeOK, Untouched, NEW j \in Jobs, ProvisionPublicKey(j)
  PROVE  /\ \E k \in Keys : handler[k] = "none" /\ handler' = [handler EXCEPT ![k] = "asked"]
         /\ UNCHANGED <<files, ledger, expired, revoked, removing, overlap, faults>>
  <1>1. attempt'[j] \in 1 .. MaxAttempts /\ attempt'[j] > attempt[j]
    BY ProvisionerAssumption DEF ProvisionPublicKey, TypeOK
  <1>2. <<j, attempt'[j]>> \in Keys /\ handler[<<j, attempt'[j]>>] = "none"
    BY <1>1 DEF Untouched, Keys
  <1> QED
    BY <1>2 DEF ProvisionPublicKey

LEMMA InitKeys == Init => KeysInv
  BY DEF Init, ProvInit, KeysInv, KeyKept, NoForgottenKey

LEMMA ProvKeys == ASSUME TypeOK, KeysInv, ProvNext PROVE KeysInv'
  <1> USE DEF KeysInv
  <1>1. ASSUME NEW k \in Keys, Handle(k) PROVE KeysInv'
    <2>1. CASE CheckCeiling(k)
      BY <2>1 DEF CheckCeiling, To, TypeOK, KeyKept, NoForgottenKey
    <2>2. CASE CheckJobCeiling(k)
      BY <2>2 DEF CheckJobCeiling, To, TypeOK, KeyKept, NoForgottenKey
    <2>3. CASE WriteKey(k)
      BY <2>3 DEF WriteKey, To, TypeOK, KeyKept, NoForgottenKey
    <2>4. CASE EnterKey(k)
      BY <2>4 DEF EnterKey, To, TypeOK, KeyKept, NoForgottenKey
    <2> QED
      BY <1>1, <2>1, <2>2, <2>3, <2>4 DEF Handle
  <1>2. ASSUME NEW k \in Keys, ProvisionFails(k) PROVE KeysInv'
    BY <1>2
    DEF ProvisionFails, RequestRefused, LedgerUnreadable, KeyRefused, Refused, EntryFails, To, Fault,
        TypeOK, KeyKept, NoForgottenKey
  <1>3. ASSUME NEW k \in Keys, Revoke(k) PROVE KeysInv'
    BY <1>3 DEF Revoke, TypeOK, Calls, KeyKept, NoForgottenKey
  <1>4. ASSUME NEW k \in Keys, Expires(k) PROVE KeysInv'
    BY <1>4 DEF Expires, TypeOK, KeyKept, NoForgottenKey
  <1>5. ASSUME SweepOnce PROVE KeysInv'
    BY <1>5 DEF SweepOnce, TypeOK, Calls, KeyKept, NoForgottenKey
  <1>6. ASSUME NEW by \in Calls, NEW k \in Keys, RemoveFile(by, k) PROVE KeysInv'
    BY <1>6 DEF RemoveFile, Fault, TypeOK, Calls, KeyKept, NoForgottenKey
  <1>7. ASSUME ProvisionerCrash PROVE KeysInv'
    BY <1>7 DEF ProvisionerCrash, Fault, InFlight, TypeOK, Calls, KeyKept, NoForgottenKey
  <1> QED
    BY <1>1, <1>2, <1>3, <1>4, <1>5, <1>6, <1>7 DEF ProvNext, Sweep, EndRevoke, Calls

LEMMA NextKeys == ASSUME TypeOK, Untouched, KeysInv, [Next]_vars PROVE KeysInv'
  <1>1. CASE \E j \in Jobs : ProvisionPublicKey(j)
    BY <1>1, NewRequest DEF TypeOK, KeysInv, KeyKept, NoForgottenKey
  <1>2. CASE UNCHANGED provVars /\ (faults' = faults \/ faults' = faults + 1)
    BY <1>2 DEF provVars, TypeOK, KeysInv, KeyKept, NoForgottenKey
  <1> QED
    BY <1>1, <1>2, Unseen, ProvKeys DEF vars

---------------------------------------------------------------------------
(* The ceilings *)

LEMMA InitRoom == Init => RoomInv
  <1> SUFFICES ASSUME Init PROVE RoomInv
    OBVIOUS
  <1>1. ledger = {} /\ InFlight = {} /\ Active = {} /\ \A j \in Jobs : ActiveOf(j) = {}
    BY DEF Init, ProvInit, InFlight, Active, ActiveOf
  <1> QED
    BY <1>1, FS_EmptySet, ProvisionerAssumption DEF RoomInv

(* Keys that leave the ledger, or expire, make room. *)
LEMMA FewerKeys ==
  ASSUME TypeOK, RoomInv, Active' \subseteq Active, ledger' \subseteq ledger,
         InFlight' \subseteq InFlight, overlap' = overlap,
         \A k \in InFlight' : handler'[k] # "job" => handler[k] # "job"
  PROVE  RoomInv'
  <1>1. IsFiniteSet(ledger')
    BY FS_Subset DEF RoomInv
  <1>2. IsFiniteSet(Active) /\ \A j \in Jobs : IsFiniteSet(ActiveOf(j))
    BY FS_Subset DEF RoomInv, Active, ActiveOf
  <1>3. /\ Cardinality(Active') \in Nat /\ Cardinality(Active) \in Nat
        /\ Cardinality(Active') <= Cardinality(Active)
    BY <1>2, FS_Subset, FS_CardinalityType
  <1>4. \A j \in Jobs : /\ Cardinality(ActiveOf(j)') \in Nat /\ Cardinality(ActiveOf(j)) \in Nat
                        /\ Cardinality(ActiveOf(j)') <= Cardinality(ActiveOf(j))
    <2> TAKE j \in Jobs
    <2>1. ActiveOf(j)' \subseteq ActiveOf(j)
      BY DEF ActiveOf
    <2> QED
      BY <1>2, <2>1, FS_Subset, FS_CardinalityType
  <1>5. \A k \in InFlight : k[1] \in Jobs
    BY DEF InFlight, Keys
  <1> QED
    BY <1>1, <1>3, <1>4, <1>5, ProvisionerAssumption DEF RoomInv

(* Adding a key adds at most one to what is counted. *)
LEMMA OneMore ==
  ASSUME NEW S, NEW k, IsFiniteSet(S)
  PROVE  /\ IsFiniteSet(S \cup {k})
         /\ Cardinality(S) \in Nat
         /\ \A T : T \subseteq S \cup {k} =>
              Cardinality(T) \in Nat /\ Cardinality(T) <= Cardinality(S) + 1
  <1>1. IsFiniteSet(S \cup {k})
    BY FS_AddElement
  <1>2. Cardinality(S \cup {k}) = IF k \in S THEN Cardinality(S) ELSE Cardinality(S) + 1
    BY FS_AddElement
  <1>3. Cardinality(S) \in Nat
    BY FS_CardinalityType
  <1>4. ASSUME NEW T, T \subseteq S \cup {k}
        PROVE  Cardinality(T) \in Nat /\ Cardinality(T) <= Cardinality(S \cup {k})
    BY <1>1, <1>4, FS_Subset, FS_CardinalityType
  <1> QED
    BY <1>1, <1>2, <1>3, <1>4

LEMMA ProvRoom == ASSUME TypeOK, RoomInv, ProvNext PROVE RoomInv'
  <1>1. ASSUME NEW k \in Keys, CheckCeiling(k) PROVE RoomInv'
    <2>1. Active' = Active /\ ledger' = ledger /\ \A j \in Jobs : ActiveOf(j)' = ActiveOf(j)
      BY <1>1 DEF CheckCeiling, Active, ActiveOf
    <2>2. CASE BelowCeiling
      <3>1. handler' = [handler EXCEPT ![k] = "job"] /\ InFlight' = InFlight \cup {k}
        BY <1>1, <2>2 DEF CheckCeiling, To, InFlight, TypeOK
      <3>2. overlap' = (overlap \/ InFlight # {})
        BY <1>1, <2>2 DEF CheckCeiling
      <3>3. ~overlap' => InFlight' = {k} /\ handler'[k] = "job"
        BY <3>1, <3>2 DEF TypeOK
      <3>4. Cardinality(Active)' < MaxKeys
        BY <2>1, <2>2 DEF BelowCeiling
      <3> QED
        BY <2>1, <3>2, <3>3, <3>4 DEF RoomInv
    <2>3. CASE ~BelowCeiling
      BY <1>1, <2>1, <2>3, FewerKeys DEF CheckCeiling, To, InFlight, TypeOK
    <2> QED
      BY <2>2, <2>3
  <1>2. ASSUME NEW k \in Keys, CheckJobCeiling(k) PROVE RoomInv'
    <2>1. Active' = Active /\ ledger' = ledger /\ \A j \in Jobs : ActiveOf(j)' = ActiveOf(j)
      BY <1>2 DEF CheckJobCeiling, Active, ActiveOf
    <2>2. CASE BelowJobCeiling(k[1])
      <3>1. k \in InFlight /\ InFlight' = InFlight /\ overlap' = overlap
        BY <1>2, <2>2 DEF CheckJobCeiling, To, InFlight, TypeOK
      <3>2. Cardinality(ActiveOf(k[1])) < MaxSessions /\ k[1] \in Jobs
        BY <2>2 DEF BelowJobCeiling, Keys
      <3>3. ~overlap => \A m \in InFlight : m = k
        BY <3>1 DEF RoomInv
      <3> QED
        BY <2>1, <3>1, <3>2, <3>3 DEF RoomInv
    <2>3. CASE ~BelowJobCeiling(k[1])
      BY <1>2, <2>1, <2>3, FewerKeys DEF CheckJobCeiling, To, InFlight, TypeOK
    <2> QED
      BY <2>2, <2>3
  <1>3. ASSUME NEW k \in Keys, WriteKey(k) PROVE RoomInv'
    BY <1>3, FewerKeys DEF WriteKey, To, Active, InFlight, TypeOK
  <1>4. ASSUME NEW k \in Keys, EnterKey(k) PROVE RoomInv'
    <2>1. k \in InFlight /\ InFlight' = InFlight \ {k} /\ overlap' = overlap
      BY <1>4 DEF EnterKey, To, InFlight, TypeOK
    <2>2. IsFiniteSet(ledger')
      BY <1>4, OneMore DEF EnterKey, RoomInv
    <2>3. ASSUME NEW S, IsFiniteSet(S), NEW T, T \subseteq S \cup {k}
          PROVE  Cardinality(T) \in Nat /\ Cardinality(T) <= Cardinality(S) + 1
      BY <2>3, OneMore
    <2>4. IsFiniteSet(Active) /\ \A j \in Jobs : IsFiniteSet(ActiveOf(j))
      BY FS_Subset DEF RoomInv, Active, ActiveOf
    <2>5. Active' \subseteq Active \cup {k} /\ ActiveOf(k[1])' \subseteq ActiveOf(k[1]) \cup {k}
      BY <1>4 DEF EnterKey, Active, ActiveOf
    <2>6. \A j \in Jobs : j # k[1] => ActiveOf(j)' = ActiveOf(j)
      BY <1>4 DEF EnterKey, Active, ActiveOf
    <2>7. k[1] \in Jobs /\ handler[k] # "job"
      BY <1>4 DEF EnterKey, Keys
    <2>8. CASE ~overlap
      <3>1. Cardinality(Active) < MaxKeys /\ Cardinality(ActiveOf(k[1])) < MaxSessions
        BY <2>1, <2>7, <2>8 DEF RoomInv
      <3>2. Cardinality(Active') <= MaxKeys
        BY <2>3, <2>4, <2>5, <3>1, ProvisionerAssumption
      <3>3. Cardinality(ActiveOf(k[1])') <= MaxSessions
        BY <2>3, <2>4, <2>5, <2>7, <3>1, ProvisionerAssumption
      <3>4. InFlight' = {}
        BY <2>1, <2>8 DEF RoomInv
      <3> QED
        BY <2>2, <2>6, <2>8, <3>2, <3>3, <3>4 DEF RoomInv
    <2> QED
      BY <2>1, <2>2, <2>8 DEF RoomInv
  <1>5. ASSUME NEW k \in Keys, ProvisionFails(k) PROVE RoomInv'
    BY <1>5, FewerKeys
    DEF ProvisionFails, RequestRefused, LedgerUnreadable, KeyRefused, Refused, EntryFails, To,
        Active, InFlight, TypeOK
  <1>6. ASSUME NEW k \in Keys, Revoke(k) \/ Expires(k) PROVE RoomInv'
    BY <1>6, FewerKeys DEF Revoke, Expires, Active, InFlight
  <1>7. ASSUME Sweep \/ EndRevoke PROVE RoomInv'
    BY <1>7, FewerKeys DEF Sweep, EndRevoke, SweepOnce, RemoveFile, Active, InFlight
  <1>8. ASSUME ProvisionerCrash PROVE RoomInv'
    BY <1>8, FewerKeys DEF ProvisionerCrash, Active, InFlight
  <1> QED
    BY <1>1, <1>2, <1>3, <1>4, <1>5, <1>6, <1>7, <1>8 DEF ProvNext, Handle

LEMMA NextRoom == ASSUME TypeOK, Untouched, RoomInv, [Next]_vars PROVE RoomInv'
  <1>1. CASE \E j \in Jobs : ProvisionPublicKey(j)
    BY <1>1, NewRequest, FewerKeys DEF Active, InFlight, TypeOK
  <1>2. CASE UNCHANGED provVars
    BY <1>2, FewerKeys DEF provVars, Active, InFlight
  <1> QED
    BY <1>1, <1>2, Unseen, ProvRoom DEF vars

---------------------------------------------------------------------------
(* Dispatches and runs *)

LEMMA InitDispatch == Init => DispatchInv
  <1> SUFFICES ASSUME Init PROVE DispatchInv
    OBVIOUS
  <1>1. \A j \in Jobs, n \in 1 .. MaxAttempts : <<j, n>> \in Keys
    BY DEF Keys
  <1> QED
    BY <1>1 DEF Init, ProvInit, DispatchInv, Untouched, SentOK, DispatchOK

LEMMA InitWorkers == Init => WorkersInv
  BY DEF Init, WorkersInv

(* The provisioner answers a request once, and only one it was sent. *)
LEMMA ProvHandler ==
  ASSUME TypeOK, ProvNext
  PROVE  \A k \in Keys : handler[k] \in {"none", "ok"} => handler'[k] = handler[k]
  <1>1. ASSUME NEW k \in Keys, Handle(k) \/ ProvisionFails(k)
        PROVE  \A m \in Keys : handler[m] \in {"none", "ok"} => handler'[m] = handler[m]
    BY <1>1
    DEF Handle, CheckCeiling, CheckJobCeiling, WriteKey, EnterKey, ProvisionFails, RequestRefused,
        LedgerUnreadable, KeyRefused, Refused, EntryFails, To, TypeOK
  <1>2. ASSUME \E k \in Keys : Revoke(k) \/ Expires(k) PROVE handler' = handler
    BY <1>2 DEF Revoke, Expires
  <1>3. ASSUME Sweep \/ EndRevoke PROVE handler' = handler
    BY <1>3 DEF Sweep, SweepOnce, EndRevoke, RemoveFile
  <1>4. ASSUME ProvisionerCrash
        PROVE  \A m \in Keys : handler[m] \in {"none", "ok"} => handler'[m] = handler[m]
    BY <1>4 DEF ProvisionerCrash, InFlight
  <1> QED
    BY <1>1, <1>2, <1>3, <1>4 DEF ProvNext

LEMMA ProvDispatch ==
  ASSUME TypeOK, DispatchInv, ProvNext, UNCHANGED credVars
  PROVE  DispatchInv'
  <1>1. \A j \in Jobs, n \in 1 .. MaxAttempts : <<j, n>> \in Keys
    BY DEF Keys
  <1>2. \A j \in Jobs : dispatch[j] # "idle" => Now(j) \in Keys
    BY NowKey
  <1>3. \A j \in Jobs : Now(j)' = Now(j)
    BY DEF Now, credVars
  <1>4. Untouched' /\ SentOK'
    BY <1>1, ProvHandler DEF DispatchInv, Untouched, SentOK, credVars
  <1>5. ASSUME NEW j \in Jobs PROVE DispatchOK(j)'
    BY <1>2, <1>3, ProvHandler DEF DispatchInv, DispatchOK, credVars
  <1> QED
    BY <1>4, <1>5 DEF DispatchInv

(* The steps of dispatchJob. *)
LEMMA DispatchDispatch ==
  ASSUME TypeOK, DispatchInv, NEW j \in Jobs,
         Dispatch(j) \/ Retry(j) \/ ProvisionUnsent(j) \/ ProvisionAnswerLost(j) \/ DispatchCut(j)
  PROVE  DispatchInv'
  <1> USE DEF DispatchInv
  <1>1. \A i \in Jobs, n \in 1 .. MaxAttempts : <<i, n>> \in Keys
    BY DEF Keys
  <1>2. \A i \in Jobs : attempt[i] \in Nat /\ callback[i] \in Nat
    BY ProvisionerAssumption DEF TypeOK
  <1>3. dispatch[j] # "idle" => Now(j) \in Keys /\ attempt[j] \in 1 .. MaxAttempts
    BY NowKey DEF TypeOK
  <1>4. CASE ProvisionPublicKey(j)
    <2>1. /\ attempt' \in [Jobs -> Nat] /\ attempt'[j] = attempt[j] + 1
          /\ \A i \in Jobs : i # j => attempt'[i] = attempt[i]
          /\ attempt'[j] \in 1 .. MaxAttempts
      BY <1>2, <1>4, ProvisionerAssumption DEF ProvisionPublicKey, TypeOK
    <2>2. /\ handler' = [handler EXCEPT ![<<j, attempt'[j]>>] = "asked"]
          /\ dispatch' = [dispatch EXCEPT ![j] = "provision"]
          /\ UNCHANGED <<envelope, callback, sent>>
      BY <1>4 DEF ProvisionPublicKey, Step
    <2>3. /\ handler[<<j, attempt'[j]>>] = "none" /\ envelope[<<j, attempt'[j]>>] = "none"
          /\ <<j, attempt'[j]>> \notin sent
      BY <1>2, <2>1 DEF Untouched
    <2>4. Untouched'
      <3> SUFFICES ASSUME NEW i \in Jobs, NEW n \in 1 .. MaxAttempts, n > attempt'[i]
                   PROVE  /\ handler'[<<i, n>>] = "none" /\ envelope'[<<i, n>>] = "none"
                          /\ <<i, n>> \notin sent'
        BY DEF Untouched
      <3>1. n > attempt[i] /\ <<i, n>> \in Keys
        BY <1>1, <1>2, <2>1
      <3>2. handler[<<i, n>>] = "none" /\ envelope[<<i, n>>] = "none" /\ <<i, n>> \notin sent
        BY <3>1 DEF Untouched
      <3>3. <<i, n>> # <<j, attempt'[j]>>
        BY <2>1
      <3> QED
        BY <2>2, <3>1, <3>2, <3>3 DEF TypeOK
    <2>5. SentOK'
      BY <1>1, <2>1, <2>2, <2>3 DEF SentOK, TypeOK
    <2>6. DispatchOK(j)'
      <3>1. Now(j)' = <<j, attempt'[j]>> /\ dispatch'[j] = "provision" /\ callback[j] <= attempt[j]
        BY <2>2 DEF Now, TypeOK, DispatchOK
      <3> QED
        BY <1>2, <2>1, <2>2, <2>3, <3>1 DEF DispatchOK
    <2>7. ASSUME NEW i \in Jobs, i # j PROVE DispatchOK(i)'
      <3>1. /\ Now(i)' = Now(i) /\ dispatch'[i] = dispatch[i] /\ attempt'[i] = attempt[i]
            /\ handler'[Now(i)] = handler[Now(i)]
        BY <2>1, <2>2, <2>7 DEF Now, TypeOK
      <3> QED
        BY <2>2, <3>1 DEF DispatchOK
    <2> QED
      BY <2>4, <2>5, <2>6, <2>7
  <1>5. CASE ProvisionUnsent(j)
    <2>1. /\ attempt' = [attempt EXCEPT ![j] = @ + 1] /\ dispatch[j] = "idle"
          /\ UNCHANGED <<handler, dispatch, envelope, callback, sent>>
      BY <1>5 DEF ProvisionUnsent, provVars
    <2>2. /\ \A i \in Jobs : attempt'[i] \in Nat /\ attempt'[i] >= attempt[i]
          /\ \A i \in Jobs : i # j => attempt'[i] = attempt[i] /\ Now(i)' = Now(i)
      BY <1>2, <2>1 DEF TypeOK, Now
    <2>3. Untouched'
      BY <1>2, <2>1, <2>2 DEF Untouched
    <2>4. SentOK'
      BY <2>1 DEF SentOK
    <2>5. DispatchOK(j)'
      BY <1>2, <2>1, <2>2 DEF DispatchOK
    <2>6. ASSUME NEW i \in Jobs, i # j PROVE DispatchOK(i)'
      BY <2>1, <2>2, <2>6 DEF DispatchOK
    <2> QED
      BY <2>3, <2>4, <2>5, <2>6
  <1>6. ASSUME UNCHANGED <<handler, attempt>>, \A i \in Jobs : i # j => dispatch'[i] = dispatch[i],
               \A i \in Jobs : i # j => callback'[i] = callback[i],
               dispatch[j] # "idle",
               \A k \in Keys : k # Now(j) => envelope'[k] = envelope[k],
               sent' = sent \/ sent' = sent \cup {Now(j)}
        PROVE  \A i \in Jobs : i # j => DispatchOK(i)'
    <2> SUFFICES ASSUME NEW i \in Jobs, i # j PROVE DispatchOK(i)'
      OBVIOUS
    <2>1. Now(i)' = Now(i) /\ Now(i) # Now(j)
      BY <1>6 DEF Now
    <2>2. dispatch[i] # "idle" => envelope'[Now(i)] = envelope[Now(i)]
      BY <1>6, <2>1, NowKey
    <2> QED
      BY <1>6, <2>1, <2>2 DEF DispatchOK
  <1>7. CASE ProvisionAnswered(j) \/ Retry(j) \/ ProvisionAnswerLost(j)
    <2>1. /\ UNCHANGED <<handler, attempt, envelope, callback, sent>>
          /\ \E pc \in {"idle", "envelope"} :
               /\ dispatch' = [dispatch EXCEPT ![j] = pc]
               /\ pc = "envelope" => dispatch[j] = "provision" /\ handler[Now(j)] = "ok"
          /\ dispatch[j] # "idle"
      BY <1>7 DEF ProvisionAnswered, Retry, ProvisionAnswerLost, Step, provVars
    <2>2. Untouched' /\ SentOK' /\ Now(j)' = Now(j)
      BY <2>1 DEF Untouched, SentOK, Now
    <2>3. DispatchOK(j)'
      BY <2>1, <2>2 DEF DispatchOK, TypeOK
    <2> QED
      BY <1>6, <2>1, <2>2, <2>3 DEF TypeOK
  <1>8. CASE CreateEnvelope(j)
    <2>1. /\ UNCHANGED <<handler, attempt, callback, sent>> /\ dispatch[j] = "envelope"
          /\ dispatch' = [dispatch EXCEPT ![j] = "store"]
          /\ envelope' = [envelope EXCEPT ![Now(j)] = "fresh"]
      BY <1>8 DEF CreateEnvelope, Step, provVars
    <2>2. Now(j) \in Keys /\ Now(j) \notin sent /\ envelope'[Now(j)] = "fresh" /\ Now(j)' = Now(j)
      BY <1>3, <2>1 DEF DispatchOK, TypeOK, Now
    <2>3. \A k \in Keys : k # Now(j) => envelope'[k] = envelope[k]
      BY <2>1 DEF TypeOK
    <2>4. Untouched'
      BY <1>1, <1>2, <2>1, <2>3 DEF Untouched, Now
    <2>5. SentOK'
      BY <1>1, <2>1, <2>2, <2>3 DEF SentOK
    <2>6. DispatchOK(j)'
      BY <2>1, <2>2 DEF DispatchOK, TypeOK
    <2> QED
      BY <1>6, <2>1, <2>3, <2>4, <2>5, <2>6 DEF TypeOK
  <1>9. CASE StoreCallbackHash(j)
    <2>1. /\ UNCHANGED <<handler, attempt, envelope, sent>> /\ dispatch[j] = "store"
          /\ dispatch' = [dispatch EXCEPT ![j] = "send"]
          /\ callback' = [callback EXCEPT ![j] = attempt[j]]
      BY <1>9 DEF StoreCallbackHash, Step, provVars
    <2>2. Now(j)' = Now(j) /\ callback'[j] = attempt[j] /\ callback[j] <= attempt[j]
      BY <2>1 DEF DispatchOK, TypeOK, Now
    <2>3. Untouched'
      BY <2>1 DEF Untouched
    <2>4. \A i \in Jobs : callback'[i] >= callback[i] /\ callback'[i] \in Nat
      BY <1>2, <2>1, <2>2 DEF TypeOK
    <2>5. SentOK'
      BY <1>2, <2>1, <2>4 DEF SentOK
    <2>6. DispatchOK(j)'
      BY <1>2, <2>1, <2>2 DEF DispatchOK, TypeOK
    <2> QED
      BY <1>6, <2>1, <2>3, <2>5, <2>6 DEF TypeOK
  <1>10. CASE DispatchWorkflow(j) \/ DispatchCut(j)
    <2>1. /\ UNCHANGED <<handler, attempt, envelope, callback>>
          /\ \E pc \in {"idle", "sent"} : dispatch' = [dispatch EXCEPT ![j] = pc]
          /\ dispatch[j] # "idle"
          /\ \/ sent' = sent
             \/ dispatch[j] = "send" /\ sent' = sent \cup {Now(j)}
      BY <1>10 DEF DispatchWorkflow, DispatchCut, Step, provVars
    <2>2. dispatch[j] = "send" => /\ handler[Now(j)] = "ok" /\ envelope[Now(j)] # "none"
                                  /\ callback[j] = attempt[j]
      BY DEF DispatchOK
    <2>3. Untouched'
      BY <1>2, <2>1 DEF Untouched, Now
    <2>4. SentOK'
      <3> SUFFICES ASSUME NEW i \in Jobs, NEW n \in 1 .. MaxAttempts, <<i, n>> \in sent'
                   PROVE  /\ handler[<<i, n>>] = "ok" /\ envelope[<<i, n>>] # "none"
                          /\ callback[i] >= n
        BY <2>1 DEF SentOK
      <3>1. CASE <<i, n>> \in sent
        BY <3>1 DEF SentOK
      <3>2. CASE <<i, n>> \notin sent
        <4>1. dispatch[j] = "send" /\ <<i, n>> = <<j, attempt[j]>>
          BY <2>1, <3>2 DEF Now
        <4>2. i = j /\ n = attempt[j]
          BY <4>1
        <4> QED
          BY <1>2, <2>2, <4>1, <4>2 DEF Now
      <3> QED
        BY <3>1, <3>2
    <2>5. DispatchOK(j)'
      BY <2>1 DEF DispatchOK, TypeOK, Now
    <2> QED
      BY <1>6, <2>1, <2>3, <2>4, <2>5 DEF TypeOK
  <1> QED
    BY <1>4, <1>5, <1>7, <1>8, <1>9, <1>10 DEF Dispatch

(* Expiry of an envelope and the steps of a run. *)
LEMMA RunDispatch ==
  ASSUME TypeOK, DispatchInv, WorkersInv, NEW k \in Keys,
         EnvelopeLapses(k) \/ \E w \in Workers : Resolve(k, w)
  PROVE  DispatchInv'
  <1>1. UNCHANGED <<handler, attempt, dispatch, callback, sent>>
    BY DEF EnvelopeLapses, Resolve, ResolveDispatchJwe, ReadReference, Consume, provVars
  <1>2. \/ envelope' = envelope
        \/ k \in sent /\ envelope' = [envelope EXCEPT ![k] = "consumed"]
    BY DEF EnvelopeLapses, Resolve, ResolveDispatchJwe, ReadReference, Consume, WorkersInv
  <1>3. \A m \in Keys : \/ envelope'[m] = envelope[m]
                        \/ m \in sent /\ envelope'[m] = "consumed"
    BY <1>2 DEF TypeOK
  <1>4. \A j \in Jobs, n \in 1 .. MaxAttempts : <<j, n>> \in Keys
    BY DEF Keys
  <1>5. Untouched' /\ SentOK'
    BY <1>1, <1>3, <1>4 DEF DispatchInv, Untouched, SentOK
  <1>6. ASSUME NEW j \in Jobs PROVE DispatchOK(j)'
    <2>1. Now(j)' = Now(j) /\ DispatchOK(j)
      BY <1>1 DEF Now, DispatchInv
    <2>2. dispatch[j] \notin {"idle", "sent"} => envelope'[Now(j)] = envelope[Now(j)]
      BY <1>3, <2>1, NowKey DEF DispatchOK
    <2> QED
      BY <1>1, <2>1, <2>2 DEF DispatchOK
  <1> QED
    BY <1>5, <1>6 DEF DispatchInv

LEMMA NextDispatch ==
  ASSUME TypeOK, DispatchInv, WorkersInv, [Next]_vars
  PROVE  DispatchInv'
  <1>1. CASE UNCHANGED vars
    <2>1. UNCHANGED <<handler, attempt, dispatch, envelope, callback, sent>> /\ \A j : Now(j)' = Now(j)
      BY <1>1 DEF vars, provVars, credVars, Now
    <2> QED
      BY <2>1 DEF DispatchInv, Untouched, SentOK, DispatchOK
  <1> QED
    BY <1>1, DispatchDispatch, ProvDispatch, RunDispatch DEF Next

(* What is true of a run stays true while dispatches go on: nothing they do
   takes anything back from a dispatch whose workflow was started. *)
LEMMA RunsKept ==
  ASSUME WorkersInv, UNCHANGED worker, sent \subseteq sent', lapsed \subseteq lapsed',
         \A k \in sent : envelope[k] = "consumed" => envelope'[k] = "consumed",
         \A k \in Keys : callback[k[1]] > k[2] => callback'[k[1]] > k[2]
  PROVE  WorkersInv'
  <1> SUFFICES ASSUME NEW k \in Keys, NEW w \in Workers
               PROVE  /\ worker[w] \in {"verified", "read", "got", "refused"} \X {k} => k \in sent'
                      /\ worker[w] = <<"got", k>> =>
                           /\ envelope'[k] = "consumed"
                           /\ \A v \in Workers : worker[v] = <<"got", k>> => v = w
                      /\ worker[w] = <<"refused", k>> =>
                           k \in lapsed' \/ envelope'[k] = "consumed" \/ callback'[k[1]] > k[2]
    BY DEF WorkersInv
  <1>1. worker[w] \in {"verified", "read", "got", "refused"} \X {k} => k \in sent
    BY DEF WorkersInv
  <1>2. worker[w] = <<"got", k>> => /\ envelope[k] = "consumed"
                                    /\ \A v \in Workers : worker[v] = <<"got", k>> => v = w
    BY DEF WorkersInv
  <1>3. worker[w] = <<"refused", k>> =>
          k \in lapsed \/ envelope[k] = "consumed" \/ callback[k[1]] > k[2]
    BY DEF WorkersInv
  <1>4. worker[w] = <<"got", k>> \/ worker[w] = <<"refused", k>> => k \in sent
    BY <1>1
  <1>5. worker[w] \in {"verified", "read", "got", "refused"} \X {k} => k \in sent'
    BY <1>1
  <1> QED
    BY <1>2, <1>3, <1>4, <1>5

LEMMA DispatchWorkers ==
  ASSUME TypeOK, DispatchInv, WorkersInv, NEW j \in Jobs,
         Dispatch(j) \/ Retry(j) \/ ProvisionUnsent(j) \/ ProvisionAnswerLost(j) \/ DispatchCut(j)
  PROVE  WorkersInv'
  <1>1. UNCHANGED <<worker, lapsed>> /\ sent \subseteq sent'
    BY DEF Dispatch, ProvisionPublicKey, ProvisionAnswered, CreateEnvelope, StoreCallbackHash,
           DispatchWorkflow, Retry, ProvisionUnsent, ProvisionAnswerLost, DispatchCut
  <1>2. \A k \in sent : envelope[k] = "consumed" => envelope'[k] = "consumed"
    <2>1. CASE CreateEnvelope(j)
      <3>1. Now(j) \notin sent
        BY <2>1 DEF CreateEnvelope, DispatchInv, DispatchOK
      <3> QED
        BY <2>1, <3>1 DEF CreateEnvelope, TypeOK
    <2>2. CASE ~CreateEnvelope(j)
      BY <2>2 DEF Dispatch, ProvisionPublicKey, ProvisionAnswered, StoreCallbackHash,
                  DispatchWorkflow, Retry, ProvisionUnsent, ProvisionAnswerLost, DispatchCut
    <2> QED
      BY <2>1, <2>2
  <1>3. \A i \in Jobs : callback[i] \in Nat /\ callback'[i] \in Nat /\ callback'[i] >= callback[i]
    <2>0. \A i \in Jobs : callback[i] \in Nat /\ attempt[i] \in Nat /\ callback[i] <= attempt[i]
      BY ProvisionerAssumption DEF TypeOK, DispatchInv, DispatchOK
    <2>1. CASE StoreCallbackHash(j)
      BY <2>0, <2>1 DEF StoreCallbackHash, TypeOK
    <2>2. CASE ~StoreCallbackHash(j)
      BY <2>0, <2>2
      DEF Dispatch, ProvisionPublicKey, ProvisionAnswered, CreateEnvelope,
          DispatchWorkflow, Retry, ProvisionUnsent, ProvisionAnswerLost, DispatchCut
    <2> QED
      BY <2>1, <2>2
  <1>4. \A k \in Keys : callback[k[1]] > k[2] => callback'[k[1]] > k[2]
    BY <1>3, ProvisionerAssumption DEF Keys
  <1> QED
    BY <1>1, <1>2, <1>4, RunsKept

(* A run moves: what it is given or refused is decided by the row it finds. *)
LEMMA ResolveWorkers ==
  ASSUME TypeOK, DispatchInv, WorkersInv, NEW k \in Keys, NEW w \in Workers, Resolve(k, w)
  PROVE  WorkersInv'
  <1>0. PICK j \in Jobs, n \in 1 .. MaxAttempts : k = <<j, n>>
    BY DEF Keys
  <1>1. /\ k \in sent /\ envelope[k] \in {"fresh", "consumed"}
        /\ callback[k[1]] \in Nat /\ k[2] \in Nat /\ callback[k[1]] >= k[2]
    <2>1. k \in sent
      BY DEF Resolve, ResolveDispatchJwe, ReadReference, Consume, WorkersInv
    <2> QED
      BY <1>0, <2>1, ProvisionerAssumption DEF DispatchInv, SentOK, TypeOK
  <1>2. UNCHANGED <<sent, lapsed, callback>>
    BY DEF Resolve, ResolveDispatchJwe, ReadReference, Consume
  <1>3. \A m \in Keys : envelope[m] = "consumed" => envelope'[m] = "consumed"
    BY DEF Resolve, ResolveDispatchJwe, ReadReference, Consume, TypeOK
  <1>4. \A v \in Workers : v # w => worker'[v] = worker[v]
    BY DEF Resolve, ResolveDispatchJwe, ReadReference, Consume, Goes, TypeOK
  <1>5. \E pc \in {"verified", "read", "got", "refused"} :
          /\ worker'[w] = <<pc, k>>
          /\ pc = "got" => envelope[k] = "fresh" /\ envelope'[k] = "consumed"
          /\ pc = "refused" => k \in lapsed \/ envelope'[k] = "consumed" \/ callback[k[1]] > k[2]
    <2>1. CASE ResolveDispatchJwe(k, w)
      <3>1. worker'[w] = <<IF callback[k[1]] = k[2] THEN "verified" ELSE "refused", k>>
        BY <2>1 DEF ResolveDispatchJwe, Goes, TypeOK
      <3>2. CASE callback[k[1]] = k[2]
        BY <3>1, <3>2
      <3>3. CASE callback[k[1]] > k[2]
        BY <1>1, <3>1, <3>3
      <3> QED
        BY <1>1, <3>2, <3>3
    <2>2. CASE ReadReference(k, w)
      BY <1>1, <2>2 DEF ReadReference, Goes, TypeOK
    <2>3. CASE Consume(k, w)
      BY <1>1, <2>3 DEF Consume, Goes, TypeOK
    <2> QED
      BY <2>1, <2>2, <2>3 DEF Resolve
  <1>6. ASSUME NEW m \in Keys, NEW v \in Workers, worker[v] = <<"got", m>>
        PROVE  envelope[m] = "consumed"
    BY <1>6 DEF WorkersInv
  <1> SUFFICES ASSUME NEW m \in Keys, NEW v \in Workers
               PROVE  /\ worker'[v] \in {"verified", "read", "got", "refused"} \X {m} => m \in sent
                      /\ worker'[v] = <<"got", m>> =>
                           /\ envelope'[m] = "consumed"
                           /\ \A u \in Workers : worker'[u] = <<"got", m>> => u = v
                      /\ worker'[v] = <<"refused", m>> =>
                           m \in lapsed \/ envelope'[m] = "consumed" \/ callback[m[1]] > m[2]
    BY <1>2 DEF WorkersInv
  <1>7. worker'[v] \in {"verified", "read", "got", "refused"} \X {m} => m \in sent
    <2>1. CASE v = w
      BY <1>1, <1>5, <2>1
    <2>2. CASE v # w
      BY <1>4, <2>2 DEF WorkersInv
    <2> QED
      BY <2>1, <2>2
  <1>8. worker'[v] = <<"got", m>> => /\ envelope'[m] = "consumed"
                                     /\ \A u \in Workers : worker'[u] = <<"got", m>> => u = v
    <2> SUFFICES ASSUME worker'[v] = <<"got", m>>, NEW u \in Workers, worker'[u] = <<"got", m>>
                 PROVE  envelope'[m] = "consumed" /\ u = v
      OBVIOUS
    <2>1. \A x \in Workers : x = w /\ worker'[x] = <<"got", m>> =>
                                m = k /\ envelope[m] = "fresh" /\ envelope'[m] = "consumed"
      BY <1>5
    <2>2. \A x \in Workers : x # w /\ worker'[x] = <<"got", m>> => envelope[m] = "consumed"
      BY <1>4, <1>6
    <2>3. envelope'[m] = "consumed"
      BY <1>3, <2>1, <2>2
    <2>4. CASE u # w /\ v # w
      <3>1. worker[u] = <<"got", m>> /\ worker[v] = <<"got", m>>
        BY <1>4, <2>4
      <3> QED
        BY <2>3, <3>1 DEF WorkersInv
    <2> QED
      BY <2>1, <2>2, <2>3, <2>4
  <1>9. worker'[v] = <<"refused", m>> =>
          m \in lapsed \/ envelope'[m] = "consumed" \/ callback[m[1]] > m[2]
    <2>1. CASE v = w
      BY <1>5, <2>1
    <2>2. CASE v # w
      BY <1>3, <1>4, <2>2 DEF WorkersInv
    <2> QED
      BY <2>1, <2>2
  <1> QED
    BY <1>7, <1>8, <1>9

LEMMA NextWorkers ==
  ASSUME TypeOK, DispatchInv, WorkersInv, [Next]_vars
  PROVE  WorkersInv'
  <1>1. CASE UNCHANGED credVars
    BY <1>1, RunsKept DEF credVars
  <1>2. ASSUME NEW k \in Keys, EnvelopeLapses(k) PROVE WorkersInv'
    BY <1>2, RunsKept DEF EnvelopeLapses
  <1> QED
    BY <1>1, <1>2, DispatchWorkers, ResolveWorkers DEF Next, vars

---------------------------------------------------------------------------
(* IInv is an inductive invariant. *)
THEOREM InductiveInvariant == Spec => []IInv
  <1>1. Init => IInv
    BY InitType, InitKeys, InitRoom, InitDispatch, InitWorkers DEF IInv
  <1>2. IInv /\ [Next]_vars => IInv'
    BY NextType, NextKeys, NextRoom, NextDispatch, NextWorkers DEF IInv, DispatchInv
  <1> QED
    BY <1>1, <1>2, PTL DEF Spec

(* Of all the runs that hold a dispatch JWE, at most one is given the secrets:
   the UPDATE of resolve-secret that finds consumed_at NULL happens once. *)
THEOREM SecretOnceThm == Spec => []SecretOnce
  <1>1. ASSUME WorkersInv PROVE SecretOnce
    <2> SUFFICES ASSUME NEW k \in Keys PROVE Cardinality(Got(k)) <= 1
      BY DEF SecretOnce
    <2>1. CASE Got(k) = {}
      <3>1. Cardinality(Got(k)) = 0
        BY <2>1, FS_EmptySet
      <3> QED
        BY <3>1
    <2>2. ASSUME NEW w \in Got(k) PROVE Cardinality(Got(k)) <= 1
      <3>1. Got(k) = {w}
        BY <1>1 DEF WorkersInv, Got
      <3>2. Cardinality(Got(k)) = 1
        BY <3>1, FS_Singleton
      <3> QED
        BY <3>2
    <2> QED
      BY <2>1, <2>2
  <1> QED
    BY <1>1, InductiveInvariant, PTL DEF IInv

(* A run that has its secrets finds its key installed: dispatchJob goes on
   only when the provisioner has answered that it is. *)
THEOREM KeyInstalledThm == Spec => []KeyInstalled
  <1>1. ASSUME KeysInv, DispatchInv, WorkersInv PROVE KeyInstalled
    <2> SUFFICES ASSUME NEW k \in Keys, NEW w \in Got(k)
                 PROVE  k \in files \cap ledger \/ k \in expired \cup revoked
      BY DEF KeyInstalled
    <2>1. k \in sent
      BY <1>1 DEF WorkersInv, Got
    <2>2. handler[k] = "ok"
      BY <1>1, <2>1 DEF DispatchInv, SentOK, Keys
    <2> QED
      BY <1>1, <2>2 DEF KeysInv, KeyKept
  <1> QED
    BY <1>1, InductiveInvariant, PTL DEF IInv

(* A run is refused its secrets only for a cause outside its own dispatch:
   the workflow is started last, when the hash and the row are there. *)
THEOREM RefusedForCauseThm == Spec => []RefusedForCause
  <1>1. WorkersInv => RefusedForCause
    BY DEF WorkersInv, RefusedForCause
  <1> QED
    BY <1>1, InductiveInvariant, PTL DEF IInv

(* sshd accepts no key that the ledger has lost, one on its way in or out
   apart, until a request, a sweep or a revoke is cut short. *)
THEOREM NoForgottenKeyThm == Spec => []NoForgottenKey
  BY InductiveInvariant, PTL DEF IInv, KeysInv

(* The ceilings on keys hold as long as no two requests are between the
   handler's check and its entry in the ledger. *)
THEOREM CeilingHeldAloneThm == Spec => []CeilingHeldAlone
  <1>1. RoomInv => CeilingHeldAlone
    BY DEF RoomInv, CeilingHeldAlone
  <1> QED
    BY <1>1, InductiveInvariant, PTL DEF IInv
=============================================================================
