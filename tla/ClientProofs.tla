------------------------------- MODULE ClientProofs -------------------------------
(***************************************************************************)
(* Proofs about what stands between the API and its clients: a call of the  *)
(* SDK, for every number of retries, idempotency keys, for every number of  *)
(* requests, and a receiver of webhooks, whatever reaches it.               *)
(***************************************************************************)
EXTENDS MCClient, TLAPS

-----------------------------------------------------------------------------
(* A call of the SDK.                                                       *)

USE NoResponse

LEMMA CallInitInv == CallInit => CallInv
<1> SUFFICES ASSUME CallInit PROVE CallInv
  OBVIOUS
<1>1. CallTypeOK
  BY DEF CallInit, CallTypeOK
<1>2. AtMostOneUnderWay
  BY DEF CallInit, AtMostOneUnderWay, Responses
<1> QED
  BY <1>1, <1>2 DEF CallInit, CallInv, Responses

-----------------------------------------------------------------------------
(* The steps of the client: an attempt begins only when none is under way,  *)
(* and one that is given up leaves its mark in unanswered or cut.           *)

LEMMA SendKeeps == ASSUME CallInv, Send PROVE CallInv'
<1>1. CallTypeOK'
  BY DEF Send, CallInv, CallTypeOK, Responses
<1>2. (callPc # "waiting" => answer = None)' /\ (callPc # "settled" => outcome = None)'
  BY DEF Send, CallInv, CallTypeOK
<1>3. (NoneGivenUp => AtMostOneUnderWay)'
  BY DEF Send, CallInv, CallTypeOK, NoneGivenUp, AtMostOneUnderWay, Responses
<1>4. (outcome \in {"limited", "rejected"} /\ ~unanswered => effects = 0 /\ pending = {})'
  BY DEF Send, CallInv, CallTypeOK, NoneGivenUp, AtMostOneUnderWay, Responses
<1> QED
  BY <1>1, <1>2, <1>3, <1>4 DEF CallInv

LEMMA UnreachableKeeps == ASSUME CallInv, Unreachable PROVE CallInv'
<1>1. CallTypeOK'
  BY DEF Unreachable, EndAttempt, CallInv, CallTypeOK, Responses
<1>2. (callPc # "waiting" => answer = None)' /\ (callPc # "settled" => outcome = None)'
  BY DEF Unreachable, EndAttempt, CallInv, CallTypeOK
<1>3. (NoneGivenUp => AtMostOneUnderWay)'
  BY DEF Unreachable, EndAttempt, CallInv, CallTypeOK, NoneGivenUp, AtMostOneUnderWay, Responses
<1>4. (outcome \in {"limited", "rejected"} /\ ~unanswered => effects = 0 /\ pending = {})'
  BY DEF Unreachable, EndAttempt, CallInv, CallTypeOK, NoneGivenUp, AtMostOneUnderWay, Responses
<1> QED
  BY <1>1, <1>2, <1>3, <1>4 DEF CallInv

LEMMA ReceiveKeeps == ASSUME CallInv, Receive PROVE CallInv'
<1>1. CallTypeOK'
  BY DEF Receive, EndAttempt, Retryable, Idempotent, CallInv, CallTypeOK, Responses
<1>2. (callPc # "waiting" => answer = None)' /\ (callPc # "settled" => outcome = None)'
  BY DEF Receive, EndAttempt, Retryable, Idempotent, CallInv, CallTypeOK
<1>3. (NoneGivenUp => AtMostOneUnderWay)'
  BY DEF Receive, EndAttempt, Retryable, Idempotent, CallInv, CallTypeOK, NoneGivenUp, AtMostOneUnderWay, Responses
<1>4. (outcome \in {"limited", "rejected"} /\ ~unanswered => effects = 0 /\ pending = {})'
  BY DEF Receive, EndAttempt, Retryable, Idempotent, CallInv, CallTypeOK, NoneGivenUp, AtMostOneUnderWay, Responses
<1> QED
  BY <1>1, <1>2, <1>3, <1>4 DEF CallInv

LEMMA TimeOutKeeps == ASSUME CallInv, TimeOut PROVE CallInv'
<1>1. CallTypeOK'
  BY DEF TimeOut, EndAttempt, TimeoutRetried, Idempotent, CallInv, CallTypeOK, Responses
<1>2. (callPc # "waiting" => answer = None)' /\ (callPc # "settled" => outcome = None)'
  BY DEF TimeOut, EndAttempt, TimeoutRetried, Idempotent, CallInv, CallTypeOK
<1>3. (NoneGivenUp => AtMostOneUnderWay)'
  BY DEF TimeOut, EndAttempt, TimeoutRetried, Idempotent, CallInv, CallTypeOK, NoneGivenUp, AtMostOneUnderWay, Responses
<1>4. (outcome \in {"limited", "rejected"} /\ ~unanswered => effects = 0 /\ pending = {})'
  BY DEF TimeOut, EndAttempt, TimeoutRetried, Idempotent, CallInv, CallTypeOK, NoneGivenUp, AtMostOneUnderWay, Responses
<1> QED
  BY <1>1, <1>2, <1>3, <1>4 DEF CallInv

LEMMA CutKeeps == ASSUME CallInv, Cut PROVE CallInv'
<1>1. CallTypeOK'
  BY DEF Cut, EndAttempt, CallInv, CallTypeOK, Responses
<1>2. (callPc # "waiting" => answer = None)' /\ (callPc # "settled" => outcome = None)'
  BY DEF Cut, EndAttempt, CallInv, CallTypeOK
<1>3. (NoneGivenUp => AtMostOneUnderWay)'
  BY DEF Cut, EndAttempt, CallInv, CallTypeOK, NoneGivenUp, AtMostOneUnderWay, Responses
<1>4. (outcome \in {"limited", "rejected"} /\ ~unanswered => effects = 0 /\ pending = {})'
  BY DEF Cut, EndAttempt, CallInv, CallTypeOK, NoneGivenUp, AtMostOneUnderWay, Responses
<1> QED
  BY <1>1, <1>2, <1>3, <1>4 DEF CallInv

LEMMA RetryKeeps == ASSUME CallInv, Retry PROVE CallInv'
<1>1. CallTypeOK'
  BY DEF Retry, Again, CallInv, CallTypeOK, Responses
<1>2. (callPc # "waiting" => answer = None)' /\ (callPc # "settled" => outcome = None)'
  BY DEF Retry, Again, CallInv, CallTypeOK
<1>3. (NoneGivenUp => AtMostOneUnderWay)'
  BY DEF Retry, Again, CallInv, CallTypeOK, NoneGivenUp, AtMostOneUnderWay, Responses
<1>4. (outcome \in {"limited", "rejected"} /\ ~unanswered => effects = 0 /\ pending = {})'
  BY DEF Retry, Again, CallInv, CallTypeOK, NoneGivenUp, AtMostOneUnderWay, Responses
<1> QED
  BY <1>1, <1>2, <1>3, <1>4 DEF CallInv

LEMMA AbortCallKeeps == ASSUME CallInv, AbortCall PROVE CallInv'
<1>1. CallTypeOK'
  BY DEF AbortCall, EndAttempt, CallInv, CallTypeOK, Responses
<1>2. (callPc # "waiting" => answer = None)' /\ (callPc # "settled" => outcome = None)'
  BY DEF AbortCall, EndAttempt, CallInv, CallTypeOK
<1>3. (NoneGivenUp => AtMostOneUnderWay)'
  BY DEF AbortCall, EndAttempt, CallInv, CallTypeOK, NoneGivenUp, AtMostOneUnderWay, Responses
<1>4. (outcome \in {"limited", "rejected"} /\ ~unanswered => effects = 0 /\ pending = {})'
  BY DEF AbortCall, EndAttempt, CallInv, CallTypeOK, NoneGivenUp, AtMostOneUnderWay, Responses
<1> QED
  BY <1>1, <1>2, <1>3, <1>4 DEF CallInv

-----------------------------------------------------------------------------
(* The server handles an attempt: the only step that has an effect.         *)
LEMMA CallHandleKeeps ==
  ASSUME CallInv, NEW a \in pending, NEW r \in Responses, NEW acts \in BOOLEAN,
         HandleAttempt(a, r, acts)
  PROVE  CallInv'
<1>1. CallTypeOK'
  BY DEF HandleAttempt, CallInv, CallTypeOK
<1>2. (callPc # "waiting" => answer = None)' /\ (callPc # "settled" => outcome = None)'
  BY DEF HandleAttempt, CallInv
<1>3. (NoneGivenUp => AtMostOneUnderWay)'
  <2> SUFFICES ASSUME NoneGivenUp PROVE AtMostOneUnderWay'
    BY DEF HandleAttempt, NoneGivenUp
  <2>1. a = attempt /\ pending = {attempt} /\ effects = 0 /\ answer = None
    BY DEF CallInv, AtMostOneUnderWay
  <2>2. pending' = {} /\ (acts => effects' = 1) /\ (~acts => effects' = 0)
    BY <2>1 DEF HandleAttempt
  <2>3. callPc \notin {"sending", "backoff"}
    BY <2>1 DEF CallInv, AtMostOneUnderWay
  <2>4. answer' \in {"limited", "rejected"} => ~acts
    BY <2>1 DEF HandleAttempt, CallInv, Responses
  <2>5. callPc = "waiting" => answer' = r
    BY <2>1 DEF HandleAttempt
  <2> QED
    BY <2>2, <2>3, <2>4, <2>5 DEF HandleAttempt, AtMostOneUnderWay
<1>4. (outcome \in {"limited", "rejected"} /\ ~unanswered => effects = 0 /\ pending = {})'
  BY DEF HandleAttempt, CallInv
<1> QED
  BY <1>1, <1>2, <1>3, <1>4 DEF CallInv

-----------------------------------------------------------------------------
LEMMA CallStepKeeps == ASSUME CallInv, [CallNext]_callVars PROVE CallInv'
<1>1. CASE Client
  BY <1>1, SendKeeps, UnreachableKeeps, ReceiveKeeps, TimeOutKeeps, CutKeeps, RetryKeeps,
     AbortCallKeeps DEF Client
<1>2. CASE Server
  BY <1>2, CallHandleKeeps DEF Server
<1>3. CASE UNCHANGED callVars
  BY <1>3 DEF callVars, CallInv, CallTypeOK, NoneGivenUp, AtMostOneUnderWay
<1> QED
  BY <1>1, <1>2, <1>3 DEF CallNext

(* Every behaviour of the client and the server keeps the invariant.        *)
THEOREM CallIsSound == CallSpec => []CallInv
BY CallInitInv, CallStepKeeps, PTL DEF CallSpec

(* The state of a call stays within its types.                              *)
THEOREM CallTypeCorrect == CallSpec => []CallTypeOK
<1>1. CallInv => CallTypeOK
  BY DEF CallInv
<1> QED
  BY <1>1, CallIsSound, PTL

(* However many retries are allowed, and whatever is slow, refused or cut:  *)
(* a POST or a PATCH acts once unless its connection was lost after it had  *)
(* been sent, and a call that is refused has done nothing unless an attempt *)
(* of it was never answered.                                                *)
THEOREM OutcomeIsTrue == CallSpec => []CallTellsTheTruth
<1>1. CallInv => CallTellsTheTruth
  BY DEF CallInv, CallTypeOK, CallTellsTheTruth, OnceUnlessCut, RefusedMeansUndone, NoneGivenUp,
      AtMostOneUnderWay
<1> QED
  BY <1>1, CallIsSound, PTL

HIDE NoResponse

-----------------------------------------------------------------------------
(* Idempotency keys.                                                        *)

USE IdsAssumption, LimitsAssumption
USE DEF requestVars, rowVars, boundVars, Goto, Fail, Free, OwnRow, Delete

(* In every initial state no key has a row and no request holds one.       *)
LEMMA InitInv == Init => IdempotencyInv
BY DEF Init, IdempotencyInv, TypeOK, AnswersAreTrue, KeysAreFreed, HoldersDiffer, Repeats,
       HolderIsSound, RowIsSound, Holds, Working

-----------------------------------------------------------------------------
(* Steps that leave the rows as they are: what a holder has and what a row  *)
(* says are only about the request that moved.                              *)

LEMMA TakenKeeps == ASSUME IdempotencyInv, NEW q \in Requests, Taken(q) PROVE IdempotencyInv'
<1>1. TypeOK /\ TypeOK'
  BY DEF IdempotencyInv, TypeOK, Taken
<1> QED
  BY <1>1 DEF Taken, TypeOK, IdempotencyInv, AnswersAreTrue, KeysAreFreed, HoldersDiffer,
      Repeats, HolderIsSound, RowIsSound, Holds, Working

LEMMA RefuseKeeps == ASSUME IdempotencyInv, NEW q \in Requests, Refuse(q) PROVE IdempotencyInv'
<1>1. TypeOK /\ TypeOK'
  BY DEF IdempotencyInv, TypeOK, Refuse
<1> QED
  BY <1>1 DEF Refuse, TypeOK, IdempotencyInv, AnswersAreTrue, KeysAreFreed, HoldersDiffer,
      Repeats, HolderIsSound, RowIsSound, Holds, Working

LEMMA EarlyFailureKeeps == ASSUME IdempotencyInv, NEW q \in Requests, EarlyFailure(q) PROVE IdempotencyInv'
<1>1. TypeOK /\ TypeOK'
  BY DEF IdempotencyInv, TypeOK, EarlyFailure
<1> QED
  BY <1>1 DEF EarlyFailure, TypeOK, IdempotencyInv, AnswersAreTrue, KeysAreFreed, HoldersDiffer,
      Repeats, HolderIsSound, RowIsSound, Holds, Working

LEMMA HandleKeeps == ASSUME IdempotencyInv, NEW q \in Requests, Handle(q) PROVE IdempotencyInv'
<1>1. TypeOK /\ TypeOK'
  BY DEF IdempotencyInv, TypeOK, Handle
<1> QED
  BY <1>1 DEF Handle, TypeOK, IdempotencyInv, AnswersAreTrue, KeysAreFreed, HoldersDiffer,
      Repeats, HolderIsSound, RowIsSound, Holds, Working

LEMMA ReleaseFailsKeeps == ASSUME IdempotencyInv, NEW q \in Requests, ReleaseFails(q) PROVE IdempotencyInv'
<1>1. TypeOK /\ TypeOK'
  BY DEF IdempotencyInv, TypeOK, ReleaseFails
<1> QED
  BY <1>1 DEF ReleaseFails, TypeOK, IdempotencyInv, AnswersAreTrue, KeysAreFreed, HoldersDiffer,
      Repeats, HolderIsSound, RowIsSound, Holds, Working

LEMMA CrashKeeps == ASSUME IdempotencyInv, NEW q \in Requests, Crash(q) PROVE IdempotencyInv'
<1>1. TypeOK /\ TypeOK'
  BY DEF IdempotencyInv, TypeOK, Crash, Working
<1> QED
  BY <1>1 DEF Crash, TypeOK, IdempotencyInv, AnswersAreTrue, KeysAreFreed, HoldersDiffer,
      Repeats, HolderIsSound, RowIsSound, Holds, Working

LEMMA HandleFailsKeeps == ASSUME IdempotencyInv, NEW q \in Requests, HandleFails(q) PROVE IdempotencyInv'
<1>1. TypeOK /\ TypeOK'
  <2>1. TypeOK
    BY DEF IdempotencyInv
  <2>2. did' \in [Requests -> BOOLEAN]
    BY <2>1 DEF TypeOK, HandleFails
  <2>3. failures' \in 0..MaxFailures
    BY <2>1 DEF TypeOK, HandleFails
  <2>4. pc' = [pc EXCEPT ![q] = "releasing"]
    BY DEF HandleFails
  <2> QED BY <2>1, <2>2, <2>3, <2>4 DEF TypeOK, HandleFails
<1>2. AnswersAreTrue' /\ KeysAreFreed'
  BY <1>1 DEF HandleFails, TypeOK, IdempotencyInv, AnswersAreTrue, KeysAreFreed, HolderIsSound, Working
<1>3. HoldersDiffer'
  BY <1>1 DEF HandleFails, TypeOK, IdempotencyInv, HoldersDiffer, Repeats, Holds, Working
<1>4. \A p \in Requests : HolderIsSound(p)'
  BY <1>1 DEF HandleFails, TypeOK, IdempotencyInv, HolderIsSound, Holds, Working
<1>5. \A k \in Keys : RowIsSound(k)'
  BY <1>1 DEF HandleFails, TypeOK, IdempotencyInv, RowIsSound, HolderIsSound, Holds, Working
<1> QED
  BY <1>1, <1>2, <1>3, <1>4, <1>5 DEF IdempotencyInv

(* Sweep: the holder whose row goes is of an earlier period from now on.   *)
LEMMA SweepKeeps == ASSUME IdempotencyInv, NEW q \in Requests, Sweep(q) PROVE IdempotencyInv'
<1>1. TypeOK /\ TypeOK'
  <2>1. TypeOK
    BY DEF IdempotencyInv
  <2>2. CASE expired[key[q]]
    <3>1. key[q] \in Keys /\ sweeps[key[q]] + 1 \in Nat
      BY <2>1 DEF TypeOK
    <3>2. row' \in [Keys -> Requests \cup {Nobody}] /\ response' \in [Keys -> Requests \cup {Nobody}]
      BY <2>1, <2>2 DEF TypeOK, Sweep
    <3>3. expired' \in [Keys -> BOOLEAN] /\ sweeps' \in [Keys -> Nat]
      BY <2>1, <2>2, <3>1 DEF TypeOK, Sweep
    <3>4. \A k \in Keys : row'[k] = Nobody => response'[k] = Nobody /\ ~expired'[k]
      BY <2>1, <2>2 DEF TypeOK, Sweep
    <3> QED BY <2>1, <2>2, <3>2, <3>3, <3>4 DEF TypeOK, Sweep
  <2>3. CASE ~expired[key[q]]
    BY <2>1, <2>3 DEF TypeOK, Sweep
  <2> QED BY <2>1, <2>2, <2>3
<1>2. AnswersAreTrue' /\ HoldersDiffer'
  BY <1>1 DEF TypeOK, IdempotencyInv, Sweep, AnswersAreTrue, HoldersDiffer, Repeats, Holds, Working
<1>3. KeysAreFreed' /\ (\A k \in Keys : RowIsSound(k)')
  BY <1>1 DEF TypeOK, IdempotencyInv, Sweep, KeysAreFreed, RowIsSound, Holds, Working
<1>4. \A p \in Requests : HolderIsSound(p)'
  BY <1>1 DEF TypeOK, IdempotencyInv, Sweep, HolderIsSound, Holds, Working
<1> QED
  BY <1>1, <1>2, <1>3, <1>4 DEF IdempotencyInv

(* Claim: with the key free, every other holder of it is of an earlier      *)
(* period.                                                                  *)
LEMMA ClaimKeeps == ASSUME IdempotencyInv, NEW q \in Requests, Claim(q) PROVE IdempotencyInv'
<1>1. TypeOK /\ TypeOK'
  BY DEF IdempotencyInv, TypeOK, Claim
<1>2. AnswersAreTrue'
  BY <1>1 DEF TypeOK, IdempotencyInv, Claim, AnswersAreTrue
<1>3. KeysAreFreed'
  BY <1>1 DEF TypeOK, IdempotencyInv, Claim, KeysAreFreed, Working
<1>4. HoldersDiffer'
  BY <1>1 DEF TypeOK, IdempotencyInv, Claim, HoldersDiffer, HolderIsSound, Repeats, Holds, Working
<1>5. \A p \in Requests : HolderIsSound(p)'
  BY <1>1 DEF TypeOK, IdempotencyInv, Claim, HolderIsSound, Holds, Working
<1>6. \A k \in Keys : RowIsSound(k)'
  BY <1>1 DEF TypeOK, IdempotencyInv, Claim, RowIsSound, HolderIsSound, Holds, Working
<1> QED
  BY <1>1, <1>2, <1>3, <1>4, <1>5, <1>6 DEF IdempotencyInv

(* Replay: the response is that of the row's holder, which is not q.       *)
LEMMA ReplayKeeps == ASSUME IdempotencyInv, NEW q \in Requests, Replay(q) PROVE IdempotencyInv'
<1>1. TypeOK /\ TypeOK'
  BY DEF IdempotencyInv, TypeOK, Replay
<1>2. AnswersAreTrue'
  BY <1>1 DEF TypeOK, IdempotencyInv, Replay, AnswersAreTrue, RowIsSound, Answerable, SameBody, Hash
<1>3. KeysAreFreed'
  BY <1>1 DEF TypeOK, IdempotencyInv, Replay, KeysAreFreed, Working
<1>4. ~Holds(q) /\ ~Holds(q)'
  BY <1>1 DEF TypeOK, IdempotencyInv, Replay, RowIsSound, HolderIsSound, Answerable, Holds, Working
<1>5. HoldersDiffer'
  BY <1>1, <1>4 DEF TypeOK, IdempotencyInv, Replay, HoldersDiffer, Repeats, Holds
<1>6. \A p \in Requests : HolderIsSound(p)'
  BY <1>1, <1>4 DEF TypeOK, IdempotencyInv, Replay, HolderIsSound, Holds, Working
<1>7. \A k \in Keys : RowIsSound(k)'
  BY <1>1, <1>4 DEF TypeOK, IdempotencyInv, Replay, RowIsSound, Holds
<1> QED
  BY <1>1, <1>2, <1>3, <1>5, <1>6, <1>7 DEF IdempotencyInv

(* Store: a holder answers its own row; a request that lost its row answers *)
(* none.                                                                    *)
LEMMA StoreKeeps == ASSUME IdempotencyInv, NEW q \in Requests, Store(q) PROVE IdempotencyInv'
<1>1. TypeOK /\ TypeOK'
  BY DEF IdempotencyInv, TypeOK, Store, StoreIn
<1>2. AnswersAreTrue'
  BY <1>1 DEF TypeOK, IdempotencyInv, Store, StoreIn, AnswersAreTrue, HolderIsSound
<1>3. KeysAreFreed'
  BY <1>1 DEF TypeOK, IdempotencyInv, Store, StoreIn, KeysAreFreed, RowIsSound, Holds, Working
<1>4. HoldersDiffer'
  BY <1>1 DEF TypeOK, IdempotencyInv, Store, HoldersDiffer, Repeats, Holds, Working
<1>5. \A p \in Requests : HolderIsSound(p)'
  BY <1>1 DEF TypeOK, IdempotencyInv, Store, HolderIsSound, Holds, Working
<1>6. \A k \in Keys : RowIsSound(k)'
  BY <1>1 DEF TypeOK, IdempotencyInv, Store, StoreIn, RowIsSound, HolderIsSound, Holds, Working
<1> QED
  BY <1>1, <1>2, <1>3, <1>4, <1>5, <1>6 DEF IdempotencyInv

(* StoreFails: the same, with the answer of the update lost or not made.    *)
LEMMA StoreFailsKeeps == ASSUME IdempotencyInv, NEW q \in Requests, StoreFails(q) PROVE IdempotencyInv'
<1>1. TypeOK /\ TypeOK'
  BY DEF IdempotencyInv, TypeOK, StoreFails, StoreIn
<1>2. AnswersAreTrue'
  BY <1>1 DEF TypeOK, IdempotencyInv, StoreFails, StoreIn, AnswersAreTrue, HolderIsSound
<1>3. KeysAreFreed'
  BY <1>1 DEF TypeOK, IdempotencyInv, StoreFails, StoreIn, KeysAreFreed, RowIsSound, Holds, Working
<1>4. HoldersDiffer'
  BY <1>1 DEF TypeOK, IdempotencyInv, StoreFails, HoldersDiffer, Repeats, Holds, Working
<1>5. \A p \in Requests : HolderIsSound(p)'
  BY <1>1 DEF TypeOK, IdempotencyInv, StoreFails, HolderIsSound, Holds, Working
<1>6. \A k \in Keys : RowIsSound(k)'
  BY <1>1 DEF TypeOK, IdempotencyInv, StoreFails, StoreIn, RowIsSound, HolderIsSound, Holds, Working
<1> QED
  BY <1>1, <1>2, <1>3, <1>4, <1>5, <1>6 DEF IdempotencyInv

(* Release: the key is free again and q holds nothing.                      *)
LEMMA ReleaseKeeps == ASSUME IdempotencyInv, NEW q \in Requests, Release(q) PROVE IdempotencyInv'
<1>1. TypeOK /\ TypeOK'
  BY DEF IdempotencyInv, TypeOK, Release
<1>2. AnswersAreTrue'
  BY <1>1 DEF TypeOK, IdempotencyInv, Release, AnswersAreTrue
<1>3. KeysAreFreed'
  BY <1>1 DEF TypeOK, IdempotencyInv, Release, KeysAreFreed, RowIsSound, Working
<1>4. HoldersDiffer'
  BY <1>1 DEF TypeOK, IdempotencyInv, Release, HoldersDiffer, Repeats, Holds, Working
<1>5. \A p \in Requests : HolderIsSound(p)'
  BY <1>1 DEF TypeOK, IdempotencyInv, Release, HolderIsSound, HoldersDiffer, Repeats, Holds, Working
<1>6. \A k \in Keys : RowIsSound(k)'
  BY <1>1 DEF TypeOK, IdempotencyInv, Release, RowIsSound, Holds, Working
<1> QED
  BY <1>1, <1>2, <1>3, <1>4, <1>5, <1>6 DEF IdempotencyInv

-----------------------------------------------------------------------------
(* The time that passes changes no claim. *)
LEMMA ExpireKeeps == ASSUME IdempotencyInv, NEW k \in Keys, Expire(k) PROVE IdempotencyInv'
<1>1. TypeOK /\ TypeOK'
  BY DEF IdempotencyInv, TypeOK, Expire
<1> QED
  BY <1>1 DEF Expire, IdempotencyInv, AnswersAreTrue, KeysAreFreed, HoldersDiffer,
      Repeats, HolderIsSound, RowIsSound, Holds, Working

LEMMA StutterKeeps == ASSUME IdempotencyInv, UNCHANGED vars PROVE IdempotencyInv'
BY DEF vars, IdempotencyInv, TypeOK, AnswersAreTrue, KeysAreFreed, HoldersDiffer,
       Repeats, HolderIsSound, RowIsSound, Holds, Working

(* Every step keeps the invariant.                                          *)
LEMMA StepKeeps == IdempotencyInv /\ [Next]_vars => IdempotencyInv'
<1> SUFFICES ASSUME IdempotencyInv, [Next]_vars PROVE IdempotencyInv'
  OBVIOUS
<1>1. ASSUME NEW q \in Requests, Serve(q) PROVE IdempotencyInv'
  BY <1>1, SweepKeeps, ClaimKeeps, TakenKeeps, ReplayKeeps, RefuseKeeps, EarlyFailureKeeps,
     HandleKeeps, HandleFailsKeeps, StoreKeeps, StoreFailsKeeps,
     ReleaseKeeps, ReleaseFailsKeeps, CrashKeeps DEF Serve
<1>2. ASSUME NEW k \in Keys, Expire(k) PROVE IdempotencyInv'
  BY <1>2, ExpireKeeps
<1>3. ASSUME UNCHANGED vars PROVE IdempotencyInv'
  BY <1>3, StutterKeeps
<1> QED
  BY <1>1, <1>2, <1>3 DEF Next, Finished

LEMMA InvHolds == Spec => []IdempotencyInv
BY InitInv, StepKeeps, PTL DEF Spec

-----------------------------------------------------------------------------
(* The variables of the requests and of the key rows keep their types.      *)
THEOREM TypeCorrect == Spec => []TypeOK
<1>1. IdempotencyInv => TypeOK
  BY DEF IdempotencyInv
<1> QED BY <1>1, InvHolds, PTL

(* While a key is valid its effect happens once, for any number of requests *)
(* with it, any failures and any crashes (run, the claim and the catch      *)
(* block): of two requests that had an effect in one period neither can     *)
(* hold the row unless the other has ended in an error.                     *)
THEOREM OnceInAPeriod == Spec => []OneEffectPerKey
<1>1. IdempotencyInv => OneEffectPerKey
  BY DEF IdempotencyInv, OneEffectPerKey, HoldersDiffer, HolderIsSound, Repeats
<1> QED BY <1>1, InvHolds, PTL

(* A 2xx answer, replayed or not, is that of a handler which has had its    *)
(* effect, for the same key and body.                                       *)
THEOREM AnswersAreThoseOfTheFirst == Spec => []AnswersAreTrue
<1>1. IdempotencyInv => AnswersAreTrue
  BY DEF IdempotencyInv
<1> QED BY <1>1, InvHolds, PTL

(* A row without a response belongs to a request at work, or to one whose   *)
(* process died or whose release failed; never to one that ended in an      *)
(* error of its handler.                                                    *)
THEOREM ErrorsFreeTheKey == Spec => []KeysAreFreed
<1>1. IdempotencyInv => KeysAreFreed
  BY DEF IdempotencyInv
<1> QED BY <1>1, InvHolds, PTL

(* Both: what a client is told is true, and an error frees its key.         *)
THEOREM KeysStayHonest == Spec => []KeysAreHonest
<1>1. AnswersAreTrue /\ KeysAreFreed => KeysAreHonest
  BY DEF KeysAreHonest
<1> QED BY <1>1, AnswersAreThoseOfTheFirst, ErrorsFreeTheKey, PTL

-----------------------------------------------------------------------------
(* The receiver of webhooks.                                                *)

LEMMA ReceiverInitInv == Receiver!Init => Receiver!ReceiverInv
BY DEF Receiver!Init, Receiver!ReceiverInv, Receiver!TypeOK, Receiver!NotYetHandled,
       Receiver!SeenIsTaken, Receiver!Taken, Receiver!SignedSinceRotation

LEMMA SenderKeeps ==
  ASSUME Receiver!ReceiverInv,
         \/ Receiver!Tick \/ Receiver!RotateSecret
         \/ \E e \in Events : Receiver!Attempt(e)
  PROVE  Receiver!ReceiverInv'
<1> USE DEF Receiver!ReceiverInv, Receiver!endpointVars, Receiver!receiverVars
<1>1. UNCHANGED <<configured, acked, seen, working, handled, restarts, vanished>>
  BY DEF Receiver!Tick, Receiver!RotateSecret, Receiver!Attempt
<1>2. Receiver!TypeOK'
  <2>1. CASE Receiver!Tick
    BY <2>1 DEF Receiver!Tick, Receiver!TypeOK
  <2>2. CASE Receiver!RotateSecret
    BY <2>2 DEF Receiver!RotateSecret, Receiver!TypeOK
  <2>3. ASSUME NEW e \in Events, Receiver!Attempt(e) PROVE Receiver!TypeOK'
    BY <2>3 DEF Receiver!Attempt, Receiver!Sign, Receiver!SigningSecret, Receiver!TypeOK
  <2> QED
    BY <2>1, <2>2, <2>3
<1>3. Receiver!NotYetHandled' /\ Receiver!SeenIsTaken'
  BY <1>1 DEF Receiver!NotYetHandled, Receiver!SeenIsTaken, Receiver!Taken
<1>4. Receiver!SignedSinceRotation'
  BY DEF Receiver!Tick, Receiver!RotateSecret, Receiver!Attempt, Receiver!Sign,
         Receiver!SigningSecret, Receiver!TypeOK, Receiver!SignedSinceRotation
<1> QED
  BY <1>2, <1>3, <1>4

LEMMA ReceiverTakesKeeps ==
  ASSUME Receiver!ReceiverInv, NEW p \in posts, NEW heard \in BOOLEAN, Receiver!Receive(p, heard)
  PROVE  Receiver!ReceiverInv'
<1> USE DEF Receiver!ReceiverInv
<1>0. p.event \in Events
  BY DEF Receiver!TypeOK
<1>1. /\ seen' = seen \cup {p.event}
      /\ working' = IF p.event \in seen THEN working ELSE working \cup {p.event}
      /\ acked' = [acked EXCEPT ![p.event] = acked[p.event] \/ heard]
      /\ UNCHANGED <<clock, secret, rotated, attempts, posts, configured, handled, restarts, vanished>>
  BY DEF Receiver!Receive, Receiver!Remembered
<1>2. Receiver!TypeOK'
  BY <1>0, <1>1 DEF Receiver!TypeOK
<1>3. Receiver!NotYetHandled'
  BY <1>0, <1>1 DEF Receiver!NotYetHandled, Receiver!TypeOK
<1>4. Receiver!SeenIsTaken'
  BY <1>0, <1>1 DEF Receiver!SeenIsTaken, Receiver!Taken, Receiver!TypeOK
<1>5. Receiver!SignedSinceRotation'
  BY <1>1 DEF Receiver!SignedSinceRotation
<1> QED
  BY <1>2, <1>3, <1>4, <1>5

LEMMA ReceiverRefusesKeeps ==
  ASSUME Receiver!ReceiverInv, NEW p \in posts, Receiver!Refuse(p)
  PROVE  Receiver!ReceiverInv'
<1>1. UNCHANGED Receiver!vars
  BY DEF Receiver!Refuse, Receiver!Ignored, Receiver!vars, Receiver!receiverVars
<1> QED
  BY <1>1 DEF Receiver!vars, Receiver!endpointVars, Receiver!receiverVars, Receiver!ReceiverInv,
      Receiver!TypeOK, Receiver!NotYetHandled, Receiver!SeenIsTaken, Receiver!Taken,
      Receiver!SignedSinceRotation

LEMMA ReceiverHandleKeeps ==
  ASSUME Receiver!ReceiverInv, NEW e \in Events, Receiver!Handle(e)
  PROVE  Receiver!ReceiverInv'
<1> USE DEF Receiver!ReceiverInv, Receiver!endpointVars
<1>1. Receiver!TypeOK'
  BY DEF Receiver!Handle, Receiver!TypeOK
<1>2. Receiver!NotYetHandled'
  BY DEF Receiver!Handle, Receiver!NotYetHandled, Receiver!TypeOK
<1>3. Receiver!SeenIsTaken'
  BY DEF Receiver!Handle, Receiver!SeenIsTaken, Receiver!Taken, Receiver!TypeOK
<1>4. Receiver!SignedSinceRotation'
  BY DEF Receiver!Handle, Receiver!SignedSinceRotation
<1> QED
  BY <1>1, <1>2, <1>3, <1>4

LEMMA RestartKeeps == ASSUME Receiver!ReceiverInv, Receiver!Restart PROVE Receiver!ReceiverInv'
<1> USE DEF Receiver!ReceiverInv, Receiver!endpointVars
<1>1. Receiver!TypeOK'
  BY DEF Receiver!Restart, Receiver!TypeOK
<1>2. Receiver!NotYetHandled'
  BY DEF Receiver!Restart, Receiver!NotYetHandled, Receiver!TypeOK
<1>3. Receiver!SeenIsTaken'
  BY DEF Receiver!Restart, Receiver!SeenIsTaken, Receiver!Taken, Receiver!TypeOK
<1>4. Receiver!SignedSinceRotation'
  BY DEF Receiver!Restart, Receiver!SignedSinceRotation
<1> QED
  BY <1>1, <1>2, <1>3, <1>4

(* Of all steps only a post that arrives fresh gives the receiver work.     *)
OnlyFreshPosts ==
  \A e \in working' \ working : \E p \in posts : p.event = e /\ clock - p.t <= Tolerance

LEMMA ReceiverStep ==
  ASSUME Receiver!ReceiverInv, Receiver!Next PROVE Receiver!ReceiverInv' /\ OnlyFreshPosts
<1>1. Receiver!ReceiverInv'
  BY SenderKeeps, ReceiverTakesKeeps, ReceiverRefusesKeeps, ReceiverHandleKeeps, RestartKeeps DEF Receiver!Next
<1>2. ASSUME NEW p \in posts, NEW heard \in BOOLEAN, Receiver!Receive(p, heard)
      PROVE  OnlyFreshPosts
  <2>1. clock - p.t <= Tolerance /\ working' \subseteq working \cup {p.event}
    BY <1>2 DEF Receiver!Receive, Receiver!Verified, Receiver!Fresh
  <2> QED
    BY <2>1 DEF OnlyFreshPosts
<1>3. \/ working' \subseteq working
      \/ \E p \in posts, heard \in BOOLEAN : Receiver!Receive(p, heard)
  BY DEF Receiver!Next, Receiver!Tick, Receiver!RotateSecret, Receiver!Restart, Receiver!Attempt,
      Receiver!Handle, Receiver!Refuse, Receiver!receiverVars
<1> QED
  BY <1>1, <1>2, <1>3 DEF OnlyFreshPosts

(* A delivery is handled once by a run of the receiver, what was            *)
(* acknowledged was taken, what is signed after a rotation is accepted by   *)
(* a receiver that has been started since, and what the receiver takes on   *)
(* was signed within the tolerance: for any events, posts and restarts.     *)
THEOREM ReceiverIsSound == ClientSpec => ReceiverKeepsItsWord
<1>1. ClientInit => Receiver!ReceiverInv
  BY ReceiverInitInv DEF ClientInit
<1>2. Receiver!ReceiverInv /\ [ClientNext]_allVars =>
        Receiver!ReceiverInv' /\ (Receiver!Next \/ UNCHANGED Receiver!vars)
  <2> SUFFICES ASSUME Receiver!ReceiverInv, [ClientNext]_allVars
               PROVE  Receiver!ReceiverInv' /\ (Receiver!Next \/ UNCHANGED Receiver!vars)
    OBVIOUS
  <2>1. CASE Receiver!Next
    BY <2>1, ReceiverStep
  <2>2. CASE UNCHANGED receiverVars
    BY <2>2 DEF receiverVars, Receiver!vars, Receiver!endpointVars, Receiver!receiverVars,
        Receiver!ReceiverInv, Receiver!TypeOK, Receiver!NotYetHandled, Receiver!SeenIsTaken,
        Receiver!Taken, Receiver!SignedSinceRotation
  <2> QED
    BY <2>1, <2>2 DEF ClientNext, allVars
<1>3. Receiver!ReceiverInv /\ [Receiver!Next]_(Receiver!vars) => [OnlyFreshPosts]_(Receiver!vars)
  BY ReceiverStep
<1>4. Receiver!ReceiverInv =>
        Receiver!HandledOnce /\ Receiver!AckedIsTaken /\ Receiver!RotationHeals
  BY DEF Receiver!ReceiverInv, Receiver!NotYetHandled, Receiver!SeenIsTaken, Receiver!Taken,
      Receiver!SignedSinceRotation, Receiver!HandledOnce, Receiver!AckedIsTaken,
      Receiver!RotationHeals, Receiver!Verified
<1>5. ClientSpec => [](Receiver!ReceiverInv) /\ [][Receiver!Next]_(Receiver!vars)
  <2>1. Receiver!ReceiverInv /\ [ClientNext]_allVars =>
          Receiver!ReceiverInv' /\ [Receiver!Next]_(Receiver!vars)
    BY <1>2
  <2> QED
    BY <1>1, <2>1, PTL DEF ClientSpec
<1> QED
  BY <1>3, <1>4, <1>5, PTL DEF ReceiverKeepsItsWord, Receiver!NoLateReplay, OnlyFreshPosts

===================================================================================
