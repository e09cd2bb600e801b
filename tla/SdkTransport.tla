------------------------------ MODULE SdkTransport ------------------------------
(***************************************************************************)
(* One call of the TypeScript SDK (Transport of packages/sdk): attempts, a  *)
(* timeout for each, backoff and retries, against a server and a network    *)
(* that may be slow, refuse, fail or cut the connection.                    *)
(*                                                                         *)
(* Simplifications.                                                        *)
(*   - A response is its kind: "ok", "unreadable" (a 2xx that is not JSON), *)
(*     "limited" (429), "failed" (408, 5xx) or "rejected" (another 4xx).    *)
(*   - An attempt that the client gave up on may still reach the handler.   *)
(*   - Deleting twice has one effect, and the second is a 404.              *)
(***************************************************************************)
EXTENDS Naturals

CONSTANTS MaxRetries, None

VARIABLES
  method,
  callPc,      (* "sending", "waiting", "backoff" or "settled"              *)
  attempt,     (* attempts made before this one                             *)
  pending,     (* attempts the server has not handled yet                   *)
  answer,      (* response to the present attempt, on its way               *)
  effects,     (* how often the call had its effect on the server           *)
  outcome,     (* what the caller gets                                      *)
  cut,         (* history: a connection was lost after its request was sent *)
  unanswered   (* history: an attempt ended without a 2xx, 429 or other 4xx *)

callVars == <<method, callPc, attempt, pending, answer, effects, outcome, cut, unanswered>>

CallInit ==
  /\ method \in {"GET", "DELETE", "POST", "PATCH"}
  /\ callPc = "sending"
  /\ attempt = 0
  /\ pending = {}
  /\ answer = None
  /\ effects = 0
  /\ outcome = None
  /\ cut = FALSE
  /\ unanswered = FALSE

Idempotent == method \in {"GET", "DELETE"}

(* The end of an attempt: another one, after a pause, or the outcome.       *)
EndAttempt(retryable, result) ==
  /\ answer' = None
  /\ IF retryable /\ attempt < MaxRetries
       THEN callPc' = "backoff" /\ UNCHANGED outcome
       ELSE callPc' = "settled" /\ outcome' = result

-----------------------------------------------------------------------------
Send ==
  /\ callPc = "sending"
  /\ callPc' = "waiting"
  /\ pending' = pending \cup {attempt}
  /\ UNCHANGED <<method, attempt, answer, effects, outcome, cut, unanswered>>

(* No connection: nothing was sent.                                         *)
Unreachable ==
  /\ callPc = "sending"
  /\ EndAttempt(TRUE, "connection_error")
  /\ UNCHANGED <<method, attempt, pending, effects, cut, unanswered>>

(* The server handles an attempt; the client hears of it if it still waits. *)
HasEffect == method \in {"POST", "PATCH"} \/ (method = "DELETE" /\ effects = 0)

HandleAttempt(a, response, acts) ==
  /\ a \in pending
  /\ pending' = pending \ {a}
  /\ response \in {"ok", "unreadable"} => (acts = HasEffect) /\ (method = "DELETE" => HasEffect)
  /\ response \in {"limited", "rejected"} => ~acts
  /\ acts => HasEffect
  /\ effects' = IF acts THEN effects + 1 ELSE effects
  /\ answer' = IF callPc = "waiting" /\ a = attempt THEN response ELSE answer
  /\ UNCHANGED <<method, callPc, attempt, outcome, cut, unanswered>>

(* request: what is done with the response.                                 *)
Retryable(response) == response = "limited" \/ (Idempotent /\ response = "failed")

Receive ==
  /\ callPc = "waiting" /\ answer # None
  /\ \/ EndAttempt(Retryable(answer), answer)
     \/ Retryable(answer) /\ EndAttempt(FALSE, answer)   (* a Retry-After above a minute *)
  /\ unanswered' = (unanswered \/ answer = "failed")
  /\ UNCHANGED <<method, attempt, pending, effects, cut>>

(* The timeout of the attempt, which covers the body.                       *)
AlwaysRetried == TRUE   (* mutant: a timeout is retried like a lost connection *)
TimeoutRetried == Idempotent

TimeOut ==
  /\ callPc = "waiting"
  /\ EndAttempt(TimeoutRetried, "timeout")
  /\ unanswered' = TRUE
  /\ UNCHANGED <<method, attempt, pending, effects, cut>>

(* The connection is lost before the response, or in its body.              *)
Cut ==
  /\ callPc = "waiting"
  /\ EndAttempt(TRUE, "connection_error")
  /\ cut' = TRUE /\ unanswered' = TRUE
  /\ UNCHANGED <<method, attempt, pending, effects>>

Again == "sending"

Retry ==
  /\ callPc = "backoff"
  /\ callPc' = Again
  /\ attempt' = attempt + 1
  /\ UNCHANGED <<method, pending, answer, effects, outcome, cut, unanswered>>

(* The caller's signal, before, in or between attempts.                     *)
AbortCall ==
  /\ callPc # "settled"
  /\ EndAttempt(FALSE, "aborted")
  /\ unanswered' = TRUE
  /\ UNCHANGED <<method, attempt, pending, effects, cut>>

Responses == {"ok", "unreadable", "limited", "failed", "rejected"}
ASSUME NoResponse == None \notin Responses
Client == Send \/ Unreachable \/ Receive \/ TimeOut \/ Cut \/ Retry \/ AbortCall
Server == \E a \in pending, r \in Responses, acts \in BOOLEAN : HandleAttempt(a, r, acts)
CallNext == Client \/ Server
CallSpec == CallInit /\ [][CallNext]_callVars

(* Timers fire; of the server nothing is asked.                             *)
FairCallSpec == CallSpec /\ WF_callVars(Send \/ Unreachable) /\ WF_callVars(TimeOut) /\ WF_callVars(Retry)

-----------------------------------------------------------------------------
CallTypeOK ==
  /\ method \in {"GET", "DELETE", "POST", "PATCH"}
  /\ callPc \in {"sending", "waiting", "backoff", "settled"}
  /\ attempt \in Nat /\ effects \in Nat
  /\ pending \subseteq 0..attempt
  /\ answer \in Responses \cup {None}
  /\ outcome \in Responses \cup {"connection_error", "timeout", "aborted", None}
  /\ cut \in BOOLEAN /\ unanswered \in BOOLEAN

(* A screening or a transfer is made once by a call, whatever is slow or    *)
(* fails: unless a connection was lost after the request had been sent.     *)
OnceUnlessCut == method \in {"POST", "PATCH"} /\ effects > 1 => cut

(* A call that was refused had no effect, unless an attempt before it ended *)
(* without an answer (deleting again is answered 404).                      *)
RefusedMeansUndone ==
  outcome \in {"limited", "rejected"} /\ ~unanswered => effects = 0

(* The two together: what the outcome of a call says of its effects.        *)
CallTellsTheTruth == OnceUnlessCut /\ RefusedMeansUndone

(* Why: as long as no attempt was given up that may yet be handled, at most *)
(* the present one is under way, and one that is had no effect so far.      *)
NoneGivenUp == ~unanswered \/ (method \in {"POST", "PATCH"} /\ ~cut)

AtMostOneUnderWay ==
  /\ pending \subseteq {attempt}
  /\ pending # {} => effects = 0 /\ answer = None
  /\ effects <= 1
  /\ callPc \in {"sending", "backoff"} => pending = {} /\ effects = 0
  /\ callPc = "waiting" /\ answer = None => effects = 0
  /\ answer \in {"limited", "rejected"} => effects = 0

CallInv ==
  /\ CallTypeOK
  /\ callPc # "waiting" => answer = None
  /\ callPc # "settled" => outcome = None
  /\ NoneGivenUp => AtMostOneUnderWay
  /\ outcome \in {"limited", "rejected"} /\ ~unanswered => effects = 0 /\ pending = {}

=============================================================================
