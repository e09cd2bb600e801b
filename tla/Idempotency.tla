------------------------------ MODULE Idempotency ------------------------------
(***************************************************************************)
(* Idempotency-Key of apps/api (IdempotencyInterceptor): requests that     *)
(* carry a key claim its row, run their handler, and keep its response for *)
(* repeats.                                                                *)
(*                                                                         *)
(* Simplifications.                                                        *)
(*   - A key stands for org, route and key; a retry is another request.    *)
(*   - A row's id is the request that inserted it, and a stored response   *)
(*     the request whose handler gave it.                                  *)
(*   - The handler's transaction is one step: it has its effect, or none.  *)
(*   - A key may expire at any time, even while its request is running.    *)
(***************************************************************************)
EXTENDS Naturals

CONSTANTS
  Requests,     (* requests with a valid key                                *)
  Keys,         (* keys in use                                              *)
  Bodies,       (* request hashes                                           *)
  Nobody,       (* no row, no response, no reply                            *)
  MaxFailures,  (* bound on failing statements and lost answers             *)
  MaxCrashes    (* bound on requests whose process dies                     *)

ASSUME IdsAssumption == Nobody \notin Requests
ASSUME LimitsAssumption == MaxFailures \in Nat /\ MaxCrashes \in Nat

VARIABLES
  key,       (* key[q], body[q]: what q carries                             *)
  body,
  pc,        (* pc[q]: where q is                                           *)
  row,       (* row[k]: the request whose row k has                         *)
  response,  (* response[k]: the response in that row                       *)
  expired,   (* expired[k]: the row's expires_at has passed                 *)
  did,       (* did[q]: q's handler has had its effect                      *)
  reply,     (* reply[q]: the 2xx response q got, its own or a replayed one *)
  sweeps,    (* history: how often a row of k was swept                     *)
  epoch,     (* history: sweeps of its key when q claimed it                *)
  failures, crashes  (* counters for the bounds                             *)

rowVars     == <<row, response, expired, sweeps>>
requestVars == <<key, body>>
boundVars   == <<failures, crashes>>
vars == <<requestVars, pc, rowVars, did, reply, epoch, boundVars>>

Init ==
  /\ key \in [Requests -> Keys]
  /\ body \in [Requests -> Bodies]
  /\ pc = [q \in Requests |-> "arrived"]
  /\ row = [k \in Keys |-> Nobody]
  /\ response = [k \in Keys |-> Nobody]
  /\ expired = [k \in Keys |-> FALSE]
  /\ did = [q \in Requests |-> FALSE]
  /\ reply = [q \in Requests |-> Nobody]
  /\ sweeps = [k \in Keys |-> 0]
  /\ epoch = [q \in Requests |-> 0]
  /\ failures = 0 /\ crashes = 0

Goto(q, where) == pc' = [pc EXCEPT ![q] = where]
Fail == failures < MaxFailures /\ failures' = failures + 1

(* The row of k goes, with its columns. *)
Delete(k) ==
  /\ row' = [row EXCEPT ![k] = Nobody]
  /\ response' = [response EXCEPT ![k] = Nobody]
  /\ expired' = [expired EXCEPT ![k] = FALSE]

(* The hash that the row of k was inserted with. *)
Hash(k) == body[row[k]]

-----------------------------------------------------------------------------
(* The row is deleted if it has expired.                                    *)
Sweep(q) ==
  LET k == key[q] IN
  /\ pc[q] = "arrived"
  /\ IF expired[k]
       THEN Delete(k) /\ sweeps' = [sweeps EXCEPT ![k] = @ + 1]
       ELSE UNCHANGED rowVars
  /\ Goto(q, "claiming")
  /\ UNCHANGED <<requestVars, did, reply, epoch, boundVars>>

(* INSERT ... ON CONFLICT DO NOTHING.  When only its answer is lost, the    *)
(* row is there and nobody knows of it.                                     *)
Free(k) == row[k] = Nobody

Claim(q) ==
  LET k == key[q] IN
  /\ pc[q] = "claiming"
  /\ Free(k)
  /\ row' = [row EXCEPT ![k] = q]
  /\ epoch' = [epoch EXCEPT ![q] = sweeps[k]]
  /\ \/ Goto(q, "running") /\ UNCHANGED failures
     \/ Goto(q, "stranded") /\ Fail
  /\ UNCHANGED <<requestVars, response, expired, sweeps, did, reply, crashes>>

Taken(q) ==
  /\ pc[q] = "claiming"
  /\ ~Free(key[q])
  /\ Goto(q, "looking")
  /\ UNCHANGED <<requestVars, rowVars, did, reply, epoch, boundVars>>

(* A row with another body, without a response, or gone meanwhile: 422, 409.*)
(* Mutant: the hashes are not compared. *)
AnyBody(q) == TRUE
SameBody(q) == Hash(key[q]) = body[q]
Answerable(q) == ~Free(key[q]) /\ SameBody(q) /\ response[key[q]] # Nobody

Replay(q) ==
  /\ pc[q] = "looking"
  /\ Answerable(q)
  /\ reply' = [reply EXCEPT ![q] = response[key[q]]]
  /\ Goto(q, "done")
  /\ UNCHANGED <<requestVars, rowVars, did, epoch, boundVars>>

(* Mutant: the repeat tries again until there is an answer. *)
WaitForAnswer(q) ==
  /\ pc[q] = "looking"
  /\ ~Answerable(q)
  /\ Goto(q, "claiming")
  /\ UNCHANGED <<requestVars, rowVars, did, reply, epoch, boundVars>>

Refuse(q) ==
  /\ pc[q] = "looking"
  /\ ~Answerable(q)
  /\ Goto(q, "refused")
  /\ UNCHANGED <<requestVars, rowVars, did, reply, epoch, boundVars>>

(* A statement fails outside the try block. *)
EarlyFailure(q) ==
  /\ pc[q] \in {"arrived", "claiming", "looking"}
  /\ Fail
  /\ Goto(q, "failed")
  /\ UNCHANGED <<requestVars, rowVars, did, reply, epoch, crashes>>

(* next.handle(): validation and the service, whose transaction commits,    *)
(* does not, or commits without its answer coming back.                     *)
Handle(q) ==
  /\ pc[q] = "running"
  /\ did' = [did EXCEPT ![q] = TRUE]
  /\ Goto(q, "storing")
  /\ UNCHANGED <<requestVars, rowVars, reply, epoch, boundVars>>

HandleFails(q) ==
  /\ pc[q] = "running"
  /\ \/ UNCHANGED <<did, failures>>
     \/ Fail /\ did' = [did EXCEPT ![q] = TRUE]
  /\ Goto(q, "releasing")
  /\ UNCHANGED <<requestVars, rowVars, reply, epoch, crashes>>

(* The update and the delete name the row by its id.                        *)
RowOfKey(q) == ~Free(key[q])   (* mutant: by scope *)
OwnRow(q) == row[key[q]] = q

StoreIn(q) ==
  response' = IF OwnRow(q) THEN [response EXCEPT ![key[q]] = q] ELSE response

Store(q) ==
  /\ pc[q] = "storing"
  /\ StoreIn(q)
  /\ reply' = [reply EXCEPT ![q] = q]
  /\ Goto(q, "done")
  /\ UNCHANGED <<requestVars, row, expired, sweeps, did, epoch, boundVars>>

(* The update fails, or only its answer is lost. *)
StoreFails(q) ==
  /\ pc[q] = "storing"
  /\ Fail
  /\ StoreIn(q) \/ UNCHANGED response
  /\ Goto(q, "releasing")
  /\ UNCHANGED <<requestVars, row, expired, sweeps, did, reply, epoch, crashes>>

(* The catch block: the key is free again, and the error is passed on.      *)
Release(q) ==
  /\ pc[q] = "releasing"
  /\ IF OwnRow(q) THEN Delete(key[q]) ELSE UNCHANGED <<row, response, expired>>
  /\ Goto(q, "failed")
  /\ UNCHANGED <<requestVars, sweeps, did, reply, epoch, boundVars>>

(* When only its answer is lost, the delete is made as in Release. *)
ReleaseFails(q) ==
  /\ pc[q] = "releasing"
  /\ Fail
  /\ Goto(q, "stranded")
  /\ UNCHANGED <<requestVars, rowVars, did, reply, epoch, crashes>>

Working == {"running", "storing", "releasing"}

(* The process dies with q in it. *)
Crash(q) ==
  /\ crashes < MaxCrashes
  /\ crashes' = crashes + 1
  /\ pc[q] \in Working
  /\ Goto(q, "stranded")
  /\ UNCHANGED <<requestVars, rowVars, did, reply, epoch, failures>>

Expire(k) ==
  /\ ~Free(k) /\ ~expired[k]
  /\ expired' = [expired EXCEPT ![k] = TRUE]
  /\ UNCHANGED <<requestVars, pc, row, response, did, reply, sweeps, epoch, boundVars>>

-----------------------------------------------------------------------------
Serve(q) ==
  \/ Sweep(q) \/ Claim(q) \/ Taken(q) \/ Replay(q) \/ Refuse(q)
  \/ EarlyFailure(q)
  \/ Handle(q) \/ HandleFails(q) \/ Store(q) \/ StoreFails(q)
  \/ Release(q) \/ ReleaseFails(q) \/ Crash(q)

AllServed == \A q \in Requests : pc[q] \in {"done", "refused", "failed", "stranded"}
Finished == AllServed /\ UNCHANGED vars

Next == (\E q \in Requests : Serve(q)) \/ (\E k \in Keys : Expire(k)) \/ Finished
Spec == Init /\ [][Next]_vars

(* A process carries on with the requests it has. *)
FairSpec == Spec /\ \A q \in Requests : WF_vars(Serve(q))

-----------------------------------------------------------------------------
(* The variables keep their types, and only a row has columns.              *)
TypeOK ==
  /\ key \in [Requests -> Keys]
  /\ body \in [Requests -> Bodies]
  /\ pc \in [Requests -> {"arrived", "claiming", "looking", "running", "storing", "releasing",
                          "done", "refused", "failed", "stranded"}]
  /\ row \in [Keys -> Requests \cup {Nobody}]
  /\ response \in [Keys -> Requests \cup {Nobody}]
  /\ expired \in [Keys -> BOOLEAN]
  /\ did \in [Requests -> BOOLEAN]
  /\ reply \in [Requests -> Requests \cup {Nobody}]
  /\ sweeps \in [Keys -> Nat]
  /\ epoch \in [Requests -> Nat]
  /\ failures \in 0..MaxFailures /\ crashes \in 0..MaxCrashes
  /\ \A k \in Keys : Free(k) => response[k] = Nobody /\ ~expired[k]

(* Two requests that claimed the same key in the same period of validity.   *)
Repeats(p, q) == p # q /\ key[p] = key[q] /\ epoch[p] = epoch[q]

(* "Retries with the same key replay the first 2xx response instead of      *)
(* running again": while a key is valid its effect happens once.  Only an   *)
(* effect whose request ended in an error is run again by a retry.          *)
OneEffectPerKey ==
  \A p, q \in Requests : Repeats(p, q) /\ did[p] /\ did[q] =>
    \E f \in {p, q} : pc[f] \in {"releasing", "failed"}

(* A 2xx answer is that of a handler which has had its effect for the same  *)
(* key and the same body.                                                   *)
AnswersAreTrue ==
  \A q \in Requests : reply[q] # Nobody =>
    LET p == reply[q] IN did[p] /\ key[p] = key[q] /\ body[p] = body[q]

(* An error answer leaves the key free for the retry: a row without a       *)
(* response is that of a request still at work, or of one that was stranded.*)
KeysAreFreed ==
  \A k \in Keys : ~Free(k) =>
    pc[row[k]] \in Working \cup {"stranded"} \/ (pc[row[k]] = "done" /\ response[k] = row[k])

(* What a key's row says is true: of answers, and of requests in progress.  *)
KeysAreHonest == AnswersAreTrue /\ KeysAreFreed

-----------------------------------------------------------------------------
(* The inductive invariant: a request that has claimed a key and not given  *)
(* it up has the key's row as long as no sweep took it, so two of them were *)
(* never in the same period.                                                *)
Holds(q) == pc[q] \in Working \cup {"stranded"} \/ (pc[q] = "done" /\ reply[q] = q)

HolderIsSound(q) ==
  /\ epoch[q] <= sweeps[key[q]]
  /\ Holds(q) /\ epoch[q] = sweeps[key[q]] => OwnRow(q)
  /\ did[q] => Holds(q) \/ pc[q] = "failed"
  /\ pc[q] = "storing" => did[q]
  /\ reply[q] # Nobody => pc[q] = "done"

HoldersDiffer ==
  \A p, q \in Requests : Repeats(p, q) => ~Holds(p) \/ ~Holds(q)

RowIsSound(k) ==
  /\ row[k] # Nobody => key[row[k]] = k /\ Holds(row[k])
  /\ response[k] # Nobody => response[k] = row[k] /\ did[row[k]]

IdempotencyInv ==
  /\ TypeOK /\ AnswersAreTrue /\ KeysAreFreed /\ HoldersDiffer
  /\ \A q \in Requests : HolderIsSound(q)
  /\ \A k \in Keys : RowIsSound(k)

-----------------------------------------------------------------------------
(* Every repeat is answered or refused, whatever became of the first.       *)
NobodyHangs == \A q \in Requests : <>(pc[q] \in {"done", "refused", "failed", "stranded"})

=============================================================================
