---------------------------- MODULE WebhookOutbox ----------------------------
(***************************************************************************)
(* The webhook outbox of apps/api: WebhooksService writes delivery rows    *)
(* inside the transactions of other services, and one WebhookDispatcher    *)
(* per API process claims due rows, POSTs them and records the outcome.    *)
(*                                                                         *)
(* Simplifications.                                                        *)
(*   - A database transaction that only touches rows it has locked is one  *)
(*     action.  What a process remembers between two transactions (the     *)
(*     claimed ids, the row an attempt read, the endpoints an emit read)   *)
(*     is state of its own, so everything may happen in between.           *)
(*   - Clock times are "due", "later" and "never": lease and backoff both  *)
(*     put a row off to later, and later comes in any order.  Which due    *)
(*     rows a full batch takes is left open (the code takes the oldest).   *)
(*   - Row ids are random, so the endpoint a row will belong to is fixed   *)
(*     beforehand by Target.  URL, secret, event types and body are left   *)
(*     out: an emit may select any of the enabled endpoints.               *)
(***************************************************************************)
EXTENDS Naturals, FiniteSets

CONSTANTS
  Endpoints,        (* webhook_endpoints row ids                            *)
  Deliveries,       (* webhook_deliveries row ids                           *)
  Target,           (* Target[d]: the endpoint_id of delivery d             *)
  Instances,        (* API processes                                        *)
  Workers,          (* the concurrent send loops of all the processes       *)
  Home,             (* Home[w]: the process that runs w                     *)
  Callers,          (* transactions of other services that emit events      *)
  NoDelivery,       (* the job of an idle worker                            *)
  MaxAttempts,      (* MAX_ATTEMPTS: 10 in the code                         *)
  AutoDisableAfter, (* AUTO_DISABLE_AFTER: 20 in the code                   *)
  BatchSize,        (* BATCH_SIZE: 25 in the code                           *)
  LeaseHolds,       (* a process is done with a row before its lease ends   *)
  MaxCrashes,       (* bound on process crashes                             *)
  MaxDbFailures,    (* bound on failed dispatcher statements                *)
  MaxUpdates        (* bound on PATCH /webhooks/:id calls                   *)

ASSUME RowsAssumption ==
  /\ IsFiniteSet(Deliveries)
  /\ NoDelivery \notin Deliveries
  /\ Target \in [Deliveries -> Endpoints]
ASSUME ProcessAssumption == IsFiniteSet(Workers) /\ Home \in [Workers -> Instances]
ASSUME LimitsAssumption ==
  /\ MaxAttempts \in Nat \ {0}
  /\ AutoDisableAfter \in Nat \ {0}
  /\ BatchSize \in Nat \ {0}
  /\ LeaseHolds \in BOOLEAN
  /\ MaxCrashes \in Nat /\ MaxDbFailures \in Nat /\ MaxUpdates \in Nat

VARIABLES
  lifecycle,  (* lifecycle[e]: "unused" before the insert, "live", "removed" *)
  enabled,    (* enabled[e]: deliveries are sent                            *)
  failures,   (* failures[e]: failure_count                                 *)
  status,     (* status[d]: "none" before the insert, "removed" after it    *)
  attempts,   (* attempts[d]: recorded attempts                             *)
  next,       (* next[d]: next_attempt_at against the clock                 *)
  intent,     (* intent[c]: endpoints c's emit has read and will write for  *)
  running,    (* running[i]: a dispatch pass is under way                   *)
  queue,      (* queue[i]: claimed rows no worker of i has taken yet        *)
  pc,         (* pc[w]: where worker w is in attempt()                      *)
  job,        (* job[w]: the delivery w works on                            *)
  seen,       (* seen[w]: attempts as w read it before it sent              *)
  posts,      (* history: POSTs of d that got an outcome                    *)
  acked,      (* history: some POST of d was answered 2xx                   *)
  lost,       (* history: outcomes of d that were never written down        *)
  crashes, dbFailures, updates  (* counters for the bounds                  *)

endpointVars == <<lifecycle, enabled, failures>>
rowVars      == <<status, attempts, next>>
passVars     == <<running, queue>>
workerVars   == <<pc, job, seen>>
historyVars  == <<posts, acked, lost>>
boundVars    == <<crashes, dbFailures, updates>>
vars == <<endpointVars, rowVars, intent, passVars, workerVars, historyVars, boundVars>>

Statuses == {"none", "pending", "succeeded", "failed", "removed"}

TypeOK ==
  /\ lifecycle \in [Endpoints -> {"unused", "live", "removed"}]
  /\ enabled \in [Endpoints -> BOOLEAN]
  /\ failures \in [Endpoints -> Nat]
  /\ status \in [Deliveries -> Statuses]
  /\ attempts \in [Deliveries -> 0..MaxAttempts]
  /\ next \in [Deliveries -> {"due", "later", "never"}]
  /\ intent \in [Callers -> SUBSET Endpoints]
  /\ running \in [Instances -> BOOLEAN]
  /\ queue \in [Instances -> SUBSET Deliveries]
  /\ pc \in [Workers -> {"idle", "posting", "acked", "refused"}]
  /\ job \in [Workers -> Deliveries \cup {NoDelivery}]
  /\ seen \in [Workers -> 0..MaxAttempts]
  /\ posts \in [Deliveries -> Nat]
  /\ acked \in [Deliveries -> BOOLEAN]
  /\ lost \in [Deliveries -> Nat]
  /\ crashes \in 0..MaxCrashes
  /\ dbFailures \in 0..MaxDbFailures
  /\ updates \in 0..MaxUpdates

Init ==
  /\ lifecycle = [e \in Endpoints |-> "unused"]
  /\ enabled = [e \in Endpoints |-> FALSE]
  /\ failures = [e \in Endpoints |-> 0]
  /\ status = [d \in Deliveries |-> "none"]
  /\ attempts = [d \in Deliveries |-> 0]
  /\ next = [d \in Deliveries |-> "never"]
  /\ intent = [c \in Callers |-> {}]
  /\ running = [i \in Instances |-> FALSE]
  /\ queue = [i \in Instances |-> {}]
  /\ pc = [w \in Workers |-> "idle"]
  /\ job = [w \in Workers |-> NoDelivery]
  /\ seen = [w \in Workers |-> 0]
  /\ posts = [d \in Deliveries |-> 0]
  /\ acked = [d \in Deliveries |-> FALSE]
  /\ lost = [d \in Deliveries |-> 0]
  /\ crashes = 0 /\ dbFailures = 0 /\ updates = 0

Busy(w) == pc[w] # "idle"
Answered(w) == pc[w] \in {"acked", "refused"}
(* Worker w has the outcome of a POST of d and has not recorded it. *)
Unrecorded(w, d) == Answered(w) /\ job[w] = d
(* Process i has claimed d and is not done with it. *)
Holds(i, d) == d \in queue[i] \/ \E w \in Workers : Home[w] = i /\ Busy(w) /\ job[w] = d

-----------------------------------------------------------------------------
(* Endpoints: what an org's admins do, and the emits of other services.     *)

CreateEndpoint(e) ==
  /\ lifecycle[e] = "unused"
  /\ lifecycle' = [lifecycle EXCEPT ![e] = "live"]
  /\ enabled' = [enabled EXCEPT ![e] = TRUE]
  /\ UNCHANGED <<failures, rowVars, intent, passVars, workerVars, historyVars, boundVars>>

(* Turning an endpoint back on gives it a clean slate; an update that finds *)
(* it on, or leaves it off, keeps the count.                                *)
FailuresOnUpdate(e, on) == IF on /\ ~enabled[e] THEN 0 ELSE failures[e]

UpdateEndpoint(e, on) ==
  /\ lifecycle[e] = "live"
  /\ updates < MaxUpdates
  /\ updates' = updates + 1
  /\ enabled' = [enabled EXCEPT ![e] = on]
  /\ failures' = [failures EXCEPT ![e] = FailuresOnUpdate(e, on)]
  /\ UNCHANGED <<lifecycle, rowVars, intent, passVars, workerVars, historyVars, crashes, dbFailures>>

(* The foreign key cascades to the endpoint's deliveries, claimed ones too. *)
RowsOf(e) == {d \in Deliveries : Target[d] = e /\ status[d] # "none"}

RemoveEndpoint(e) ==
  /\ lifecycle[e] = "live"
  /\ lifecycle' = [lifecycle EXCEPT ![e] = "removed"]
  /\ status' = [d \in Deliveries |-> IF d \in RowsOf(e) THEN "removed" ELSE status[d]]
  /\ next' = [d \in Deliveries |-> IF d \in RowsOf(e) THEN "never" ELSE next[d]]
  /\ UNCHANGED <<enabled, failures, attempts, intent, passVars, workerVars, historyVars, boundVars>>

Unused(d) == status[d] = "none"
Subscribable == {e \in Endpoints : lifecycle[e] = "live" /\ enabled[e]}
(* A delivery references its endpoint: the insert fails once that is gone. *)
InsertableWithoutForeignKey(new) == \A d \in new : Unused(d)
Insertable(new) == \A d \in new : Unused(d) /\ lifecycle[Target[d]] = "live"

InsertRows(new) ==
  /\ Insertable(new)
  /\ status' = [d \in Deliveries |-> IF d \in new THEN "pending" ELSE status[d]]
  /\ next' = [d \in Deliveries |-> IF d \in new THEN "due" ELSE next[d]]
  /\ UNCHANGED <<endpointVars, attempts, passVars, workerVars, historyVars, boundVars>>

EmitRead(c) ==
  /\ intent[c] = {}
  /\ \E es \in SUBSET Subscribable : es # {} /\ intent' = [intent EXCEPT ![c] = es]
  /\ UNCHANGED <<endpointVars, rowVars, passVars, workerVars, historyVars, boundVars>>

OneRowEach(new, es) ==
  /\ {Target[d] : d \in new} = es
  /\ \A d1, d2 \in new : Target[d1] = Target[d2] => d1 = d2

(* The rest of the caller's transaction; an endpoint may have been switched *)
(* off since EmitRead, and then its delivery is queued all the same.        *)
EmitInsert(c) ==
  /\ intent[c] # {}
  /\ \E new \in SUBSET Deliveries : OneRowEach(new, intent[c]) /\ InsertRows(new)
  /\ intent' = [intent EXCEPT ![c] = {}]

(* A deleted endpoint, or a failure of the caller's own, rolls all back. *)
EmitAbort(c) ==
  /\ intent[c] # {}
  /\ intent' = [intent EXCEPT ![c] = {}]
  /\ UNCHANGED <<endpointVars, rowVars, passVars, workerVars, historyVars, boundVars>>

(* A test goes to a disabled endpoint as well. *)
SendTest(d) ==
  /\ InsertRows({d})
  /\ UNCHANGED intent

(* The old row may be in any state; it is left as it is. *)
Redeliver(old, d) ==
  /\ status[old] \in {"pending", "succeeded", "failed"}
  /\ Target[d] = Target[old]
  /\ InsertRows({d})
  /\ UNCHANGED intent

-----------------------------------------------------------------------------
(* The dispatcher: tick, claim and the attempts of a pass.                  *)

ClaimableIgnoringLease == {d \in Deliveries : status[d] = "pending" /\ enabled[Target[d]]}
Claimable == {d \in Deliveries : status[d] = "pending" /\ next[d] = "due" /\ enabled[Target[d]]}
(* LIMIT: a full batch, or all there is; rows locked by a claim that is     *)
(* under way elsewhere are skipped, so the claims run one after another.    *)
Batches == {S \in SUBSET Claimable :
              Cardinality(S) <= BatchSize /\ (S = Claimable \/ Cardinality(S) = BatchSize)}

NextAttemptCleared == "never"
LeaseEnd == "later"

Claim(i) ==
  /\ ~running[i]
  /\ running' = [running EXCEPT ![i] = TRUE]
  /\ \E S \in Batches :
       /\ queue' = [queue EXCEPT ![i] = S]
       /\ next' = [d \in Deliveries |-> IF d \in S THEN LeaseEnd ELSE next[d]]
  /\ UNCHANGED <<endpointVars, status, attempts, intent, workerVars, historyVars, boundVars>>

FinishTick(i) ==
  /\ running[i]
  /\ queue[i] = {}
  /\ \A w \in Workers : Home[w] = i => ~Busy(w)
  /\ running' = [running EXCEPT ![i] = FALSE]
  /\ UNCHANGED <<endpointVars, rowVars, intent, queue, workerVars, historyVars, boundVars>>

Take(w, d) ==
  /\ ~Busy(w)
  /\ d \in queue[Home[w]]
  /\ queue' = [queue EXCEPT ![Home[w]] = @ \ {d}]
  /\ UNCHANGED <<endpointVars, rowVars, intent, running, historyVars, crashes, updates>>

(* Read the row and start to send; whether the endpoint is still enabled is *)
(* not looked at again.                                                     *)
Load(w, d) ==
  /\ Take(w, d)
  /\ status[d] = "pending"
  /\ pc' = [pc EXCEPT ![w] = "posting"]
  /\ job' = [job EXCEPT ![w] = d]
  /\ seen' = [seen EXCEPT ![w] = attempts[d]]
  /\ UNCHANGED dbFailures

Skip(w, d) ==
  /\ Take(w, d)
  /\ status[d] # "pending"
  /\ UNCHANGED <<workerVars, dbFailures>>

(* The read fails, the worker logs it and takes the next row. *)
LoadFails(w, d) ==
  /\ dbFailures < MaxDbFailures
  /\ Take(w, d)
  /\ dbFailures' = dbFailures + 1
  /\ UNCHANGED workerVars

(* 2xx, or anything else: another status, a redirect, a timeout, no answer. *)
Post(w, outcome) ==
  /\ pc[w] = "posting"
  /\ pc' = [pc EXCEPT ![w] = outcome]
  /\ posts' = [posts EXCEPT ![job[w]] = @ + 1]
  /\ acked' = [acked EXCEPT ![job[w]] = @ \/ outcome = "acked"]
  /\ UNCHANGED <<endpointVars, rowVars, intent, passVars, job, seen, lost, boundVars>>

Release(w) ==
  /\ pc' = [pc EXCEPT ![w] = "idle"]
  /\ job' = [job EXCEPT ![w] = NoDelivery]
  /\ seen' = [seen EXCEPT ![w] = 0]
  /\ UNCHANGED <<lifecycle, intent, passVars, posts, acked, crashes, updates>>

(* The count written is the one read before the POST, plus one. *)
AttemptsNotCounted(w) == seen[w]   (* mutant: not counted *)
AttemptsAfter(w) == seen[w] + 1
ExhaustedEarly(n) == n + 1 >= MaxAttempts   (* mutant: off by one *)
Exhausted(n) == n >= MaxAttempts
TripsOneLate(e) == enabled[e] /\ failures[e] >= AutoDisableAfter   (* mutant: the failure at hand is not counted *)
TripsBreaker(e) == enabled[e] /\ failures[e] + 1 >= AutoDisableAfter

(* The outcome is written by row id alone; a row deleted meanwhile (and its *)
(* endpoint with it) matches nothing, and its outcome is lost: RecordGone.  *)
RecordSuccess(w) ==
  LET d == job[w] e == Target[d] IN
  /\ pc[w] = "acked" /\ status[d] # "removed"
  /\ status' = [status EXCEPT ![d] = "succeeded"]
  /\ attempts' = [attempts EXCEPT ![d] = AttemptsAfter(w)]
  /\ next' = [next EXCEPT ![d] = "never"]
  /\ failures' = [failures EXCEPT ![e] = 0]
  /\ Release(w)
  /\ UNCHANGED <<enabled, lost, dbFailures>>

RecordFailure(w) ==
  LET d == job[w] e == Target[d] failed == Exhausted(AttemptsAfter(w)) IN
  /\ pc[w] = "refused" /\ status[d] # "removed"
  /\ status' = [status EXCEPT ![d] = IF failed THEN "failed" ELSE "pending"]
  /\ attempts' = [attempts EXCEPT ![d] = AttemptsAfter(w)]
  /\ next' = [next EXCEPT ![d] = IF failed THEN "never" ELSE "later"]
  /\ failures' = [failures EXCEPT ![e] = @ + 1]
  /\ enabled' = [enabled EXCEPT ![e] = @ /\ ~TripsBreaker(e)]
  /\ Release(w)
  /\ UNCHANGED <<lost, dbFailures>>

RecordGone(w) ==
  /\ Answered(w) /\ status[job[w]] = "removed"
  /\ lost' = [lost EXCEPT ![job[w]] = @ + 1]
  /\ Release(w)
  /\ UNCHANGED <<enabled, failures, rowVars, dbFailures>>

(* The transaction rolls back; the row keeps its lease. *)
RecordFails(w) ==
  /\ Answered(w)
  /\ dbFailures < MaxDbFailures
  /\ dbFailures' = dbFailures + 1
  /\ lost' = [lost EXCEPT ![job[w]] = @ + 1]
  /\ Release(w)
  /\ UNCHANGED <<enabled, failures, rowVars>>

(* The process dies and comes back: what it held in memory is gone. *)
Crash(i) ==
  /\ crashes < MaxCrashes
  /\ crashes' = crashes + 1
  /\ running' = [running EXCEPT ![i] = FALSE]
  /\ queue' = [queue EXCEPT ![i] = {}]
  /\ pc' = [w \in Workers |-> IF Home[w] = i THEN "idle" ELSE pc[w]]
  /\ job' = [w \in Workers |-> IF Home[w] = i THEN NoDelivery ELSE job[w]]
  /\ seen' = [w \in Workers |-> IF Home[w] = i THEN 0 ELSE seen[w]]
  /\ lost' = [d \in Deliveries |->
                lost[d] + Cardinality({w \in Workers : Home[w] = i /\ Unrecorded(w, d)})]
  /\ UNCHANGED <<endpointVars, rowVars, intent, posts, acked, dbFailures, updates>>

(* A lease or a backoff ends.  LeaseHolds is the timing assumption that it  *)
(* never ends under a process that still holds the row.                     *)
TimePasses(d) ==
  /\ next[d] = "later"
  /\ LeaseHolds => \A i \in Instances : ~Holds(i, d)
  /\ next' = [next EXCEPT ![d] = "due"]
  /\ UNCHANGED <<endpointVars, status, attempts, intent, passVars, workerVars, historyVars, boundVars>>

-----------------------------------------------------------------------------
Record(w) == RecordSuccess(w) \/ RecordFailure(w) \/ RecordGone(w)
Send(w) == \/ \E d \in Deliveries : Load(w, d) \/ Skip(w, d)
           \/ \E outcome \in {"acked", "refused"} : Post(w, outcome)
           \/ Record(w)

Next ==
  \/ \E e \in Endpoints : CreateEndpoint(e) \/ RemoveEndpoint(e)
  \/ \E e \in Endpoints, on \in BOOLEAN : UpdateEndpoint(e, on)
  \/ \E c \in Callers : EmitRead(c) \/ EmitInsert(c) \/ EmitAbort(c)
  \/ \E d \in Deliveries : SendTest(d) \/ TimePasses(d)
  \/ \E old, d \in Deliveries : Redeliver(old, d)
  \/ \E i \in Instances : Claim(i) \/ FinishTick(i) \/ Crash(i)
  \/ \E w \in Workers : Send(w) \/ RecordFails(w)
  \/ \E w \in Workers, d \in Deliveries : LoadFails(w, d)

Spec == Init /\ [][Next]_vars

(* The interval timer keeps calling tick, a POST is cut off after 10 s, and *)
(* time passes.  Nothing makes users act or the database fail.              *)
Fairness ==
  /\ \A i \in Instances : WF_vars(Claim(i)) /\ WF_vars(FinishTick(i))
  /\ \A w \in Workers : WF_vars(Send(w))
  /\ \A d \in Deliveries : WF_vars(TimePasses(d))

FairSpec == Spec /\ Fairness

-----------------------------------------------------------------------------
(* No delivery is claimed by two processes, or sent by two workers, at      *)
(* once: the claim's SKIP LOCKED and lease keep the dispatchers apart.      *)
ExclusiveClaim ==
  \A d \in Deliveries :
    /\ \A i, j \in Instances : Holds(i, d) /\ Holds(j, d) => i = j
    /\ \A v, w \in Workers : Busy(v) /\ Busy(w) /\ job[v] = d /\ job[w] = d => v = w

(* Every POST that got an outcome is counted once in attempts, is about to  *)
(* be recorded by the one worker that sent it, or was lost to a crash, a    *)
(* failed transaction or the deletion of the row: attempt() writes back     *)
(* delivery.attempts + 1 from a row it read before the POST, and no other   *)
(* dispatcher may have written in between.                                  *)
AttemptsAccountedFor ==
  \A d \in Deliveries :
    posts[d] = attempts[d] + lost[d] + Cardinality({w \in Workers : Unrecorded(w, d)})

(* Twenty consecutive failures switch an endpoint off, however the failures *)
(* of several workers, updates by admins and late outcomes interleave.      *)
CircuitBreaker ==
  \A e \in Endpoints : lifecycle[e] = "live" /\ enabled[e] => failures[e] < AutoDisableAfter

(* A delivery row outlives its endpoint in no interleaving of an emit that  *)
(* has read the endpoint and the endpoint's deletion.                       *)
NoOrphans ==
  \A d \in Deliveries :
    status[d] \in {"pending", "succeeded", "failed"} => lifecycle[Target[d]] = "live"

(* Every row is well formed, was attempted no more often than allowed, and  *)
(* has its endpoint.                                                        *)
RowsAreSound == TypeOK /\ NoOrphans

(* A pending delivery is settled in the end, across crashes and lapsed      *)
(* leases, unless its endpoint is switched off or deleted.                  *)
Settles ==
  \A d \in Deliveries :
    status[d] = "pending" ~> (status[d] # "pending" \/ ~enabled[Target[d]])

(* What the outbox promises about each delivery. *)
Contract == INSTANCE DeliveryContract WITH status <- status, attempts <- attempts, acked <- acked
ImplementsContract == Contract!Spec

-----------------------------------------------------------------------------
(* The strengthenings behind the proofs in WebhookOutboxProofs.             *)

(* What a process has in hand was inserted, and has attempts to spare.      *)
HeldRowsExist ==
  /\ \A d \in Deliveries : status[d] = "none" => attempts[d] = 0
  /\ \A d \in Deliveries : status[d] = "pending" => attempts[d] < MaxAttempts
  /\ \A i \in Instances : \A d \in queue[i] : status[d] # "none"
  /\ \A w \in Workers :
       Busy(w) => job[w] \in Deliveries /\ status[job[w]] # "none" /\ seen[w] < MaxAttempts

(* An endpoint row starts with a clean count. *)
FreshEndpoints ==
  \A e \in Endpoints : lifecycle[e] = "unused" => failures[e] = 0

(* A lease keeps a held row out of every claim, and a held row is what its  *)
(* holder read, unless it was deleted.                                      *)
LeaseProtects ==
  /\ \A i, j \in Instances : i # j => queue[i] \cap queue[j] = {}
  /\ \A w \in Workers, i \in Instances : Busy(w) => job[w] \notin queue[i]
  /\ \A v, w \in Workers : Busy(v) /\ Busy(w) /\ job[v] = job[w] => v = w
  /\ \A i \in Instances : \A d \in queue[i] :
       next[d] # "due" /\ status[d] \in {"pending", "removed"}
  /\ \A w \in Workers : Busy(w) =>
       next[job[w]] # "due" /\ status[job[w]] \in {"pending", "removed"}
  /\ \A w \in Workers : Busy(w) /\ status[job[w]] = "pending" => seen[w] = attempts[job[w]]
  /\ \A w \in Workers : pc[w] = "acked" => acked[job[w]]

=============================================================================
