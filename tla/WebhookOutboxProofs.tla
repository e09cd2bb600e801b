------------------------- MODULE WebhookOutboxProofs -------------------------
(***************************************************************************)
(* Proofs about WebhookOutbox, for every number of endpoints, deliveries,  *)
(* processes and workers and every value of the limits.                    *)
(***************************************************************************)
EXTENDS WebhookOutbox, FiniteSetTheorems, TLAPS

(* What a crash adds to the outcomes that are lost is a number. *)
LEMMA CountOfWorkers ==
  ASSUME NEW W \in SUBSET Workers
  PROVE  IsFiniteSet(W) /\ Cardinality(W) \in Nat
BY ProcessAssumption, FS_Subset, FS_CardinalityType

(* The types of every variable, and what a process has in hand exists and   *)
(* has attempts to spare: attempt() never writes a count above MAX_ATTEMPTS *)
(* even when leases end early.                                              *)
TypeInv == TypeOK /\ HeldRowsExist

LEMMA InitTypeInv == Init => TypeInv
<1> SUFFICES ASSUME Init PROVE TypeInv
  OBVIOUS
<1> USE LimitsAssumption, RowsAssumption
<1>1. TypeOK
  BY DEF Init, TypeOK, Statuses
<1>2. HeldRowsExist
  BY DEF Init, HeldRowsExist, Busy
<1> QED BY <1>1, <1>2 DEF TypeInv

LEMMA StutterKeeps ==
  ASSUME UNCHANGED vars
  PROVE  /\ TypeOK => TypeOK'
         /\ HeldRowsExist => HeldRowsExist'
         /\ LeaseProtects => LeaseProtects'
<1> USE DEF vars, endpointVars, rowVars, passVars, workerVars, historyVars, boundVars
<1>1. TypeOK => TypeOK'
  BY DEF TypeOK
<1>2. HeldRowsExist => HeldRowsExist'
  BY DEF HeldRowsExist, Busy
<1>3. LeaseProtects => LeaseProtects'
  BY DEF LeaseProtects, Busy
<1> QED BY <1>1, <1>2, <1>3

LEMMA StepTypeInv == TypeInv /\ [Next]_vars => TypeInv'
<1> SUFFICES ASSUME TypeInv, [Next]_vars PROVE TypeInv'
  OBVIOUS
<1> USE LimitsAssumption, RowsAssumption, ProcessAssumption
<1> USE DEF TypeInv, TypeOK, HeldRowsExist, Statuses, Busy,
        endpointVars, rowVars, passVars, workerVars, historyVars, boundVars
<1>1. ASSUME NEW e \in Endpoints, CreateEndpoint(e) PROVE TypeInv'
  BY <1>1 DEF CreateEndpoint
<1>2. ASSUME NEW e \in Endpoints, RemoveEndpoint(e) PROVE TypeInv'
  BY <1>2 DEF RemoveEndpoint, RowsOf
<1>3. ASSUME NEW e \in Endpoints, NEW on \in BOOLEAN, UpdateEndpoint(e, on) PROVE TypeInv'
  BY <1>3 DEF UpdateEndpoint, FailuresOnUpdate
<1>4. ASSUME NEW c \in Callers, EmitRead(c) PROVE TypeInv'
  BY <1>4 DEF EmitRead, Subscribable
<1>5. ASSUME NEW c \in Callers, EmitInsert(c) PROVE TypeInv'
  BY <1>5 DEF EmitInsert, InsertRows, Insertable, Unused
<1>6. ASSUME NEW c \in Callers, EmitAbort(c) PROVE TypeInv'
  BY <1>6 DEF EmitAbort
<1>7. ASSUME NEW d \in Deliveries, SendTest(d) PROVE TypeInv'
  BY <1>7 DEF SendTest, InsertRows, Insertable, Unused
<1>8. ASSUME NEW d \in Deliveries, TimePasses(d) PROVE TypeInv'
  BY <1>8 DEF TimePasses
<1>9. ASSUME NEW old \in Deliveries, NEW d \in Deliveries, Redeliver(old, d) PROVE TypeInv'
  BY <1>9 DEF Redeliver, InsertRows, Insertable, Unused
<1>10. ASSUME NEW i \in Instances, Claim(i) PROVE TypeInv'
  BY <1>10 DEF Claim, Batches, Claimable, LeaseEnd
<1>11. ASSUME NEW i \in Instances, FinishTick(i) PROVE TypeInv'
  BY <1>11 DEF FinishTick
<1>12. ASSUME NEW i \in Instances, Crash(i) PROVE TypeInv'
  <2>1. \A d \in Deliveries :
          Cardinality({w \in Workers : Home[w] = i /\ Unrecorded(w, d)}) \in Nat
    BY CountOfWorkers
  <2>2. lost' \in [Deliveries -> Nat]
    BY <1>12, <2>1 DEF Crash
  <2> QED BY <1>12, <2>2 DEF Crash
<1>13. ASSUME NEW w \in Workers, NEW d \in Deliveries, Load(w, d) PROVE TypeInv'
  BY <1>13 DEF Load, Take
<1>14. ASSUME NEW w \in Workers, NEW d \in Deliveries, Skip(w, d) PROVE TypeInv'
  BY <1>14 DEF Skip, Take
<1>15. ASSUME NEW w \in Workers, NEW d \in Deliveries, LoadFails(w, d) PROVE TypeInv'
  BY <1>15 DEF LoadFails, Take
<1>16. ASSUME NEW w \in Workers, NEW outcome \in {"acked", "refused"}, Post(w, outcome)
       PROVE TypeInv'
  BY <1>16 DEF Post
<1>17. ASSUME NEW w \in Workers, RecordSuccess(w) PROVE TypeInv'
  BY <1>17 DEF RecordSuccess, AttemptsAfter, Release
<1>18. ASSUME NEW w \in Workers, RecordFailure(w) PROVE TypeInv'
  BY <1>18 DEF RecordFailure, AttemptsAfter, Release, Exhausted
<1>19. ASSUME NEW w \in Workers, RecordGone(w) PROVE TypeInv'
  BY <1>19 DEF RecordGone, Release, Answered
<1>20. ASSUME NEW w \in Workers, RecordFails(w) PROVE TypeInv'
  BY <1>20 DEF RecordFails, Release, Answered
<1>21. CASE UNCHANGED vars
  <2> HIDE DEF TypeOK, HeldRowsExist
  <2> QED BY <1>21, StutterKeeps
<1> HIDE DEF TypeInv, TypeOK, HeldRowsExist
<1> QED
  BY <1>1, <1>2, <1>3, <1>4, <1>5, <1>6, <1>7, <1>8, <1>9, <1>10, <1>11, <1>12, <1>13,
     <1>14, <1>15, <1>16, <1>17, <1>18, <1>19, <1>20, <1>21
     DEF Next, Send, Record

(* Types hold in every reachable state, whether or not leases hold. *)
THEOREM TypeCorrect == Spec => []TypeOK
<1>1. TypeInv => TypeOK
  BY DEF TypeInv
<1> QED BY InitTypeInv, StepTypeInv, <1>1, PTL DEF Spec

-----------------------------------------------------------------------------
(* Rows never outlive their endpoint, and the breaker opens in time.  These *)
(* need no lease either.                                                    *)
EndpointInv == TypeInv /\ NoOrphans /\ FreshEndpoints /\ CircuitBreaker

(* Switching one endpoint off under a condition switches none on. *)
LEMMA SwitchedOff ==
  ASSUME NEW on \in [Endpoints -> BOOLEAN], NEW e \in Endpoints, NEW trips \in BOOLEAN
  PROVE  \A f \in Endpoints :
           [on EXCEPT ![e] = on[e] /\ ~trips][f] => on[f] /\ (f = e => ~trips)
<1> SUFFICES ASSUME NEW f \in Endpoints
             PROVE  [on EXCEPT ![e] = on[e] /\ ~trips][f] => on[f] /\ (f = e => ~trips)
  OBVIOUS
<1>1. CASE f = e
  BY <1>1, Zenon
<1>2. CASE f # e
  BY <1>2, Zenon
<1> QED BY <1>1, <1>2

LEMMA StepEndpointInv == EndpointInv /\ TypeInv' /\ [Next]_vars => EndpointInv'
<1> SUFFICES ASSUME EndpointInv, TypeInv', [Next]_vars
             PROVE  (NoOrphans /\ FreshEndpoints /\ CircuitBreaker)'
  BY DEF EndpointInv
<1> DEFINE Goal == NoOrphans /\ FreshEndpoints /\ CircuitBreaker
<1> USE LimitsAssumption, RowsAssumption, ProcessAssumption
<1> USE DEF EndpointInv, TypeInv, TypeOK, HeldRowsExist, Statuses, Busy, Answered,
        NoOrphans, FreshEndpoints, CircuitBreaker, endpointVars, rowVars
<1>1. ASSUME UNCHANGED <<lifecycle, enabled, failures, status>> PROVE Goal'
  BY <1>1
<1>2. ASSUME NEW e \in Endpoints, CreateEndpoint(e) PROVE Goal'
  BY <1>2 DEF CreateEndpoint
<1>3. ASSUME NEW e \in Endpoints, RemoveEndpoint(e) PROVE Goal'
  BY <1>3 DEF RemoveEndpoint, RowsOf
<1>4. ASSUME NEW e \in Endpoints, NEW on \in BOOLEAN, UpdateEndpoint(e, on) PROVE Goal'
  BY <1>4 DEF UpdateEndpoint, FailuresOnUpdate
<1>5. ASSUME NEW new \in SUBSET Deliveries, InsertRows(new) PROVE Goal'
  BY <1>5 DEF InsertRows, Insertable
<1>6. ASSUME NEW w \in Workers, RecordSuccess(w) PROVE Goal'
  BY <1>6 DEF RecordSuccess, Release
<1>7. ASSUME NEW w \in Workers, RecordFailure(w) PROVE Goal'
  <2> DEFINE e == Target[job[w]]
  <2>1. /\ job[w] \in Deliveries /\ e \in Endpoints /\ lifecycle[e] = "live"
        /\ lifecycle' = lifecycle
        /\ failures' = [failures EXCEPT ![e] = @ + 1]
    BY <1>7 DEF RecordFailure, Release
  <2>2. \A f \in Endpoints : enabled'[f] => enabled[f] /\ (f = e => ~TripsBreaker(e))
    <3>1. enabled' = [enabled EXCEPT ![e] = enabled[e] /\ ~TripsBreaker(e)]
      BY <1>7, Zenon DEF RecordFailure
    <3>2. enabled \in [Endpoints -> BOOLEAN] /\ TripsBreaker(e) \in BOOLEAN
      BY DEF TripsBreaker
    <3> QED BY ONLY <2>1, <3>1, <3>2, SwitchedOff
  <2>3. CircuitBreaker'
    BY <2>1, <2>2 DEF TripsBreaker
  <2>4. NoOrphans' /\ FreshEndpoints'
    BY <1>7, <2>1 DEF RecordFailure
  <2> QED BY <2>3, <2>4
<1>8. ASSUME NEW c \in Callers, EmitRead(c) \/ EmitInsert(c) \/ EmitAbort(c) PROVE Goal'
  <2>1. CASE EmitRead(c) \/ EmitAbort(c)
    BY <2>1, <1>1 DEF EmitRead, EmitAbort
  <2>2. CASE EmitInsert(c)
    <3>1. PICK new \in SUBSET Deliveries : InsertRows(new)
      BY <2>2, Zenon DEF EmitInsert
    <3> QED BY <3>1, <1>5
  <2> QED BY <1>8, <2>1, <2>2
<1>9. ASSUME NEW d \in Deliveries, SendTest(d) \/ TimePasses(d) PROVE Goal'
  BY <1>9, <1>5, <1>1 DEF SendTest, TimePasses
<1>10. ASSUME NEW old \in Deliveries, NEW d \in Deliveries, Redeliver(old, d) PROVE Goal'
  BY <1>10, <1>5 DEF Redeliver
<1>11. ASSUME NEW i \in Instances, Claim(i) \/ FinishTick(i) \/ Crash(i) PROVE Goal'
  BY <1>11, <1>1 DEF Claim, FinishTick, Crash
<1>12. ASSUME NEW w \in Workers, NEW d \in Deliveries,
              Load(w, d) \/ Skip(w, d) \/ LoadFails(w, d)
       PROVE Goal'
  BY <1>12, <1>1 DEF Load, Skip, LoadFails, Take
<1>13. ASSUME NEW w \in Workers, NEW outcome \in {"acked", "refused"}, Post(w, outcome)
       PROVE Goal'
  BY <1>13, <1>1 DEF Post
<1>14. ASSUME NEW w \in Workers, RecordGone(w) \/ RecordFails(w) PROVE Goal'
  BY <1>14, <1>1 DEF RecordGone, RecordFails, Release
<1>15. CASE UNCHANGED vars
  BY <1>15, <1>1 DEF vars
<1> QED
  BY <1>2, <1>3, <1>4, <1>6, <1>7, <1>8, <1>9, <1>10, <1>11, <1>12, <1>13, <1>14, <1>15
     DEF Next, Send, Record

LEMMA EndpointInvariant == Spec => []EndpointInv
<1>1. Init => EndpointInv
  BY InitTypeInv, RowsAssumption
     DEF Init, EndpointInv, NoOrphans, FreshEndpoints, CircuitBreaker
<1>2. EndpointInv => TypeInv
  BY DEF EndpointInv
<1> QED BY <1>1, <1>2, StepTypeInv, StepEndpointInv, PTL DEF Spec

(* No delivery outlives its endpoint, whatever interleaving of emits and    *)
(* deletions led here.                                                      *)
THEOREM NoOrphanDeliveries == Spec => []NoOrphans
<1>1. EndpointInv => NoOrphans
  BY DEF EndpointInv
<1> QED BY <1>1, EndpointInvariant, PTL

(* Every row has its types, and every delivery its event and endpoint.      *)
THEOREM RowsStaySound == Spec => []RowsAreSound
<1>1. TypeOK /\ NoOrphans => RowsAreSound
  BY DEF RowsAreSound
<1> QED
  BY <1>1, TypeCorrect, NoOrphanDeliveries, PTL

(* An endpoint that is on has fewer than AutoDisableAfter failures in a row.*)
THEOREM CircuitBreakerWorks == Spec => []CircuitBreaker
<1>1. EndpointInv => CircuitBreaker
  BY DEF EndpointInv
<1> QED BY <1>1, EndpointInvariant, PTL
-----------------------------------------------------------------------------
(* From here on a lease outlives the pass that took it.                     *)
LeaseInv == TypeInv /\ LeaseProtects

LEMMA StepLeaseInv ==
  ASSUME LeaseHolds
  PROVE  LeaseInv /\ TypeInv' /\ [Next]_vars => LeaseInv'
<1> SUFFICES ASSUME LeaseInv, TypeInv', [Next]_vars PROVE LeaseProtects'
  BY DEF LeaseInv
<1> USE LimitsAssumption, RowsAssumption, ProcessAssumption
<1> USE DEF LeaseInv, TypeInv, TypeOK, HeldRowsExist, LeaseProtects, Statuses, Busy,
        rowVars, passVars, workerVars
<1>1. ASSUME UNCHANGED <<rowVars, queue, workerVars, acked>> PROVE LeaseProtects'
  BY <1>1
<1>0. ASSUME UNCHANGED <<rowVars, acked>>,
             \A i \in Instances : queue'[i] \subseteq queue[i],
             \A w \in Workers : Busy(w)' => /\ pc'[w] = pc[w]
                                             /\ job'[w] = job[w] /\ seen'[w] = seen[w]
      PROVE  LeaseProtects'
  BY <1>0
<1>2. ASSUME NEW e \in Endpoints, RemoveEndpoint(e) PROVE LeaseProtects'
  BY <1>2 DEF RemoveEndpoint, RowsOf, historyVars
<1>3. ASSUME NEW new \in SUBSET Deliveries, InsertRows(new) PROVE LeaseProtects'
  BY <1>3 DEF InsertRows, Insertable, Unused, historyVars
<1>4. ASSUME NEW d \in Deliveries, TimePasses(d) PROVE LeaseProtects'
  BY <1>4 DEF TimePasses, Holds, historyVars
<1>5. ASSUME NEW i \in Instances, Claim(i) PROVE LeaseProtects'
  <2>1. PICK S \in Batches : /\ queue' = [queue EXCEPT ![i] = S]
                             /\ next' = [d \in Deliveries |-> IF d \in S THEN "later" ELSE next[d]]
    BY <1>5 DEF Claim, LeaseEnd
  <2>2. \A d \in S : d \in Deliveries /\ status[d] = "pending" /\ next[d] = "due"
    BY DEF Batches, Claimable
  <2>3. UNCHANGED <<status, attempts, workerVars, acked>>
    BY <1>5 DEF Claim, historyVars
  <2> QED BY <2>1, <2>2, <2>3
<1>6. ASSUME NEW i \in Instances, Crash(i) PROVE LeaseProtects'
  BY <1>6, <1>0 DEF Crash
<1>7. ASSUME NEW w \in Workers, NEW d \in Deliveries, Load(w, d) PROVE LeaseProtects'
  BY <1>7 DEF Load, Take, historyVars
<1>8. ASSUME NEW w \in Workers, NEW d \in Deliveries, Skip(w, d) \/ LoadFails(w, d)
      PROVE  LeaseProtects'
  <2>1. UNCHANGED <<rowVars, acked, workerVars>>
    BY <1>8 DEF Skip, LoadFails, Take, historyVars
  <2>2. queue' = [queue EXCEPT ![Home[w]] = queue[Home[w]] \ {d}]
    BY <1>8 DEF Skip, LoadFails, Take
  <2> QED BY <2>1, <2>2, <1>0
<1>9. ASSUME NEW w \in Workers, NEW outcome \in {"acked", "refused"}, Post(w, outcome)
      PROVE  LeaseProtects'
  <2>1. /\ pc[w] = "posting"
        /\ pc' = [pc EXCEPT ![w] = outcome]
        /\ UNCHANGED <<rowVars, queue, job, seen>>
    BY <1>9 DEF Post
  <2>2. acked' = [acked EXCEPT ![job[w]] = acked[job[w]] \/ outcome = "acked"]
    BY <1>9, Zenon DEF Post
  <2>3. \A d \in Deliveries : acked[d] => acked'[d]
    BY <2>2
  <2>4. outcome = "acked" => acked'[job[w]]
    BY <2>1, <2>2
  <2>5. \A v \in Workers : pc'[v] = "acked" => acked'[job'[v]]
    BY <2>1, <2>3, <2>4
  <2> QED BY <2>1, <2>5
<1>10. ASSUME NEW w \in Workers, RecordSuccess(w) PROVE LeaseProtects'
  BY <1>10 DEF RecordSuccess, Release
<1>11. ASSUME NEW w \in Workers, RecordFailure(w) PROVE LeaseProtects'
  BY <1>11 DEF RecordFailure, Release
<1>12. ASSUME NEW w \in Workers, RecordGone(w) \/ RecordFails(w) PROVE LeaseProtects'
  <2>1. /\ UNCHANGED <<rowVars, acked, queue>>
        /\ pc' = [pc EXCEPT ![w] = "idle"]
        /\ job' = [job EXCEPT ![w] = NoDelivery]
        /\ seen' = [seen EXCEPT ![w] = 0]
    BY <1>12 DEF RecordGone, RecordFails, Release
  <2> QED BY <2>1, <1>0
<1>13. ASSUME NEW c \in Callers, EmitRead(c) \/ EmitInsert(c) \/ EmitAbort(c)
       PROVE LeaseProtects'
  <2>1. CASE EmitRead(c) \/ EmitAbort(c)
    BY <2>1, <1>1 DEF EmitRead, EmitAbort, historyVars
  <2>2. CASE EmitInsert(c)
    <3>1. PICK new \in SUBSET Deliveries : InsertRows(new)
      BY <2>2, Zenon DEF EmitInsert
    <3> QED BY <3>1, <1>3
  <2> QED BY <1>13, <2>1, <2>2
<1>14. ASSUME NEW old \in Deliveries, NEW d \in Deliveries, Redeliver(old, d) \/ SendTest(d)
       PROVE LeaseProtects'
  BY <1>14, <1>3 DEF Redeliver, SendTest
<1>15. ASSUME NEW e \in Endpoints, NEW on \in BOOLEAN,
              CreateEndpoint(e) \/ UpdateEndpoint(e, on)
       PROVE LeaseProtects'
  BY <1>15, <1>1 DEF CreateEndpoint, UpdateEndpoint, historyVars
<1>16. ASSUME NEW i \in Instances, FinishTick(i) PROVE LeaseProtects'
  BY <1>16, <1>1 DEF FinishTick, historyVars
<1>17. CASE UNCHANGED vars
  <2> HIDE DEF TypeOK, HeldRowsExist, LeaseProtects
  <2> QED BY <1>17, StutterKeeps
<1> HIDE DEF LeaseInv, TypeInv, TypeOK, HeldRowsExist, LeaseProtects
<1> QED
  BY <1>2, <1>4, <1>5, <1>6, <1>7, <1>8, <1>9, <1>10, <1>11, <1>12, <1>13, <1>14, <1>15,
     <1>16, <1>17
     DEF Next, Send, Record

LEMMA LeaseInvariant ==
  ASSUME LeaseHolds
  PROVE  Spec => []LeaseInv
<1>1. Init => LeaseInv
  BY InitTypeInv DEF Init, LeaseInv, LeaseProtects, Busy
<1>2. LeaseInv => TypeInv
  BY DEF LeaseInv
<1>3. LeaseInv /\ TypeInv' /\ [Next]_vars => LeaseInv'
  BY StepLeaseInv
<1> QED BY <1>1, <1>2, <1>3, StepTypeInv, PTL DEF Spec

(* No delivery is in the hands of two dispatchers, or of two workers.       *)
THEOREM OneHolderOnly ==
  ASSUME LeaseHolds
  PROVE  Spec => []ExclusiveClaim
<1>1. LeaseInv => ExclusiveClaim
  BY ProcessAssumption DEF LeaseInv, LeaseProtects, ExclusiveClaim, Holds
<1> QED BY <1>1, LeaseInvariant, PTL
-----------------------------------------------------------------------------
(* Every outcome is in exactly one place: counted, lost, or in the hands of *)
(* a worker.                                                                *)
InHand(d) == {w \in Workers : Unrecorded(w, d)}
CountInv == LeaseInv /\ AttemptsAccountedFor

LEMMA AddOne ==
  ASSUME NEW W \in SUBSET Workers, NEW w \in Workers \ W
  PROVE  Cardinality(W \cup {w}) = Cardinality(W) + 1
BY CountOfWorkers, FS_AddElement

LEMMA TakeOne ==
  ASSUME NEW W \in SUBSET Workers, NEW w \in W
  PROVE  Cardinality(W) = Cardinality(W \ {w}) + 1
<1>1. w \in Workers \ (W \ {w}) /\ (W \ {w}) \cup {w} = W /\ W \ {w} \in SUBSET Workers
  OBVIOUS
<1> QED BY <1>1, AddOne

LEMMA SplitWorkers ==
  ASSUME NEW W \in SUBSET Workers, NEW V \in SUBSET W
  PROVE  Cardinality(W) = Cardinality(V) + Cardinality(W \ V)
<1>1. /\ W = V \cup (W \ V) /\ V \cap (W \ V) = {}
      /\ IsFiniteSet(V) /\ IsFiniteSet(W \ V)
      /\ Cardinality(V) \in Nat /\ Cardinality(W \ V) \in Nat
  BY CountOfWorkers
<1>2. Cardinality(V \cup (W \ V)) =
        Cardinality(V) + Cardinality(W \ V) - Cardinality(V \cap (W \ V))
  BY <1>1, FS_Union, Zenon
<1>3. Cardinality(W) = Cardinality(V) + Cardinality(W \ V) - Cardinality({})
  BY <1>1, <1>2, Zenon
<1> QED BY <1>1, <1>3, FS_EmptySet

LEMMA SameCounts ==
  ASSUME AttemptsAccountedFor, UNCHANGED <<posts, attempts, lost>>,
         \A d \in Deliveries : InHand(d)' = InHand(d)
  PROVE  AttemptsAccountedFor'
<1>1. ASSUME NEW d \in Deliveries
      PROVE  posts'[d] = attempts'[d] + lost'[d] + Cardinality(InHand(d)')
  BY Zenon DEF AttemptsAccountedFor, InHand
<1> QED BY <1>1, Zenon DEF AttemptsAccountedFor, InHand

(* A worker writes its outcome down, or loses it: one out, one counted.     *)
LEMMA OneOutcomeLess ==
  ASSUME CountInv, NEW w \in Workers, Answered(w),
         pc' = [pc EXCEPT ![w] = "idle"], job' = [job EXCEPT ![w] = NoDelivery],
         posts' = posts,
         \/ /\ attempts' = [attempts EXCEPT ![job[w]] = @ + 1]
            /\ lost' = lost
         \/ /\ lost' = [lost EXCEPT ![job[w]] = @ + 1]
            /\ attempts' = attempts
  PROVE  AttemptsAccountedFor'
<1> USE DEF CountInv, LeaseInv, TypeInv, TypeOK
<1>1. job[w] \in Deliveries
  BY DEF HeldRowsExist, Busy, Answered
<1>2. ASSUME NEW d \in Deliveries
      PROVE  posts'[d] = attempts'[d] + lost'[d] + Cardinality(InHand(d)')
  <2>1. posts[d] = attempts[d] + lost[d] + Cardinality(InHand(d))
    BY Zenon DEF AttemptsAccountedFor, InHand
  <2>2. Cardinality(InHand(d)) \in Nat
    BY CountOfWorkers DEF InHand
  <2>3. CASE d = job[w]
    <3>1. w \in InHand(d) /\ InHand(d)' = InHand(d) \ {w}
      BY <2>3 DEF InHand, Unrecorded, Answered
    <3>2. Cardinality(InHand(d)) = Cardinality(InHand(d)') + 1
      BY <3>1, TakeOne DEF InHand
    <3>3. Cardinality(InHand(d)') \in Nat
      BY <3>1, CountOfWorkers DEF InHand
    <3>4. attempts'[d] + lost'[d] = attempts[d] + lost[d] + 1
      BY <1>1, <2>3
    <3> QED BY <2>1, <3>2, <3>3, <3>4
  <2>4. CASE d # job[w]
    <3>1. InHand(d)' = InHand(d)
      BY <2>4, RowsAssumption DEF InHand, Unrecorded, Answered
    <3>2. attempts'[d] = attempts[d] /\ lost'[d] = lost[d]
      BY <1>1, <2>4
    <3> QED BY <2>1, <3>1, <3>2
  <2> QED BY <2>3, <2>4
<1> QED BY <1>2, Zenon DEF AttemptsAccountedFor, InHand

LEMMA StepCountInv == CountInv /\ LeaseInv' /\ [Next]_vars => CountInv'
<1> SUFFICES ASSUME CountInv, LeaseInv', [Next]_vars PROVE AttemptsAccountedFor'
  BY DEF CountInv
<1> USE DEF CountInv, LeaseInv, TypeInv, TypeOK
<1>1. ASSUME UNCHANGED <<posts, attempts, lost>>,
             \A d \in Deliveries : InHand(d)' = InHand(d)
      PROVE  AttemptsAccountedFor'
  BY <1>1, SameCounts
<1>2. ASSUME UNCHANGED <<posts, attempts, lost, pc, job>> PROVE AttemptsAccountedFor'
  <2>1. \A d \in Deliveries : InHand(d)' = InHand(d)
    BY <1>2 DEF InHand, Unrecorded, Answered
  <2> QED BY <1>2, <2>1, SameCounts
<1>3. ASSUME NEW w \in Workers, NEW d \in Deliveries, Load(w, d) PROVE AttemptsAccountedFor'
  <2>1. UNCHANGED <<posts, attempts, lost>>
    BY <1>3 DEF Load, Take, rowVars, historyVars
  <2>2. /\ pc[w] = "idle"
        /\ pc' = [pc EXCEPT ![w] = "posting"]
        /\ job' = [job EXCEPT ![w] = d]
    BY <1>3 DEF Load, Take, Busy
  <2>3. \A f \in Deliveries : InHand(f)' = InHand(f)
    BY <2>2 DEF InHand, Unrecorded, Answered
  <2> QED BY <2>1, <2>3, <1>1
<1>4. ASSUME NEW w \in Workers, NEW outcome \in {"acked", "refused"}, Post(w, outcome)
      PROVE  AttemptsAccountedFor'
  <2>1. /\ pc[w] = "posting"
        /\ pc' = [pc EXCEPT ![w] = outcome]
        /\ posts' = [posts EXCEPT ![job[w]] = @ + 1]
        /\ UNCHANGED <<attempts, lost, job>>
    BY <1>4 DEF Post, rowVars
  <2>2. job[w] \in Deliveries
    BY <2>1 DEF HeldRowsExist, Busy
  <2>3. ASSUME NEW d \in Deliveries
        PROVE  posts'[d] = attempts'[d] + lost'[d] + Cardinality(InHand(d)')
    <3>1. posts[d] = attempts[d] + lost[d] + Cardinality(InHand(d))
      BY Zenon DEF AttemptsAccountedFor, InHand
    <3>2. Cardinality(InHand(d)) \in Nat
      BY CountOfWorkers DEF InHand
    <3>3. CASE d = job[w]
      <4>1. w \notin InHand(d) /\ InHand(d)' = InHand(d) \cup {w}
        BY <2>1, <3>3 DEF InHand, Unrecorded, Answered
      <4>2. Cardinality(InHand(d)') = Cardinality(InHand(d)) + 1
        BY <4>1, AddOne DEF InHand
      <4> QED BY <2>1, <3>1, <3>2, <3>3, <4>2
    <3>4. CASE d # job[w]
      <4>1. InHand(d)' = InHand(d)
        BY <2>1, <3>4 DEF InHand, Unrecorded, Answered
      <4> QED BY <2>1, <2>2, <3>1, <3>4, <4>1
    <3> QED BY <3>3, <3>4
  <2> QED BY <2>3, Zenon DEF AttemptsAccountedFor, InHand
<1>5. ASSUME NEW w \in Workers, RecordSuccess(w) \/ RecordFailure(w)
      PROVE  AttemptsAccountedFor'
  <2>1. /\ Answered(w) /\ status[job[w]] # "removed"
        /\ pc' = [pc EXCEPT ![w] = "idle"] /\ job' = [job EXCEPT ![w] = NoDelivery]
        /\ posts' = posts /\ lost' = lost
        /\ attempts' = [attempts EXCEPT ![job[w]] = seen[w] + 1]
    BY <1>5 DEF RecordSuccess, RecordFailure, Release, Answered, AttemptsAfter
  <2>2. seen[w] = attempts[job[w]]
    BY <2>1 DEF LeaseProtects, Busy, Answered
  <2> QED BY <2>1, <2>2, OneOutcomeLess
<1>6. ASSUME NEW w \in Workers, RecordGone(w) \/ RecordFails(w)
      PROVE  AttemptsAccountedFor'
  <2>1. /\ Answered(w)
        /\ pc' = [pc EXCEPT ![w] = "idle"] /\ job' = [job EXCEPT ![w] = NoDelivery]
        /\ posts' = posts /\ attempts' = attempts
        /\ lost' = [lost EXCEPT ![job[w]] = @ + 1]
    BY <1>6 DEF RecordGone, RecordFails, Release, rowVars
  <2> QED BY <2>1, OneOutcomeLess
<1>7. ASSUME NEW i \in Instances, Crash(i) PROVE AttemptsAccountedFor'
  <2> DEFINE Gone(d) == {w \in Workers : Home[w] = i /\ Unrecorded(w, d)}
  <2>1. ASSUME NEW d \in Deliveries
        PROVE  posts'[d] = attempts'[d] + lost'[d] + Cardinality(InHand(d)')
    <3>1. posts[d] = attempts[d] + lost[d] + Cardinality(InHand(d))
      BY Zenon DEF AttemptsAccountedFor, InHand
    <3>2. InHand(d)' = InHand(d) \ Gone(d)
      BY <1>7, RowsAssumption DEF Crash, InHand, Unrecorded, Answered
    <3>3. Cardinality(InHand(d)) = Cardinality(Gone(d)) + Cardinality(InHand(d) \ Gone(d))
      <4>1. InHand(d) \in SUBSET Workers /\ Gone(d) \in SUBSET InHand(d)
        BY DEF InHand
      <4> QED BY <4>1, SplitWorkers
    <3>4. /\ lost'[d] = lost[d] + Cardinality(Gone(d))
          /\ UNCHANGED <<posts, attempts>>
      BY <1>7, Zenon DEF Crash, rowVars
    <3>5. /\ Cardinality(Gone(d)) \in Nat
          /\ Cardinality(InHand(d) \ Gone(d)) \in Nat
      BY CountOfWorkers DEF InHand
    <3> HIDE DEF Gone, InHand
    <3> QED BY <3>1, <3>2, <3>3, <3>4, <3>5
  <2> QED BY <2>1, Zenon DEF AttemptsAccountedFor, InHand
<1>8. ASSUME NEW e \in Endpoints, NEW on \in BOOLEAN,
             CreateEndpoint(e) \/ RemoveEndpoint(e) \/ UpdateEndpoint(e, on)
      PROVE  AttemptsAccountedFor'
  BY <1>8, <1>2 DEF CreateEndpoint, RemoveEndpoint, UpdateEndpoint, rowVars, workerVars, historyVars
<1>9. ASSUME NEW new \in SUBSET Deliveries, InsertRows(new) PROVE AttemptsAccountedFor'
  BY <1>9, <1>2 DEF InsertRows, workerVars, historyVars
<1>10. ASSUME NEW c \in Callers, EmitRead(c) \/ EmitInsert(c) \/ EmitAbort(c)
       PROVE  AttemptsAccountedFor'
  <2>1. CASE EmitRead(c) \/ EmitAbort(c)
    BY <2>1, <1>2 DEF EmitRead, EmitAbort, rowVars, workerVars, historyVars
  <2>2. CASE EmitInsert(c)
    <3>1. PICK new \in SUBSET Deliveries : InsertRows(new)
      BY <2>2, Zenon DEF EmitInsert
    <3> QED BY <3>1, <1>9
  <2> QED BY <1>10, <2>1, <2>2
<1>11. ASSUME NEW old \in Deliveries, NEW d \in Deliveries, Redeliver(old, d) \/ SendTest(d)
       PROVE  AttemptsAccountedFor'
  BY <1>11, <1>9 DEF Redeliver, SendTest
<1>12. ASSUME NEW d \in Deliveries, TimePasses(d) PROVE AttemptsAccountedFor'
  BY <1>12, <1>2 DEF TimePasses, workerVars, historyVars
<1>13. ASSUME NEW i \in Instances, Claim(i) \/ FinishTick(i) PROVE AttemptsAccountedFor'
  BY <1>13, <1>2 DEF Claim, FinishTick, rowVars, workerVars, historyVars
<1>14. ASSUME NEW w \in Workers, NEW d \in Deliveries, Skip(w, d) \/ LoadFails(w, d)
       PROVE  AttemptsAccountedFor'
  BY <1>14, <1>2 DEF Skip, LoadFails, Take, rowVars, workerVars, historyVars
<1>15. CASE UNCHANGED vars
  BY <1>15, <1>2 DEF vars, rowVars, workerVars, historyVars
<1> QED
  BY <1>3, <1>4, <1>5, <1>6, <1>7, <1>8, <1>10, <1>11, <1>12, <1>13, <1>14, <1>15
     DEF Next, Send, Record

(* Every outcome of a POST is counted once, in hand, or lost for a reason.  *)
THEOREM AttemptsCounted ==
  ASSUME LeaseHolds
  PROVE  Spec => []AttemptsAccountedFor
<1>1. Init => CountInv
  <2> SUFFICES ASSUME Init PROVE CountInv
    OBVIOUS
  <2>1. LeaseInv
    BY InitTypeInv DEF Init, LeaseInv, LeaseProtects, Busy
  <2>2. \A d \in Deliveries : InHand(d) = {}
    BY DEF Init, InHand, Unrecorded, Answered
  <2>3. \A d \in Deliveries : posts[d] = attempts[d] + lost[d] + Cardinality(InHand(d))
    <3> SUFFICES ASSUME NEW d \in Deliveries
                 PROVE  posts[d] = attempts[d] + lost[d] + Cardinality(InHand(d))
      OBVIOUS
    <3>1. Cardinality(InHand(d)) = 0
      BY <2>2, FS_EmptySet, Zenon
    <3>2. posts[d] = 0 /\ attempts[d] = 0 /\ lost[d] = 0
      BY DEF Init
    <3> HIDE DEF InHand
    <3> QED BY <3>1, <3>2
  <2> QED BY <2>1, <2>3, Zenon DEF CountInv, AttemptsAccountedFor, InHand
<1>2. CountInv => AttemptsAccountedFor
  BY DEF CountInv
<1> QED BY <1>1, <1>2, LeaseInvariant, StepCountInv, PTL DEF Spec
-----------------------------------------------------------------------------
(* The outbox implements what it promises about each delivery.              *)
THEOREM ContractKept ==
  ASSUME LeaseHolds
  PROVE  Spec => ImplementsContract
<1> USE LimitsAssumption, RowsAssumption
<1>1. Init => Contract!Init
  BY DEF Init, Contract!Init
<1>2. ASSUME LeaseInv, [Next]_vars
      PROVE  [Contract!Next]_Contract!vars
  <2> USE <1>2 DEF LeaseInv, TypeInv, TypeOK, Contract!vars, rowVars, historyVars
  <2>1. ASSUME UNCHANGED <<status, attempts, acked>> PROVE UNCHANGED Contract!vars
    BY <2>1
  <2>2. ASSUME NEW new \in SUBSET Deliveries, InsertRows(new) PROVE Contract!Next
    <3>1. Contract!Queue(new)
      BY <2>2 DEF InsertRows, Insertable, Unused, Contract!Queue
    <3> QED BY <3>1, Zenon DEF Contract!Next
  <2>3. ASSUME NEW e \in Endpoints, RemoveEndpoint(e) PROVE Contract!Next
    <3>1. Contract!Remove(RowsOf(e))
      BY <2>3 DEF RemoveEndpoint, RowsOf, Contract!Remove
    <3>2. RowsOf(e) \in SUBSET Deliveries
      BY DEF RowsOf
    <3> QED BY <3>1, <3>2, Zenon DEF Contract!Next
  <2>4. ASSUME NEW w \in Workers, NEW outcome \in {"acked", "refused"}, Post(w, outcome)
        PROVE  Contract!Next \/ UNCHANGED Contract!vars
    <3>1. job[w] \in Deliveries /\ status[job[w]] # "none"
      BY <2>4 DEF Post, HeldRowsExist, Busy
    <3>2. UNCHANGED <<status, attempts>>
      BY <2>4 DEF Post
    <3>3. acked' = [acked EXCEPT ![job[w]] = acked[job[w]] \/ outcome = "acked"]
      BY <2>4, Zenon DEF Post
    <3>4. CASE outcome = "acked"
      <4>1. acked' = [acked EXCEPT ![job[w]] = TRUE]
        BY <3>3, <3>4
      <4> QED BY <3>1, <3>2, <4>1, Zenon DEF Contract!Acknowledge, Contract!Next
    <3>5. CASE outcome = "refused"
      <4>1. acked' = acked
        BY <3>1, <3>3, <3>5
      <4> QED BY <3>2, <4>1
    <3> QED BY <3>4, <3>5
  <2>5. ASSUME NEW w \in Workers, RecordSuccess(w) PROVE Contract!Next
    <3>1. Contract!RecordSuccess(job[w])
      BY <2>5 DEF RecordSuccess, Release, AttemptsAfter, LeaseProtects, Busy,
                  Contract!RecordSuccess
    <3>2. job[w] \in Deliveries
      BY <2>5 DEF RecordSuccess, HeldRowsExist, Busy
    <3> QED BY <3>1, <3>2, Zenon DEF Contract!Next
  <2>6. ASSUME NEW w \in Workers, RecordFailure(w) PROVE Contract!Next
    <3>1. /\ job[w] \in Deliveries /\ status[job[w]] = "pending"
          /\ seen[w] = attempts[job[w]] /\ attempts[job[w]] < MaxAttempts
      BY <2>6 DEF RecordFailure, HeldRowsExist, LeaseProtects, Busy
    <3>2. Contract!RecordFailure(job[w])
      <4>1. AttemptsAfter(w) = attempts[job[w]] + 1
        BY <3>1 DEF AttemptsAfter
      <4>2. Exhausted(attempts[job[w]] + 1) <=> attempts[job[w]] + 1 = MaxAttempts
        <5>1. attempts[job[w]] \in 0..MaxAttempts /\ MaxAttempts \in Nat
          BY <3>1
        <5> QED BY <3>1, <5>1 DEF Exhausted
      <4>3. /\ attempts' = [attempts EXCEPT ![job[w]] = attempts[job[w]] + 1]
            /\ status' = [status EXCEPT
                 ![job[w]] = IF Exhausted(attempts[job[w]] + 1) THEN "failed" ELSE "pending"]
            /\ UNCHANGED acked
        BY <2>6, <4>1 DEF RecordFailure, Release
      <4>4. Contract!RecordFailure(job[w])!3
        <5>1. CASE attempts[job[w]] + 1 = MaxAttempts
          BY <4>2, <4>3, <5>1
        <5>2. CASE attempts[job[w]] + 1 # MaxAttempts
          BY <4>2, <4>3, <5>2
        <5> QED BY <5>1, <5>2
      <4> QED BY <3>1, <4>3, <4>4, Zenon DEF Contract!RecordFailure
    <3> QED BY <3>1, <3>2, Zenon DEF Contract!Next
  <2>7. ASSUME NEW c \in Callers, EmitRead(c) \/ EmitInsert(c) \/ EmitAbort(c)
        PROVE  Contract!Next \/ UNCHANGED Contract!vars
    <3>1. CASE EmitRead(c) \/ EmitAbort(c)
      BY <3>1 DEF EmitRead, EmitAbort
    <3>2. CASE EmitInsert(c)
      <4>1. PICK new \in SUBSET Deliveries : InsertRows(new)
        BY <3>2, Zenon DEF EmitInsert
      <4> QED BY <4>1, <2>2
    <3> QED BY <2>7, <3>1, <3>2
  <2>8. ASSUME NEW old \in Deliveries, NEW d \in Deliveries, Redeliver(old, d) \/ SendTest(d)
        PROVE  Contract!Next
    BY <2>8, <2>2 DEF Redeliver, SendTest
  <2>9. ASSUME NEW e \in Endpoints, NEW on \in BOOLEAN,
               CreateEndpoint(e) \/ UpdateEndpoint(e, on)
        PROVE  UNCHANGED Contract!vars
    BY <2>9 DEF CreateEndpoint, UpdateEndpoint
  <2>10. ASSUME NEW d \in Deliveries, TimePasses(d) PROVE UNCHANGED Contract!vars
    BY <2>10 DEF TimePasses
  <2>11. ASSUME NEW i \in Instances, Claim(i) \/ FinishTick(i) \/ Crash(i)
         PROVE  UNCHANGED Contract!vars
    BY <2>11 DEF Claim, FinishTick, Crash
  <2>12. ASSUME NEW w \in Workers, NEW d \in Deliveries,
                Load(w, d) \/ Skip(w, d) \/ LoadFails(w, d)
         PROVE  UNCHANGED Contract!vars
    BY <2>12 DEF Load, Skip, LoadFails, Take
  <2>13. ASSUME NEW w \in Workers, RecordGone(w) \/ RecordFails(w)
         PROVE  UNCHANGED Contract!vars
    BY <2>13 DEF RecordGone, RecordFails, Release
  <2>14. CASE UNCHANGED vars
    BY <2>14 DEF vars
  <2> HIDE DEF Contract!vars
  <2> QED
    BY <2>3, <2>4, <2>5, <2>6, <2>7, <2>8, <2>9, <2>10, <2>11, <2>12, <2>13, <2>14
       DEF Next, Send, Record
<1> QED BY <1>1, <1>2, LeaseInvariant, PTL DEF Spec, ImplementsContract, Contract!Spec

=============================================================================
