---- MODULE Failover ----
(***************************************************************************)
(* Requests that fail over between interchangeable endpoints               *)
(* (createFailoverFetch, packages/core/src/adapters/failover.ts; the API   *)
(* makes one for Horizon and Blockscout in screening.module.ts).           *)
(*                                                                         *)
(* A request orders the endpoints when it starts: healthy ones as          *)
(* configured, then cooling ones, soonest to recover first.  It tries them *)
(* one after the other; a failure cools the endpoint, an answer warms it.  *)
(* Requests run at the same time and share the endpoints' coolUntil.  The  *)
(* caller may give up at any time.                                         *)
(***************************************************************************)
EXTENDS Integers, Sequences, SequencesExt

CONSTANTS Count,          \* endpoints 1..Count, in configured order
          Calls,          \* the requests
          AttemptTimeout, Cooldown,
          Patience,       \* the caller's own budget for a request
          MaxClock,       \* bound: the last instant considered
          Nothing

Endpoints == 1..Count

VARIABLES clock,
          coolUntil,      \* coolUntil[e], shared by all requests
          call,           \* call[c]: the request, from its start to its end
          failed,         \* history variable: the endpoints that failed request c
          failedAt        \* history variable: when an endpoint failed, Nothing once it answered

foVars == <<clock, coolUntil, call, failed, failedAt>>

Init ==
  /\ clock = 0
  /\ coolUntil = [e \in Endpoints |-> 0]
  /\ call = [c \in Calls |-> [pc |-> "none"]]
  /\ failed = [c \in Calls |-> {}]
  /\ failedAt = [e \in Endpoints |-> Nothing]

Cooling(e) == coolUntil[e] > clock

\* The order of a request that starts now.
Before(a, b) ==
  \/ ~Cooling(a) /\ Cooling(b)
  \/ ~Cooling(a) /\ ~Cooling(b) /\ a < b
  \/ Cooling(a) /\ Cooling(b) /\ (coolUntil[a] < coolUntil[b] \/ (coolUntil[a] = coolUntil[b] /\ a < b))

Order == SetToSortSeq(Endpoints, Before)

Start(c) ==
  /\ call[c].pc = "none"
  /\ call' = [call EXCEPT ![c] = [pc |-> "trying", order |-> Order, at |-> 1,
                                  since |-> clock, begun |-> clock]]
  /\ UNCHANGED <<clock, coolUntil, failed, failedAt>>

Trying(c) == call[c].order[call[c].at]
LastOne(c) == call[c].at = Len(call[c].order)
End(c, answer) == call' = [call EXCEPT ![c] = [pc |-> answer]]

\* An answer the caller gets: 2xx warms the endpoint, another status does not.
Answer(c) ==
  /\ call[c].pc = "trying"
  /\ \E status \in {"ok", "refused"} :
       /\ \/ /\ status = "ok"
             /\ coolUntil' = [coolUntil EXCEPT ![Trying(c)] = 0]
             /\ failedAt' = [failedAt EXCEPT ![Trying(c)] = Nothing]
          \/ status = "refused" /\ UNCHANGED <<coolUntil, failedAt>>
       /\ End(c, status)
  /\ UNCHANGED <<clock, failed>>

NoCooling(c) == UNCHANGED coolUntil   \* mutant: the failure is not remembered

Cool(c) == coolUntil' = [coolUntil EXCEPT ![Trying(c)] = clock + Cooldown]

\* The next endpoint, or, after the last, the failure itself.
GoOn(c) ==
  \/ ~LastOne(c) /\ call' = [call EXCEPT ![c].at = @ + 1, ![c].since = clock]
  \/ LastOne(c) /\ End(c, "failed")

Fails(c, blamed) ==
  /\ failed' = [failed EXCEPT ![c] = @ \cup {Trying(c)}]
  /\ failedAt' = IF blamed THEN [failedAt EXCEPT ![Trying(c)] = clock] ELSE failedAt

\* 429, 500, 502, 503, 504: the last endpoint's is returned as it is, and does
\* not cool it.
BadStatus(c) ==
  /\ call[c].pc = "trying"
  /\ IF LastOne(c) THEN UNCHANGED coolUntil ELSE Cool(c)
  /\ GoOn(c) /\ Fails(c, ~LastOne(c))
  /\ UNCHANGED clock

NoConnection(c) ==
  /\ call[c].pc = "trying"
  /\ Cool(c) /\ GoOn(c) /\ Fails(c, TRUE)
  /\ UNCHANGED clock

\* Every endpoint but the last gets a slice of the time.
SliceOver(c) == ~LastOne(c) /\ clock >= call[c].since + AttemptTimeout

AttemptTimesOut(c) ==
  /\ call[c].pc = "trying" /\ SliceOver(c)
  /\ Cool(c) /\ GoOn(c) /\ Fails(c, TRUE)
  /\ UNCHANGED clock

\* The caller's signal: the request stops, and no endpoint is to blame.
GiveUp(c) ==
  /\ call[c].pc = "trying" /\ clock >= call[c].begun + Patience
  /\ End(c, "aborted")
  /\ UNCHANGED <<clock, coolUntil, failed, failedAt>>

\* Timers are punctual.
Tick ==
  /\ clock < MaxClock
  /\ \A c \in Calls : call[c].pc = "trying" => ~SliceOver(c) /\ clock < call[c].begun + Patience
  /\ clock' = clock + 1
  /\ UNCHANGED <<coolUntil, call, failed, failedAt>>

Next ==
  \/ Tick
  \/ \E c \in Calls : Start(c) \/ Answer(c) \/ BadStatus(c) \/ NoConnection(c) \/ AttemptTimesOut(c) \/ GiveUp(c)

Spec == Init /\ [][Next]_foVars

Blamed(e) == failedAt[e] # Nothing /\ clock < failedAt[e] + Cooldown

------------------------------------------------------------------------------
(* What a request that fails over promises.                                *)

\* A request fails only when every endpoint failed it: while one of them
\* answers, cooling or not, a caller that waits gets its answer.
FailsOnlyIfAllFail == \A c \in Calls : call[c].pc = "failed" => failed[c] = Endpoints

\* A hung endpoint that has others behind it never takes the caller's whole
\* budget when the budget is longer than a slice: a request that was given up
\* had come to its next endpoint.
HungEndpointIsLeft ==
  \A c \in Calls : call[c].pc = "aborted" /\ Patience > AttemptTimeout => failed[c] # {}

\* "Traffic routes around an outage" (failover.ts:10): a request does not begin
\* with an endpoint that failed another request less than a cooldown ago, and
\* has not answered since, unless that is so of every endpoint.  (A last
\* endpoint's bad status is passed on, and not held against it.)
TrafficRoutesAround ==
  [][\A c \in Calls, e \in Endpoints :
       call[c].pc = "none" /\ call'[c].pc = "trying" /\ call'[c].order[1] = e /\ Blamed(e)
         => \A other \in Endpoints : Blamed(other)]_foVars
==============================================================================
