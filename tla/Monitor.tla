-------------------------------- MODULE Monitor --------------------------------
(***************************************************************************)
(* MonitorService of apps/api/src/wallets: an interval timer, a batch of    *)
(* the wallets checked longest ago and two workers that rescreen them.      *)
(*                                                                         *)
(* Simplifications.                                                        *)
(*   - last_checked_at is kept as an age, counted up to MaxAge, and the     *)
(*     order by it as a sequence.                                           *)
(*   - One process; each further one has a monitor of its own.              *)
(*   - What a rescreen does to its wallet is Watchlist; here it takes at    *)
(*     most Longest units of time, and fails for the wallets of Failing     *)
(*     (their chain is down).                                               *)
(***************************************************************************)
EXTENDS Integers, FiniteSets, SequencesExt

CONSTANTS
  Wallets,
  Failing,    (* the wallets that cannot be read for as long as we look     *)
  Interval,   (* monitorIntervalMs, of the timer and of staleness           *)
  Batch,      (* BATCH_SIZE                                                 *)
  Workers,    (* one element for each of CONCURRENCY                        *)
  Longest,    (* how long one rescreen may take                             *)
  MaxAge,     (* bound: ages are not counted beyond it                      *)
  Nothing

VARIABLES
  timer,      (* until the next tick                                        *)
  running,
  queue,
  work,       (* work[k]: the wallet a worker is rescreening, and for how long *)
  age,        (* age[w]: since last_checked_at                              *)
  order       (* the wallets, longest unchecked first                       *)

vars == <<timer, running, queue, work, age, order>>

Busy(k) == work[k] # Nothing

(* Wallets that were checked just now, in any order.                        *)
Init ==
  /\ timer = Interval
  /\ running = FALSE
  /\ queue = <<>>
  /\ work = [k \in Workers |-> Nothing]
  /\ age = [w \in Wallets |-> 0]
  /\ order \in SetToSeqs(Wallets)

-----------------------------------------------------------------------------
(* tick                                                                     *)
Stale(w) == age[w] > Interval
Due == LET due == SelectSeq(order, Stale) IN SubSeq(due, 1, IF Len(due) < Batch THEN Len(due) ELSE Batch)

NeverSkipped == FALSE   (* mutant: a pass starts while another is under way *)
Skipped == running

Tick ==
  /\ timer = 0
  /\ timer' = Interval
  /\ IF Skipped
       THEN UNCHANGED <<running, queue>>
       ELSE running' = TRUE /\ queue' = Due
  /\ UNCHANGED <<work, age, order>>

(* The query fails, and so the pass; the next tick begins another.          *)
QueryFails ==
  /\ timer = 0 /\ ~Skipped
  /\ timer' = Interval
  /\ UNCHANGED <<running, queue, work, age, order>>

(* drain: a worker takes the next wallet; a failed one keeps its age.       *)
Take(k) ==
  /\ running /\ ~Busy(k) /\ queue # <<>>
  /\ work' = [work EXCEPT ![k] = [wallet |-> Head(queue), for |-> 0]]
  /\ queue' = Tail(queue)
  /\ UNCHANGED <<timer, running, age, order>>

Checked(w) ==
  /\ age' = [age EXCEPT ![w] = 0]
  /\ order' = Append(Remove(order, w), w)

Finish(k) ==
  /\ Busy(k)
  /\ work' = [work EXCEPT ![k] = Nothing]
  /\ IF work[k].wallet \in Failing THEN UNCHANGED <<age, order>> ELSE Checked(work[k].wallet)
  /\ UNCHANGED <<timer, running, queue>>

AfterPass == FALSE

Drained ==
  /\ running /\ queue = <<>> /\ \A k \in Workers : ~Busy(k)
  /\ running' = AfterPass
  /\ UNCHANGED <<timer, queue, work, age, order>>

(* A unit of time: not while the timer is due or a rescreen has had its     *)
(* time, nor while a worker could go on without waiting.                    *)
Elapse ==
  /\ timer > 0
  /\ \A k \in Workers : Busy(k) => work[k].for < Longest
  /\ running => \E k \in Workers : Busy(k)
  /\ queue # <<>> => \A k \in Workers : Busy(k)
  /\ timer' = timer - 1
  /\ age' = [w \in Wallets |-> IF age[w] < MaxAge THEN age[w] + 1 ELSE MaxAge]
  /\ work' = [k \in Workers |-> IF Busy(k) THEN [work[k] EXCEPT !.for = @ + 1] ELSE Nothing]
  /\ UNCHANGED <<running, queue, order>>

(* POST /wallets/:id/refresh, at any time.                                  *)
Refresh(w) ==
  /\ w \notin Failing
  /\ Checked(w)
  /\ UNCHANGED <<timer, running, queue, work>>

(* The process is restarted: the first tick comes an interval later.        *)
Restart ==
  /\ timer' = Interval
  /\ running' = FALSE
  /\ queue' = <<>>
  /\ work' = [k \in Workers |-> Nothing]
  /\ UNCHANGED <<age, order>>

Work == Tick \/ Drained \/ Elapse \/ \E k \in Workers : Take(k) \/ Finish(k)
Next == Work \/ QueryFails \/ Restart \/ \E w \in Wallets : Refresh(w)

Spec == Init /\ [][Next]_vars

(* Nobody refreshes, nothing is restarted and the database answers: the     *)
(* monitor on its own, whose timer and workers go on (Node's event loop).   *)
AloneSpec == Init /\ [][Work]_vars /\ WF_vars(Work)

-----------------------------------------------------------------------------
TypeOK ==
  /\ timer \in 0..Interval
  /\ running \in BOOLEAN
  /\ ToSet(queue) \subseteq Wallets /\ Len(queue) <= Batch
  /\ \A k \in Workers : Busy(k) => work[k] \in [wallet : Wallets, for : 0..Longest]
  /\ age \in [Wallets -> 0..MaxAge]
  /\ order \in SetToSeqs(Wallets)

(* "Two at a time", and never the same wallet twice: while a pass is under  *)
(* way no other one of the process starts, whatever the ticks.              *)
OneAtATime ==
  /\ \A j, k \in Workers : Busy(j) /\ Busy(k) /\ j # k => work[j].wallet # work[k].wallet
  /\ \A k \in Workers : Busy(k) => work[k].wallet \notin ToSet(queue)
  /\ IsInjective(queue)

CeilDiv(a, b) == (a + b - 1) \div b
Healthy == Wallets \ Failing
PassTime == CeilDiv(IF Batch < Cardinality(Wallets) THEN Batch ELSE Cardinality(Wallets), Cardinality(Workers)) * Longest
Rounds == CeilDiv(Cardinality(Healthy), Batch - Cardinality(Failing))
RoundTime == (PassTime \div Interval + 1) * Interval

(* A wallet that is stale is checked within as many rounds as it takes to   *)
(* reach every wallet when those that fail come first in each batch; a      *)
(* round is the intervals up to the first tick after its pass.              *)
WithinItsRounds == \A w \in Healthy : age[w] <= Interval + Rounds * RoundTime + PassTime

(* "How often watched wallets are rescreened": within the interval and the  *)
(* time a pass takes.  The code takes two: a wallet that one tick checks is *)
(* not older than the interval at the next one.                             *)
EveryInterval == \A w \in Healthy : age[w] <= Interval + PassTime

=============================================================================
