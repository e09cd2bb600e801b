------------------------------ MODULE MCServices ------------------------------
(* What the API's services compute, on small sets: the reads of one account *)
(* for a screening, the requests that fail over between two endpoints, the  *)
(* score of a growing history, Travel Rule transfers as requests change     *)
(* them, and the audit report that replays such histories.  part says which *)
(* of the five is explored.                                                 *)
EXTENDS Integers, Sequences, FiniteSets

CONSTANTS account, payments, toml, claims,     \* what an account is read from
          MaxPages, DeadlineLength, RequestTimeout, RetryDelay, MinRetryBudget, MinPageBudget,
          Count, Calls, AttemptTimeout, Cooldown, Patience, MaxClock,
          me, peer, mixer, ofac,               \* the parties of a history
          Hour, Day, Velocity, Scan, MaxNow, MaxSeen,
          Transfers, References, Workers, Attempts, MaxTrClock, MaxHistory,
          Alerts, Listed, PeriodStart, PeriodEnd, MaxReportClock, MaxEvents, MaxMoves, MaxReports, Nothing

VARIABLES part, clock, labelled, rd, outcome,
          time, coolUntil, call, failed, failedAt,
          now, history, profile, pages,
          trClock, row, moves, op,
          reportClock, alertRows, alertChange, transfers, transferChange, report, reports, asOf, closings

readVars == <<clock, labelled, rd, outcome>>
failoverVars == <<time, coolUntil, call, failed, failedAt>>
riskVars == <<now, history, profile, pages>>
transferVars == <<trClock, row, moves, op>>
reportVars == <<reportClock, alertRows, alertChange, transfers, transferChange, report, reports, asOf, closings>>
allVars == <<part, readVars, failoverVars, riskVars, transferVars, reportVars>>

Reads == INSTANCE ScreenReads
  WITH Sources <- {account, payments}, Account <- account, Paged <- {payments},
       Extras <- {claims, toml}, Texts <- {toml}, Needed <- {claims},
       StartsAfter <- [e \in {claims, toml} |-> IF e = claims THEN {} ELSE {account}]

Fetch == INSTANCE Failover WITH clock <- time

(* Labels: none, a mixer, a sanctions list.                                 *)
Severities == [p \in {peer, mixer, ofac} |-> CASE p = peer -> 0 [] p = mixer -> 75 [] p = ofac -> 100]

Plain == [sanctioned |-> FALSE, label |-> 0, knownGood |-> FALSE, delegate |-> 0,
          fresh |-> FALSE, shared |-> FALSE, unverified |-> FALSE]
SubjectProfiles ==
  {Plain, [Plain EXCEPT !.fresh = TRUE, !.shared = TRUE, !.unverified = TRUE],
   [Plain EXCEPT !.knownGood = TRUE, !.delegate = 40], [Plain EXCEPT !.sanctioned = TRUE, !.label = 100]}

Payment(other, inbound, amount) == [other |-> other, inbound |-> inbound, amount |-> amount, ok |-> TRUE]

(* Two deposits and withdrawals just below 10,000; two deposits; one large  *)
(* withdrawal; contact with a mixer or a sanctioned party just below 3,000; *)
(* a failed and a circular transfer; a burst of small payments.             *)
ChainPages ==
  LET in == Payment(peer, TRUE, 9500) out == Payment(peer, FALSE, 9000) IN
    {<<in, in, out, out>>, <<in, in>>, <<out>>,
     <<Payment(mixer, TRUE, 2800)>>, <<Payment(ofac, TRUE, 2800)>>,
     <<[Payment(mixer, TRUE, 9500) EXCEPT !.ok = FALSE], Payment(me, TRUE, 9500)>>,
     [i \in 1..7 |-> Payment(peer, FALSE, 100)]}

Risk == INSTANCE RiskEngine
  WITH Parties <- {peer, mixer, ofac}, Severity <- Severities, Me <- me, Pages <- ChainPages,
       Profiles <- SubjectProfiles, MaxClock <- MaxNow, MaxPages <- MaxSeen

Rule == INSTANCE TravelRule WITH clock <- trClock, history <- moves, MaxClock <- MaxTrClock
Audit == INSTANCE AuditReport WITH clock <- reportClock, alerts <- alertRows, Transfers <- Listed, MaxClock <- MaxReportClock

(* Nothing is no status, row or change; a transfer is no alert.             *)
AnyStatus == Rule!Statuses \cup Audit!AlertStatuses
ASSUME NothingIsNone ==
  /\ Nothing \notin AnyStatus
  /\ Nothing \notin [status : AnyStatus, reference : References] \cup [status : AnyStatus, at : Nat]
ASSUME ReportAssumption ==
  /\ Alerts \cap Listed = {} /\ PeriodStart \in Nat /\ PeriodEnd \in Nat

ServicesInit ==
  /\ part \in {"reads", "failover", "risk", "transfers", "report"}
  /\ Reads!Init /\ (part # "reads" => labelled)
  /\ Fetch!Init
  /\ Risk!Init /\ (part # "risk" => profile = Plain)
  /\ Rule!Init /\ Audit!Init

ReadsTimers == part = "reads" /\ Reads!Timers /\ UNCHANGED <<part, failoverVars, riskVars, transferVars, reportVars>>
ServicesNext ==
  \/ part = "reads" /\ Reads!Next /\ UNCHANGED <<part, failoverVars, riskVars, transferVars, reportVars>>
  \/ part = "failover" /\ Fetch!Next /\ UNCHANGED <<part, readVars, riskVars, transferVars, reportVars>>
  \/ part = "risk" /\ Risk!Next /\ UNCHANGED <<part, readVars, failoverVars, transferVars, reportVars>>
  \/ part = "transfers" /\ Rule!Next /\ UNCHANGED <<part, readVars, failoverVars, riskVars, reportVars>>
  \/ part = "report" /\ Audit!Next /\ UNCHANGED <<part, readVars, failoverVars, riskVars, transferVars>>
ServicesSpec == ServicesInit /\ [][ServicesNext]_allVars /\ WF_allVars(ReadsTimers)

(* What the modules say of their parts.                                     *)
ScreenIsHonest ==
  /\ [](part = "reads" => Reads!InTime /\ Reads!MissingIsTold /\ Reads!FullMeansFull /\ Reads!ErrorOnlyForNothing)
  /\ part = "reads" => Reads!ScreenEnds
FailoverIsFair ==
  [](Fetch!FailsOnlyIfAllFail /\ Fetch!HungEndpointIsLeft) /\ Fetch!TrafficRoutesAround
ScoreIsSound ==
  /\ [](part = "risk" => Risk!BehaviourAloneIsAllowed /\ Risk!OneToOne /\ Risk!WindowIsBest)
  /\ Risk!SanctionedContactNeverLowers /\ Risk!ContactNeverDilutes /\ Risk!FailedNeverScores
HistoryIsSound ==
  [](part = "transfers" => Rule!HistoryIsALegalPath /\ Rule!HistoryInOrder) /\ Rule!KeepsRecords
ReportIsTrue ==
  part = "report" => Audit!TrueAtTheEnd /\ Audit!DecisionsCountedOnce /\ Audit!SameFiguresTwice

=============================================================================
