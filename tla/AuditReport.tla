---- MODULE AuditReport ----
(***************************************************************************)
(* The figures of a compliance audit report                                *)
(* (buildAuditSnapshot, apps/api/src/reports/audit-snapshot.ts).           *)
(*                                                                         *)
(* The report is about a period that ended; it is computed later, by       *)
(* queries that do not share a snapshot, while alerts and transfers go on  *)
(* changing.  It says what was so at the end of the period by replaying    *)
(* the alert.updated audit events and the Travel Rule events stamped       *)
(* before the end.  Both kinds of record are RecordHistory: a change is    *)
(* stamped inside its transaction and visible when that commits.  The      *)
(* counts of screenings and access events are plain counts by created_at   *)
(* and are left out.  Every close here carries a disposition, as the       *)
(* dashboard's do: the code counts no other.                               *)
(***************************************************************************)
EXTENDS Integers, Sequences, FiniteSets

CONSTANTS Alerts, Transfers,
          PeriodStart, PeriodEnd,  \* the period: from its start, up to but not its end
          MaxClock,            \* bound: the last instant considered
          MaxEvents, MaxMoves, \* bounds: the changes an alert and a transfer can have
          MaxReports,          \* bound: the reports of the period computed
          Nothing

VARIABLES clock,
          alerts, alertChange,       \* the alerts' histories, and changes not committed
          transfers, transferChange, \* the transfers'
          report,                    \* the report being computed, or Nothing
          reports,                   \* those that were
          asOf,      \* history variable: each record's status, by changes stamped before PeriodEnd
          closings   \* history variable: how often an alert was closed in the period

AlertStatuses == {"open", "escalated", "closed"}

\* An update may leave the status what it was, adding a note.
AlertMoves == {<<Nothing, "open">>} \cup (AlertStatuses \X AlertStatuses)

TransferMoves == {<<Nothing, "draft">>, <<"draft", "accepted">>, <<"draft", "rejected">>, <<"accepted", "settled">>}

alertVars == <<alerts, alertChange>>
transferVars == <<transfers, transferChange>>
reportVars == <<report, reports>>
ghostVars == <<asOf, closings>>
arVars == <<clock, alerts, alertChange, transfers, transferChange, report, reports, asOf, closings>>

A == INSTANCE RecordHistory WITH Items <- Alerts, Moves <- AlertMoves, history <- alerts, pending <- alertChange
T == INSTANCE RecordHistory WITH Items <- Transfers, Moves <- TransferMoves, history <- transfers, pending <- transferChange

Init ==
  /\ A!Init /\ T!Init
  /\ report = Nothing /\ reports = <<>>
  /\ asOf = [i \in Alerts \cup Transfers |-> Nothing]
  /\ closings = 0

Tick ==
  /\ clock < MaxClock
  /\ A!Tick
  /\ UNCHANGED <<transfers, transferChange, report, reports, asOf, closings>>

InPeriod(at) == PeriodStart <= at /\ at < PeriodEnd

\* raiseForWallet and update (alerts.service.ts): the alert's row is locked,
\* the audit event is stamped as it is appended, and all of it commits.
ChangeAlert(a) ==
  /\ Len(alerts[a]) < MaxEvents
  /\ \E s \in AlertStatuses : A!Stamped(a, s)
  /\ UNCHANGED <<transferVars, reportVars, ghostVars>>

AlertCommits(a) ==
  /\ A!Committed(a)
  /\ LET c == alertChange[a] IN
       /\ asOf' = IF c.at < PeriodEnd THEN [asOf EXCEPT ![a] = c.status] ELSE asOf
       /\ closings' = IF /\ InPeriod(c.at) /\ c.status = "closed"
                         /\ A!LastStatus(alerts[a]) # "closed"
                      THEN closings + 1 ELSE closings
  /\ UNCHANGED <<transferVars, reportVars>>

AlertAbandoned(a) == A!Abandoned(a) /\ UNCHANGED <<transferVars, reportVars, ghostVars>>

ChangeTransfer(t) ==
  /\ Len(transfers[t]) < MaxMoves
  /\ \E m \in TransferMoves : T!Stamped(t, m[2])
  /\ UNCHANGED <<alertVars, reportVars, ghostVars>>

TransferCommits(t) ==
  /\ T!Committed(t)
  /\ asOf' = IF transferChange[t].at < PeriodEnd THEN [asOf EXCEPT ![t] = transferChange[t].status] ELSE asOf
  /\ UNCHANGED <<alertVars, reportVars, closings>>

TransferAbandoned(t) == T!Abandoned(t) /\ UNCHANGED <<alertVars, reportVars, ghostVars>>

------------------------------------------------------------------------------
(* buildAuditSnapshot, one query a step.                                   *)

\* Every change stamped before PeriodEnd has committed or been given up.
Quiet ==
  /\ \A a \in Alerts : alertChange[a] # Nothing => alertChange[a].at >= PeriodEnd
  /\ \A t \in Transfers : transferChange[t] # Nothing => transferChange[t].at >= PeriodEnd

\* `sound` is for the properties: the period is over, and nothing stamped in
\* it is still to come.
Begin ==
  /\ report = Nothing /\ Len(reports) < MaxReports
  /\ report' = [pc |-> "alerts", sound |-> clock >= PeriodEnd /\ Quiet, seen |-> {},
                openAtEnd |-> 0, closed |-> 0, decidedAfter |-> <<>>, listed |-> {}]
  /\ UNCHANGED <<clock, alertVars, transferVars, reports, ghostVars>>

Created(h) == h[1].at

ReadAlerts ==
  /\ report # Nothing /\ report.pc = "alerts"
  /\ report' = [report EXCEPT !.pc = "trail",
                   !.seen = {a \in Alerts : alerts[a] # <<>> /\ Created(alerts[a]) < PeriodEnd}]
  /\ UNCHANGED <<clock, alertVars, transferVars, reports, ghostVars>>

\* The alert.updated events stamped before PeriodEnd, by their place in the trail.
Updates(a) == {n \in 2..Len(alerts[a]) : alerts[a][n].at < PeriodEnd}

\* The last update's status; an alert no update touched is open.
StatusAtEnd(a) == IF Updates(a) = {} THEN "open"
                  ELSE alerts[a][CHOOSE n \in Updates(a) : \A k \in Updates(a) : k <= n].status

EveryClose(a) == {n \in Updates(a) : alerts[a][n].at >= PeriodStart /\ alerts[a][n].status = "closed"}  \* mutant: from = to counts

\* Updates in the period that closed it, having found it not closed.
Closes(a) == {n \in Updates(a) : /\ alerts[a][n].at >= PeriodStart
                                 /\ alerts[a][n].status = "closed"
                                 /\ alerts[a][n - 1].status # "closed"}

\* From the alert's creation to the first of them.
TimeToClose(a) ==
  alerts[a][CHOOSE n \in Closes(a) : \A k \in Closes(a) : n <= k].at - Created(alerts[a])

ReadTrail ==
  /\ report # Nothing /\ report.pc = "trail"
  /\ report' = [report EXCEPT !.pc = "transfers",
        !.openAtEnd = Cardinality({a \in report.seen : StatusAtEnd(a) # "closed"}),
        !.closed = Cardinality(UNION {{a} \X Closes(a) : a \in Alerts}),
        !.decidedAfter = [a \in {b \in report.seen : Closes(b) # {}} |-> TimeToClose(a)]]
  /\ UNCHANGED <<clock, alertVars, transferVars, reports, ghostVars>>

ReadTransfers ==
  /\ report # Nothing /\ report.pc = "transfers"
  /\ report' = [report EXCEPT !.pc = "events",
                   !.listed = {t \in Transfers : transfers[t] # <<>> /\ InPeriod(Created(transfers[t]))}]
  /\ UNCHANGED <<clock, alertVars, transferVars, reports, ghostVars>>

\* The last of the transfer's events stamped before PeriodEnd (a transfer that is
\* listed has its draft event).
TransferAtEnd(t) ==
  LET before == {n \in 1..Len(transfers[t]) : transfers[t][n].at < PeriodEnd} IN
    transfers[t][CHOOSE n \in before : \A k \in before : k <= n].status

ReadEvents ==
  /\ report # Nothing /\ report.pc = "events"
  /\ reports' = Append(reports,
       [sound |-> report.sound,
        openAtEnd |-> report.openAtEnd, closed |-> report.closed,
        decidedAfter |-> report.decidedAfter,
        transfers |-> Cardinality(report.listed),
        completed |-> Cardinality({t \in report.listed : TransferAtEnd(t) \in {"accepted", "settled"}}),
        rejected |-> Cardinality({t \in report.listed : TransferAtEnd(t) = "rejected"})])
  /\ report' = Nothing
  /\ UNCHANGED <<clock, alertVars, transferVars, ghostVars>>

Next ==
  \/ Tick
  \/ \E a \in Alerts : ChangeAlert(a) \/ AlertCommits(a) \/ AlertAbandoned(a)
  \/ \E t \in Transfers : ChangeTransfer(t) \/ TransferCommits(t) \/ TransferAbandoned(t)
  \/ Begin \/ ReadAlerts \/ ReadTrail \/ ReadTransfers \/ ReadEvents

Spec == Init /\ [][Next]_arVars

------------------------------------------------------------------------------
(* What the figures promise.                                               *)

\* A report of a period that is over and settled says of its end what was so:
\* the alerts it calls open, and the transfers it calls completed, are those
\* that were, though they may have been closed, reopened or settled since, or
\* while its queries ran.
TrueAtTheEnd ==
  \A i \in DOMAIN reports : reports[i].sound =>
    /\ reports[i].openAtEnd = Cardinality({a \in Alerts : asOf[a] \notin {Nothing, "closed"}})
    /\ reports[i].completed = Cardinality({t \in Transfers :
         asOf[t] \in {"accepted", "settled"} /\ Created(transfers[t]) >= PeriodStart})

\* Each time an alert was closed in the period is counted once: a later note
\* on a closed alert is no second decision.
DecisionsCountedOnce == \A i \in DOMAIN reports : reports[i].sound => reports[i].closed = closings

\* Two reports of the same period agree on every figure, whenever after its end
\* they were computed.
SameFiguresTwice ==
  \A i, j \in DOMAIN reports : reports[i].sound /\ reports[j].sound => reports[i] = reports[j]

------------------------------------------------------------------------------
(* Why these hold, whatever changes meanwhile: the strengthening the proofs *)
(* need.                                                                    *)

TransferStatuses == {"draft", "accepted", "rejected", "settled"}
AlertChanges == [status : AlertStatuses, at : Nat]
TransferChanges == [status : TransferStatuses, at : Nat]

TypeOK ==
  /\ clock \in Nat /\ closings \in Nat
  /\ alerts \in [Alerts -> Seq(AlertChanges)] /\ alertChange \in [Alerts -> AlertChanges \cup {Nothing}]
  /\ transfers \in [Transfers -> Seq(TransferChanges)]
  /\ transferChange \in [Transfers -> TransferChanges \cup {Nothing}]
  /\ asOf \in [Alerts \cup Transfers -> AlertStatuses \cup TransferStatuses \cup {Nothing}]
  /\ report # Nothing =>
       /\ DOMAIN report = {"pc", "sound", "seen", "openAtEnd", "closed", "decidedAfter", "listed"}
       /\ report.pc \in {"alerts", "trail", "transfers", "events"} /\ report.sound \in BOOLEAN

\* A history h with the change c that is under way: stamped in order, by times
\* that have come, from the first status on.
InOrder(h, c, first) ==
  /\ \A n \in DOMAIN h : h[n].at <= clock
  /\ \A m, n \in DOMAIN h : m < n => h[m].at <= h[n].at
  /\ h # <<>> => h[1].status = first
  /\ c # Nothing =>
       /\ c.at <= clock /\ \A n \in DOMAIN h : h[n].at <= c.at
       /\ h = <<>> => c.status = first

\* Status s is the last that h shows before PeriodEnd.
LastBeforeEnd(h, s) ==
  LET before == {n \in DOMAIN h : h[n].at < PeriodEnd} IN
    \/ before = {} /\ s = Nothing
    \/ \E n \in before : s = h[n].status /\ \A k \in before : k <= n

HistoriesAreKept ==
  /\ \A a \in Alerts : InOrder(alerts[a], alertChange[a], "open") /\ LastBeforeEnd(alerts[a], asOf[a])
  /\ \A t \in Transfers : InOrder(transfers[t], transferChange[t], "draft") /\ LastBeforeEnd(transfers[t], asOf[t])

ClosesAreCounted ==
  /\ \A a \in Alerts : Closes(a) # {} => \E n \in Closes(a) : \A k \in Closes(a) : n <= k
  /\ LET closes == UNION {{a} \X Closes(a) : a \in Alerts} IN
       IsFiniteSet(closes) /\ closings = Cardinality(closes)

\* What a sound report says, once nothing of the period is still to come.
Over == clock >= PeriodEnd /\ Quiet
SeenAtEnd == {a \in Alerts : alerts[a] # <<>> /\ Created(alerts[a]) < PeriodEnd}
ListedAtEnd == {t \in Transfers : transfers[t] # <<>> /\ InPeriod(Created(transfers[t]))}
EndedAs(statuses) == {t \in Transfers : asOf[t] \in statuses /\ Created(transfers[t]) >= PeriodStart}
Figures ==
  [sound |-> TRUE,
   openAtEnd |-> Cardinality({a \in Alerts : asOf[a] \notin {Nothing, "closed"}}),
   closed |-> closings,
   decidedAfter |-> [a \in {b \in SeenAtEnd : Closes(b) # {}} |-> TimeToClose(a)],
   transfers |-> Cardinality(ListedAtEnd),
   completed |-> Cardinality(EndedAs({"accepted", "settled"})),
   rejected |-> Cardinality(EndedAs({"rejected"}))]

ReportSoFar ==
  report # Nothing /\ report.sound =>
    /\ Over
    /\ report.pc # "alerts" => report.seen = SeenAtEnd
    /\ report.pc \in {"transfers", "events"} =>
         report.openAtEnd = Figures.openAtEnd /\ report.closed = Figures.closed
         /\ report.decidedAfter = Figures.decidedAfter
    /\ report.pc = "events" => report.listed = ListedAtEnd

ReportsStayTrue == \A i \in DOMAIN reports : reports[i].sound => Over /\ reports[i] = Figures

ReportInv == TypeOK /\ HistoriesAreKept /\ ClosesAreCounted /\ ReportSoFar /\ ReportsStayTrue

==============================================================================
