---- MODULE RiskEngine ----
(***************************************************************************)
(* How a subject's score moves as its history grows                        *)
(* (packages/core/src/risk.ts, with the severities of labels.ts).          *)
(*                                                                         *)
(* The score is a function of the transfers seen, the subject's profile    *)
(* and the labels.  The state is a history that grows, and the scorer's    *)
(* pieces are operators on it, in the integers the code rounds to: hours   *)
(* for times, whole dollars for amounts, one stablecoin for the asset, so  *)
(* every amount has a USD value.  Titles, details and evidence are left    *)
(* out; whether the subject is a shared account is part of its profile,    *)
(* and memos and muxed addresses, which only narrow a subject, are not     *)
(* modelled.                                                               *)
(***************************************************************************)
EXTENDS Integers, Sequences, FiniteSets, SequencesExt

CONSTANTS Parties,        \* the counterparties
          Severity,       \* Severity[p]: CATEGORY_SEVERITY of p's label, 0 without one
          Me,             \* the subject, as the other side of its own transfers
          Pages,          \* what may be seen next: sequences of transfers without their time
          Profiles,       \* the profiles and own labels the subject may have
          Hour, Day,      \* the two windows, in clock ticks
          Velocity,       \* transfers a day that are high velocity, 50 in the code
          Scan,           \* PASS_THROUGH_SCAN, 256 in the code
          MaxClock, MaxPages   \* bounds: the history considered

VARIABLES now, history, profile, pages

reVars == <<now, history, profile, pages>>

Largest(S) == CHOOSE x \in S : \A y \in S : y <= x
Smaller(a, b) == IF a < b THEN a ELSE b

\* Math.round of num / den, both natural numbers.
Round(num, den) == (2 * num + den) \div (2 * den)

isRiskCategory(severity) == severity >= 40

------------------------------------------------------------------------------
(* Exposure (toRows, exposurePoints, exposureReasons).                     *)

\* The rows scored: transfers that succeeded, with somebody else.
Rows(h) == SelectSeq(h, LAMBDA t : t.ok /\ t.other # Me)

SeverityOf(p) == IF p = Me THEN 0 ELSE Severity[p]

\* severity * (0.5 + 0.5 * min(1, 5 * share)) * 0.85, for share = part / whole
exposurePoints(severity, part, whole) ==
  Round(85 * severity * (whole + Smaller(whole, 5 * part)), 200 * whole)

OfThisSeverity(rows, severity) ==   \* mutant: a category's share counts its own contacts only
  Len(SelectSeq(rows, LAMBDA t : SeverityOf(t.other) = severity))

AtLeast(rows, severity) == Len(SelectSeq(rows, LAMBDA t : SeverityOf(t.other) >= severity))

Contacted(rows) == {s \in {SeverityOf(rows[i].other) : i \in DOMAIN rows} : isRiskCategory(s)}

ExposureTo(rows, severity) == exposurePoints(severity, AtLeast(rows, severity), Len(rows))

Exposure(rows) == Largest({0} \cup {ExposureTo(rows, s) : s \in Contacted(rows)})

------------------------------------------------------------------------------
(* Behaviour (passThrough, behaviorReasons, stellarReasons).               *)

\* 90 to 100 percent of the inflow left again, within an hour of it.
LeftAgain(in, out) ==
  /\ in.at <= out.at /\ out.at - in.at <= Hour
  /\ 10 * out.amount >= 9 * in.amount /\ out.amount <= in.amount

Inflows(rows) == {i \in DOMAIN rows : rows[i].inbound /\ rows[i].amount > 0}
Outflows(rows) == {i \in DOMAIN rows : ~rows[i].inbound}

AnyOutflow(rows, i, used) ==   \* mutant: one outflow may explain many inflows
  {j \in Outflows(rows) : LeftAgain(rows[i], rows[j])}

\* The outflows inflow i may still be matched with, among the Scan first ones
\* at or after it.
Candidates(rows, i, used) ==
  {j \in Outflows(rows) :
     /\ LeftAgain(rows[i], rows[j]) /\ j \notin used
     /\ Cardinality({k \in Outflows(rows) : k < j /\ rows[k].at >= rows[i].at}) < Scan}

\* One inflow after the other, oldest first, each takes its first candidate.
\* Rows are in time order.
passThrough(rows) ==
  LET take(m, i) ==
        LET c == Candidates(rows, i, m.used) IN
          IF ~(i \in Inflows(rows)) \/ c = {} THEN m
          ELSE [matched |-> m.matched \cup {i},
                used |-> m.used \cup {CHOOSE j \in c : \A k \in c : j <= k}]
  IN FoldLeft(take, [matched |-> {}, used |-> {}], [i \in 1..Len(rows) |-> i]).matched

RapidInOut(rows) ==
  LET inbound == Cardinality(Inflows(rows)) IN
    inbound >= 3 /\ 2 * Cardinality(passThrough(rows)) >= inbound

Near(rows, threshold) == SelectSeq(rows, LAMBDA t : 10 * t.amount >= 9 * threshold /\ t.amount < threshold)

\* The window's start moves on until the day fits.
WindowStart(near, start, end) ==
  LET fits == {s \in start..end : near[end].at - near[s].at <= Day} IN
    CHOOSE s \in fits : \A k \in fits : s <= k

\* The largest number of near-threshold transfers in a sliding day.
BestWindow(near) ==
  LET slide(w, end) ==
        LET start == WindowStart(near, w.start, end) IN
          [start |-> start, best |-> Largest({w.best, end - start + 1})]
  IN FoldLeft(slide, [start |-> 1, best |-> 0], [i \in 1..Len(near) |-> i]).best

Structuring(rows) == \E threshold \in {3000, 10000} : BestWindow(Near(rows, threshold)) >= 3

LastDay(rows) == Cardinality({i \in DOMAIN rows : now - rows[i].at < Day})

Points(condition, points) == IF condition THEN points ELSE 0

BehaviourPoints(rows) ==
    Points(profile.fresh, 15) + Points(LastDay(rows) >= Velocity, 10)
  + Points(RapidInOut(rows), 15) + Points(Structuring(rows), 20)
  + Points(profile.shared, 5) + Points(profile.unverified, 10)

Behaviour(rows) == Smaller(30, BehaviourPoints(rows))

------------------------------------------------------------------------------
(* The score (scoreSubject, bandFor, decisionFor).                         *)

Baseline(rows) == IF profile.knownGood THEN 2 ELSE IF rows = <<>> THEN 10 ELSE 5

DelegationPoints == IF isRiskCategory(profile.delegate) THEN Round(85 * profile.delegate, 100) ELSE 0

Direct == IF isRiskCategory(profile.label) THEN profile.label ELSE 0

Score(h) ==
  LET rows == Rows(h) IN
    IF profile.sanctioned THEN 100
    ELSE Smaller(100, Largest({Direct, Exposure(rows), DelegationPoints, Behaviour(rows) + Baseline(rows)}))

Band(score) ==
  CASE score >= 75 -> "severe"
    [] score >= 50 /\ score < 75 -> "high"
    [] score >= 25 /\ score < 50 -> "medium"
    [] score < 25 -> "low"

Decision(h) ==
  CASE profile.sanctioned \/ Band(Score(h)) = "severe" -> "block"
    [] ~profile.sanctioned /\ Band(Score(h)) = "high" -> "review"
    [] OTHER -> "allow"

------------------------------------------------------------------------------
(* The chain, which only ever adds to the history.                         *)

Init == now = 0 /\ history = <<>> /\ profile \in Profiles /\ pages = 0

Observe ==
  /\ pages < MaxPages /\ pages' = pages + 1
  /\ \E page \in Pages :
       history' = history \o [i \in DOMAIN page |->
                    [other |-> page[i].other, inbound |-> page[i].inbound,
                     amount |-> page[i].amount, ok |-> page[i].ok, at |-> now]]
  /\ UNCHANGED <<now, profile>>

Tick ==
  /\ now < MaxClock
  /\ now' = now + 1
  /\ UNCHANGED <<history, profile, pages>>

Next == Observe \/ Tick

Spec == Init /\ [][Next]_reVars

------------------------------------------------------------------------------
(* What the scorer promises.                                               *)

Added == {history'[i] : i \in (Len(history) + 1)..Len(history')}

\* "adding a transfer with a sanctioned counterparty never lowers the score"
\* (properties.test.ts): even when the new transfer dilutes the share of funds
\* that pass straight through, or ends the baseline of an empty history.
SanctionedContactNeverLowers ==
  [][Added # {} /\ (\A t \in Added : SeverityOf(t.other) = 100) => Score(history') >= Score(history)]_reVars

\* "more contact with a sanctioned party can never dilute (and so lower) the
\* exposure to a mixer" (risk.ts:196): contact with a party at least as severe
\* never lowers what the exposure to a lesser category costs.
ContactNeverDilutes ==
  [][Added # {} => \A s \in Contacted(Rows(history)) :
       (\A t \in Added : t.ok /\ t.other # Me /\ SeverityOf(t.other) >= s)
         => ExposureTo(Rows(history'), s) >= ExposureTo(Rows(history), s)]_reVars

\* Transfers that failed, or that the subject made to itself, move no score.
FailedNeverScores ==
  [][Added # {} /\ (\A t \in Added : ~t.ok \/ t.other = Me) => Score(history') = Score(history)]_reVars

\* However it moves its money, a subject that has no risk label, no risky
\* counterparty and no risky delegate is allowed: behaviour alone never asks
\* for a review.
BehaviourAloneIsAllowed ==
  ~profile.sanctioned /\ Direct = 0 /\ DelegationPoints = 0 /\ Contacted(Rows(history)) = {}
    => Decision(history) = "allow"

\* "one large withdrawal cannot explain many small deposits" (risk.ts:243): the
\* inflows that count as passed through can each be given an outflow of their
\* own.
OneToOne ==
  LET rows == Rows(history) matched == passThrough(rows) IN
    \E f \in [matched -> Outflows(rows)] :
      \A i, j \in matched : LeftAgain(rows[i], rows[f[i]]) /\ (i # j => f[i] # f[j])

\* The sliding window finds the largest day there is, whatever the order in
\* which its start and end moved.
WindowIsBest ==
  \A threshold \in {3000, 10000} :
    LET near == Near(Rows(history), threshold) IN
      BestWindow(near) = Largest({0} \cup {Cardinality({j \in i..Len(near) : near[j].at - near[i].at <= Day})
                                            : i \in DOMAIN near})
==============================================================================
