---- MODULE ScreenReads ----
(***************************************************************************)
(* How one screening reads its chain (packages/core/src/screen.ts and the  *)
(* adapters http.ts, horizon.ts, blockscout.ts).                           *)
(*                                                                         *)
(* An adapter reads several sources at the same time under one deadline.   *)
(* Each source is a GET, or pages of GETs; a GET has a budget that never   *)
(* outlives the deadline, is retried once after a hiccup when enough of    *)
(* its budget is left, and is given up when it runs out.  Every source is  *)
(* settled on its own, and what came back decides the profile: missing     *)
(* sources, data status, full history, or an error when nothing came back. *)
(*                                                                         *)
(* Time is counted in units; the program's own work takes none, and a      *)
(* timer that is due fires before time goes on.                            *)
(***************************************************************************)
EXTENDS Integers, FiniteSets

CONSTANTS Sources,        \* the sources whose failure the profile reports
          Account,        \* the one of them that says whether the account exists
          Paged,          \* those of them that are read by pages
          Extras,         \* reads that are best-effort (toml, claims, contract code)
          StartsAfter,    \* StartsAfter[e]: the sources an extra waits for
          Texts,          \* extras read by getText, which never retries
          Needed,         \* extras without which the history is not full (claims)
          MaxPages, DeadlineLength, RequestTimeout,
          RetryDelay, MinRetryBudget, MinPageBudget,
          Nothing

Readers == Sources \cup Extras

VARIABLES clock,
          labelled,       \* whether the subject carries labels of its own
          rd,             \* rd[s]: the progress of each read
          outcome         \* the profile's verdict on the data, or Nothing

srVars == <<clock, labelled, rd, outcome>>

Least(a, b) == IF a < b THEN a ELSE b

\* Deadline.remaining
Remaining == IF clock < DeadlineLength THEN DeadlineLength - clock ELSE 0

\* Deadline.bound: when a request that starts now is given up.
GivenUpAt == clock + Least(RequestTimeout, Remaining)

Asking(pages) == [pc |-> "asking", end |-> GivenUpAt, attempt |-> 0, wake |-> 0,
                  pages |-> pages, result |-> Nothing, cut |-> Nothing]

Waiting == [pc |-> "waiting", end |-> 0, attempt |-> 0, wake |-> 0,
            pages |-> 0, result |-> Nothing, cut |-> Nothing]

Init ==
  /\ clock = 0
  /\ labelled \in BOOLEAN
  /\ rd = [s \in Readers |-> IF s \in Sources THEN Asking(0) ELSE Waiting]
  /\ outcome = Nothing

Done(s) == rd[s].pc = "done"
Settle(s, result, cut) == rd' = [rd EXCEPT ![s] = [Waiting EXCEPT !.pc = "done", !.result = result, !.cut = cut]]

------------------------------------------------------------------------------
(* One GET, and the pages after it (getJson, getText, getPaged).           *)

\* An error on the first page is the source's; on a later one it only cuts
\* the pages short.
Fail(s, kind) ==
  IF rd[s].pages = 0 THEN Settle(s, kind, Nothing)
  ELSE Settle(s, "data", IF Remaining < MinPageBudget THEN "deadline" ELSE "error")

\* A page arrived; `more` says whether it names another.
Page(s, more) ==
  /\ rd[s].pc = "asking" /\ s \in Paged
  /\ LET pages == rd[s].pages + 1 IN
       \/ ~more /\ Settle(s, "data", Nothing)
       \/ /\ more
          /\ \/ pages >= MaxPages /\ Settle(s, "data", "page_budget")
             \/ pages < MaxPages /\ Remaining < MinPageBudget /\ Settle(s, "data", "deadline")
             \/ /\ pages < MaxPages /\ Remaining >= MinPageBudget
                /\ rd' = [rd EXCEPT ![s] = Asking(pages)]
  /\ UNCHANGED <<clock, labelled, outcome>>

Body(s) ==
  /\ rd[s].pc = "asking" /\ s \notin Paged
  /\ Settle(s, "data", Nothing)
  /\ UNCHANGED <<clock, labelled, outcome>>

\* A 404: never seen, for the account; on a later page, the pages end there.
NotFound(s) ==
  /\ rd[s].pc = "asking"
  /\ IF rd[s].pages = 0 THEN Settle(s, "absent", Nothing) ELSE Settle(s, "data", "error")
  /\ UNCHANGED <<clock, labelled, outcome>>

\* Another error status, or a body that cannot be read.
Refused(s) ==
  /\ rd[s].pc = "asking"
  /\ \E kind \in {"http", "malformed"} : Fail(s, kind)
  /\ UNCHANGED <<clock, labelled, outcome>>

CanRetry(s) ==
  /\ rd[s].attempt = 0 /\ s \notin Texts
  /\ rd[s].end - clock - RetryDelay >= MinRetryBudget

\* 429, 502, 503, 504 or no connection: retried once, in the same budget.
Hiccup(s) ==
  /\ rd[s].pc = "asking"
  /\ \/ /\ CanRetry(s)
        /\ rd' = [rd EXCEPT ![s].pc = "sleeping", ![s].wake = clock + RetryDelay]
     \/ /\ ~CanRetry(s)
        /\ \E kind \in {"http", "network"} : Fail(s, kind)
  /\ UNCHANGED <<clock, labelled, outcome>>

Retry(s) ==
  /\ rd[s].pc = "sleeping" /\ clock >= rd[s].wake
  /\ rd' = [rd EXCEPT ![s].pc = "asking", ![s].attempt = 1]
  /\ UNCHANGED <<clock, labelled, outcome>>

StaysAsking(s) == FALSE /\ UNCHANGED srVars   \* mutant: only the fetch's own abort ends a request

TimeOut(s) ==
  /\ rd[s].pc = "asking" /\ clock >= rd[s].end
  /\ Fail(s, "timeout")
  /\ UNCHANGED <<clock, labelled, outcome>>

\* toml once the account has a home domain, contract code when the account
\* might be a delegated wallet; claims at once.  Otherwise there is nothing to
\* ask.
StartExtra(e) ==
  /\ rd[e].pc = "waiting" /\ \A s \in StartsAfter[e] : Done(s)
  /\ \/ (StartsAfter[e] # {} => rd[Account].result = "data") /\ rd' = [rd EXCEPT ![e] = Asking(0)]
     \/ StartsAfter[e] # {} /\ Settle(e, "absent", Nothing)
  /\ UNCHANGED <<clock, labelled, outcome>>

------------------------------------------------------------------------------
(* What came back (fetchStellarAccount, fetchEvmAccount, screenSubject).   *)

Failed == {s \in Sources : rd[s].result \notin {"data", "absent"}}

AnyPages(s) == rd[s].result \in {"data", "absent"}   \* mutant: a source that answered was read to its end

\* The source said there is no more.
ReadToTheEnd(s) == rd[s].result = "absent" \/ (rd[s].result = "data" /\ rd[s].cut = Nothing)

\* Nothing came back: a labelled subject is scored on its labels alone.
Unavailable ==
  IF labelled THEN [kind |-> "profile", exists |-> TRUE, status |-> "unavailable", full |-> FALSE, missing |-> Sources]
  ELSE [kind |-> "error", exists |-> FALSE, status |-> "unavailable", full |-> FALSE, missing |-> Sources]

NeverSeen == [kind |-> "profile", exists |-> FALSE, status |-> "complete", full |-> TRUE, missing |-> {}]

Missing == Failed

\* `dated`: on Stellar a full history also needs the oldest operation to be the
\* account's creation, and every claim seen to be resolved.
Profile(dated) ==
  [kind |-> "profile", exists |-> TRUE,
   status |-> IF Missing = {} THEN "complete" ELSE "partial",
   full |-> dated /\ Missing = {} /\ \A s \in Paged \cup Needed : ReadToTheEnd(s),
   missing |-> Missing]

Finish ==
  /\ outcome = Nothing /\ \A s \in Readers : Done(s)
  /\ \/ Failed = Sources /\ outcome' = Unavailable
     \/ Failed # Sources /\ rd[Account].result = "absent" /\ outcome' = NeverSeen
     \/ /\ Failed # Sources /\ rd[Account].result # "absent"
        /\ \E dated \in BOOLEAN : outcome' = Profile(dated)
  /\ UNCHANGED <<clock, labelled, rd>>

\* Nothing is due: no timer, no read to start, no result to put together.
Tick ==
  /\ outcome = Nothing
  /\ \E s \in Readers : ~Done(s)
  /\ \A s \in Readers :
       /\ rd[s].pc = "asking" => clock < rd[s].end
       /\ rd[s].pc = "sleeping" => clock < rd[s].wake
       /\ rd[s].pc = "waiting" => \E p \in StartsAfter[s] : ~Done(p)
  /\ clock' = clock + 1
  /\ UNCHANGED <<labelled, rd, outcome>>

ReaderStep(s) ==
  \/ \E more \in BOOLEAN : Page(s, more)
  \/ Body(s) \/ NotFound(s) \/ Refused(s) \/ Hiccup(s) \/ Retry(s) \/ TimeOut(s)

Next == Tick \/ Finish \/ (\E s \in Readers : ReaderStep(s)) \/ \E e \in Extras : StartExtra(e)

\* Time passes and what is due happens; no source need ever answer.
Timers == Tick \/ Finish \/ (\E s \in Readers : Retry(s) \/ TimeOut(s)) \/ \E e \in Extras : StartExtra(e)

Spec == Init /\ [][Next]_srVars /\ WF_srVars(Timers)

------------------------------------------------------------------------------
(* What a screening promises its caller.                                   *)

\* Whatever the sources do, the retries, later pages and follow-up reads never
\* carry the call past its deadline: while it is not over, the deadline is not.
InTime == outcome = Nothing => clock <= DeadlineLength

\* An account that is called complete was answered by every source, or does not
\* exist; and everything that did not answer is named.
MissingIsTold ==
  outcome # Nothing /\ outcome.kind = "profile" /\ outcome.exists =>
    /\ outcome.status = "complete" <=> (\A s \in Sources : rd[s].result \in {"data", "absent"})
    /\ \A s \in Sources : rd[s].result \notin {"data", "absent"} => s \in outcome.missing

\* A history is called full only when no page budget, deadline or error cut any
\* of its sources, and the claims were read; scoring an old account as new
\* hangs on this.
FullMeansFull ==
  outcome # Nothing /\ outcome.full /\ outcome.exists =>
    /\ \A s \in Sources : rd[s].result \in {"data", "absent"} /\ rd[s].cut = Nothing
    /\ \A e \in Needed : rd[e].result \in {"data", "absent"}

\* "Never fails open on a labeled subject" (screen.ts:18): an error is only for
\* a subject without labels of which no source said anything.
ErrorOnlyForNothing ==
  outcome # Nothing /\ outcome.kind = "error" => ~labelled /\ \A s \in Sources : rd[s].result \notin {"data", "absent"}

\* A screening comes to an outcome even when no source ever answers.
ScreenEnds == <>(outcome # Nothing)

==============================================================================
