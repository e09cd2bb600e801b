# Hera: specifications and proofs

TLA+ specifications of the Hera monorepo: the NestJS API (`src/apps/api`), the
screening engine (`src/packages/core`), the TypeScript SDK (`src/packages/sdk`) and
the dashboard (`src/apps/web`). `PROJECT.json` lists the components, the runs, the
mutants and the theorems, and for each definition the source lines it stands for.

## Inventory

### The parts and how they meet

    browser tab: page state, query cache, router, cookie
          |  HTTP, answers late, lost or out of order
    SDK --+--> API guards --> services --one transaction--> Postgres (or PGlite)
          |                      |            |- rows of the change
          |                      |            |- AuditService.record: append to the org's chain
          |                      |            `- WebhooksService.emit: outbox rows
    receiver <--POST--.          `- packages/core screenSubject --HTTP--> Horizon, Blockscout
                      |
    timers in every API process: WebhookDispatcher.tick, ReportJobs.tick, MonitorService

A service writes its own rows, the audit event and the outbox rows in one database
transaction; three timers work off what transactions left behind. API processes share
no memory: they meet in Postgres only, through row locks (`FOR UPDATE`, `FOR UPDATE
SKIP LOCKED`, foreign keys), unique indexes and `onConflictDoNothing`. The dashboard
is one process per tab: its concurrency is that of requests that outlive the dialog,
the form or the page that sent them, and of colleagues and other tabs.

| component | state | operations | what is hard | what makes it correct |
| --- | --- | --- | --- | --- |
| webhook outbox, dispatcher | endpoint (enabled, failure_count), delivery (status, attempts, next_attempt_at); per process a claimed batch and its loops | create, update, remove, emit, test, redeliver, claim, attempt, outcome | two processes over the same rows, a POST between read and write, a crash holding a lease, an endpoint disabled or deleted meanwhile | one holder per delivery, exact attempts, circuit breaker, no orphans, every pending delivery settles |
| audit chain | one hash chain per org | record (inside callers' transactions), verify | concurrent appends, lock upgrades and deadlocks, failures between change and event | chains never fork or gap, change and event stand or fall together, tampering is located |
| report jobs | report row (queued, rendering, ready, failed), files, `running` flag | request, claim, render, store, mark, notify | crash while rendering, failure after the commit, file before row | ready is final, both hashes match the files, queued reports end |
| idempotency keys | key row (in progress, answered), request hash | claim, replay, complete, release, expire | two requests with one key, crash in between, failure after the effect | one effect per key, replays answer the same |
| team | membership (role), session, invite, e-mail link | set role, remove, leave, login, switch; invite, resend, revoke, accept, verify | role and membership checked before, used after; locks on owner rows | never without an owner, no session of a former member, an invite and a link work once |
| Travel Rule | transfer (status, reference), events | create, transition | two transitions from one status, stamps against commits | every history a legal path, in order of time |
| wallets, alerts | wallet (last activity), alerts, engine's cache | add, refresh, rescreen, remove, decide | a slow screen overtaken by a faster one, a wallet removed meanwhile | what is seen is told and alerted, nothing for a wallet that is gone |
| monitor | timer, batch, two workers | tick, rescreen | passes longer than the interval, a chain that is down | nothing checked twice at once, stale wallets reached |
| report figures | rows read by several queries | snapshot | rows change between the queries | what was so at the end of the period, however late it is computed |
| chain reads | per screen: sources, budgets, deadline | fetch, retry, page, give up | deadline, partial pages | an outcome in time that says what is missing |
| failover | shared `coolUntil` of endpoints | order, try, cool, warm | requests at the same time, a caller that gives up | fails only if all fail, an outage is routed around |
| risk engine | none (pure) | score, band, decide | floors, caps, windows, degraded input | contact never dilutes, behaviour alone is allowed |
| SDK transport | attempt, timers | request with retries | the retry of a POST that took effect | acts once, refusals are true, every call settles |
| receiver, signatures | seen events, secrets | verify, deduplicate, rotate, restart | tolerance window, rotation, duplicates | taken once, acknowledged means taken |
| dashboard | query cache, cookie, page and dialog state | thirteen pages, see below | late, lost and reordered answers; what is on screen changes under the user | what is shown is what was asked for and, at rest, what the API holds |

The components without a model are listed with their reasons under "Not modelled".

## Modules

| module | models |
| --- | --- |
| `DeliveryContract` | what a customer may rely on about one delivery |
| `WebhookOutbox`, `MCWebhookOutbox`, `WebhookOutboxProofs` | `webhooks.service.ts`, `dispatcher.service.ts`, `http-post.ts`; implements `DeliveryContract` |
| `AuditChain`, `MCAuditChain`, `AuditChainProofs` | `AuditService.record` in the transactions of its callers with Postgres' row locks, and `verify` |
| `ReportJobs`, `ReportJobsProofs` | `reports.service.ts`, `report-jobs.service.ts`, `storage.ts` |
| `Idempotency` | `common/idempotency.ts` |
| `SdkTransport` | a call of the SDK: attempts, timeouts, backoff, aborts |
| `Receiver` | a receiver of webhooks, signatures and secret rotation |
| `MCClient`, `ClientProofs` | the three before this line, one part each |
| `Members` | memberships of an org and the sessions that point at it |
| `Accounts` | sign-up, verification links, invites |
| `MCTeam`, `TeamProofs` | the two, one part each |
| `Watchlist` | one watched address: screens, cache, alerts |
| `Monitor` | the timer that rescreens |
| `MCBackground` | `Watchlist`, `Monitor` and `ReportJobs` without crashes, one part each |
| `RecordHistory` | what a record with a stamped history promises its readers |
| `TravelRule` | transfers, their references and transitions; implements `RecordHistory` |
| `AuditReport` | the figures of an audit report over two kinds of `RecordHistory` |
| `ScreenReads` | how one screen reads its chain under a deadline |
| `Failover` | requests over interchangeable endpoints |
| `RiskEngine` | the score as operators over a growing history |
| `MCServices`, `ServicesProofs` | the five before this line, one part each; the proofs of `Watchlist` too |
| `SecretPages` | the webhooks and the API keys page: a secret is shown once |
| `AuthPages` | sign-in and sign-out: session, cookie, cached account, edge check |
| `QueryCache` | the query cache in front of an API whose session belongs to an org |
| `ScreenPage` | the page that screens an address |
| `AlertQueue` | the queue of alerts, its detail and decisions |
| `TravelRuleWizard`, `TransferPage` | the form for a transfer, and the page of one |
| `TeamPage`, `SettingsPage` | members and roles; names and the alert switch |
| `ReportsPage` | reports that are polled until they are finished |
| `WalletScreening`, `WatchPages` | a wallet's screening and its evidence; watching and stopping |
| `VerifyPage` | the public page that checks a report by its hash |
| `MCOrgPages`, `OrgPagesProofs` | seven of these pages: secrets, sign-in, cache, team, settings and the two of Travel Rule |
| `MCDashboard`, `DashboardProofs` | all thirteen pages, one part each |

In every `MC` module that has a variable `part`, the parts share nothing: it chooses at
the start which one is explored, so that one run answers for all of them, and a
property of a part is a property of its behaviours. A module's head says what it
leaves out; `map` names the code of every definition.

### The outbox

A transaction that only touches rows it has locked is one action. Everything a
process remembers across transactions is a variable, so anything may happen between
an emit's read of the endpoints and its insert (`EmitRead`, `EmitInsert`), between
a claim and the attempts of the batch (`Claim`, `Load`), and between the read of a
delivery, the POST and the transaction that records its outcome (`Load`, `Post`,
`RecordSuccess`, `RecordFailure`). Clock times are kept only as far as the claim
looks at them: `next[d]` is due, later or never. `LeaseHolds` is a constant: TRUE
says that a process is done with a claimed row within the lease of two minutes. The
code makes that likely, not certain: a batch of 25 over 4 loops is at most 7 rounds of
one POST with a 10 s timeout, about 70 s plus database time. The runs and theorems
about exclusive claims, exact attempts and the contract assume it;
`outbox_liveness` and the theorems on the breaker and on orphans do not. The other end
is `Receiver`: it gets attempts twice, late or signed with the secret before. An
endpoint's stored secret that cannot be decrypted any more is left out: each of its
attempts would end before the POST.

### The audit chain

A tenant insert takes a key-share lock on the org's row through its foreign key, and
`record` locks that row `FOR UPDATE`. So a request that inserts first and records
later upgrades its lock, and two of them at once deadlock on Postgres: one is failed
(`Deadlocked`, `DeadlockAbort`). A service that locks the row before it writes anything
(invites, the org's name) is never part of one (`SerialisedAreSpared`). `Program` gives
each request its steps, and the model checks every interleaving of them with failures
at any step. Most services record in the transaction of the change; login, logout, a
new name in the profile and `report.failed` record in one of their own after it
(`Separate`). `LogTellsAll` says of both kinds that no event tells of a change that was
rolled back and that a change has its event, but for those that a failure between the
two transactions cuts off, which are never answered with success. The hash is any
operator `AuditHash`; the instances use the tuple of its inputs, which never
collides, and the theorem on tampering assumes exactly that much.

### Reports

Evidence and Travel Rule reports are rendered in their request: render, store both
files, then insert the ready row with its event (`StoreDraft`, `InsertReady`), again
with a new id when the reference is taken. Audit reports are inserted queued and
rendered by whichever runner claims them. The transactions and the file writes are
the actions; each of them can fail, a put half way, and a transaction also after it
has committed (only its answer is lost, `MarkReadyFails`). The claim, the read of the
claimed row and the two statements of the catch block are outside the `try`: a failure
there, or a claim whose answer is lost (`PassFails`, `ClaimUnanswered`), ends the pass
and leaves the report rendering, as a crash does. `EveryReportEnds` is therefore false
of the code and checked as what the code's own comment says (`reports_crash`);
`QueuedReportsEnd` is what holds: a queued report ends unless a runner lets go of it
while it renders, and each report let go of took a failure or a crash of its own
(`OnlyTroubleStrands`). A reference stands for all the bytes made from a snapshot that
contains it.

`AuditReport` is about the figures: the report of a period is computed by queries that
share no snapshot, while alerts and transfers go on changing. It replays their
histories up to the end of the period; that this gives the same figures whenever it is
done rests on what `RecordHistory` promises of both.

### Idempotency keys

The interceptor runs outside any transaction, so each of its statements is an action:
the sweep of an expired row, the insert that claims the key, the look-up of a repeat,
the store of the response and the delete of the catch block. The handler is one step
that has its effect or not, and may have it and still end in an error. A key may expire
at any moment, also while its request runs; `epoch` counts the sweeps of a key, so that
two requests are repeats of each other only within one period of validity. A request
stranded by a crash, by a failing delete or by the lost answer of its insert keeps its
row. A request that ends in an error after its effect frees the key, and a retry then
repeats the effect: `OneEffectPerKey` says that this is the only way to a second one.

### The team

In `Members` a transaction is split where another can come in between: the guard's read
of the requester's role (`AskRole`, `AskRemoval`), the lock of the member's row, the
locks of the owner rows one by one (`LockOwner`; a row that somebody else holds is
waited for and then looked at again), the count, the deletion of sessions, the commit.
`raced` marks sessions that a login or a switch made while a removal of their member
was under way: the code has no lock between the two, and `OnlyRacesLeaveSessions` says
that nothing else leaves a session behind. In `Accounts` an accept reads its invite,
hashes a password, and only then locks it.

### Wallets and the monitor

A screen of `Watchlist` is a look-up or a read of the chain and, after the answer has
come back, a transaction; several are under way at once, and the wallet can be removed
in between. A read of the chain that does not fail may still have missed transfers, the
newest or all of them (`ReadChain`): the engine goes on without sources that are down
when the address has labels of its own, and a source may have been cut short. So a row
goes back behind what the org was told not only when its last screen was overtaken but
also when that screen had seen less (`late`), and no more than that
(`BehindOnlyIfLate`). Alerts are kept apart as the code keeps them apart, by the code of
a reason (`Evidence`): a second transfer of the same risk raises none.

`Monitor` has the timer of one process (`running` is a field of the service, so another
process rescreens beside it), its query, which may fail (`QueryFails`), the batch of the
longest unchecked and two workers; ages count up to `MaxAge`, which is beyond the
longest wait the bounds allow, so `MonitorKeepsUp` cannot hide behind it.

### Chain reads, failover, score

`ScreenReads` counts time in units: a timer that is due fires before time goes on.
`Failover` has requests that share the endpoints' cool-downs. `RiskEngine` computes in
the integers the code rounds to; a history grows by the pages of `ChainPages` (in-and-
out just below 10,000, a single large payment, contact with a mixer or a sanctioned
party, a failed and a circular transfer, a burst), and the properties compare the
score before and after: what more contact, a worse label or a failed transfer may do.

### The dashboard

Each page is the state one tab holds: the page that is mounted, its dialogs, forms and
cached answers, and the requests under way. The handler of an answer is an action of
its own that runs in the closure of the component that sent the request, wherever the
user has gone; what it sets on an unmounted component is lost, what it does to the
router or to the cache is not. Answers may be lost or arrive in any order, and
colleagues act on the same rows. The API is part of each page's module as far as the
page sees it. Values are reduced to what the properties tell apart: a note is the
moment it was written, a screening its place in the list, a secret the number of its
minting.

What TanStack Query does matters where a property rests on it. Invalidating a query
asks again for what is on screen, in place of a request under way, but not in place of a
query's first request, which has nothing to show meanwhile: `ReportsPage` starts with
that request under way, and its answer can be older than a report asked for here
(`behind`). Clearing the cache tells no component on screen, so on the overview the
shell keeps an old org's rows until it is drawn again (`kept` in `QueryCache`). Hooks
invalidate less than the API changes: `Gap` in `QueryCache` names what is left as it
was, and `OwnWritesShow` holds for everything else. A failed refetch takes a form or a
detail off the screen with what was typed in it (`ListFails` in `AlertQueue`, `MeFails`
and `OrgFails` in `SettingsPage`). Of a note on a transfer there is its own text as far
as it has a line that begins as a confirmed hash's does (`own` in `TransferPage`),
because the code shows the first such line.

## Runs

| run | expects | shows |
| --- | --- | --- |
| `outbox_safety` | pass | two processes, three loops, two deliveries of one endpoint, one crash, one failed transaction, two updates, one removal: exclusive claims, exact attempts, no orphans, the circuit breaker while admins switch endpoints off and on, and the refinement of `DeliveryContract` |
| `outbox_liveness` | pass | what does not depend on the lease: with leases that lapse under a slow process, a crash and fairness, every pending delivery of an enabled endpoint is settled |
| `audit` | pass | password resets of two orgs crosswise, two screenings, an invite and a login, up to five at a time, one failure, every deadlock: no fork, no gap, change and event together or the login's request failed, tampering found and located, invites in no deadlock and every request answered |
| `reports_safety` | pass | two runners, two audit reports, one request, colliding references, one crash, two failures: rows, files, audit log and public verification agree |
| `reports_crash` | violation | a report whose process dies while rendering stays rendering for good |
| `reports_ready_fails` | violation | a report already committed, audited and announced as ready turns failed when its requester cannot be read |
| `team` | pass | role changes, removals, leaves, logins and switches of three people in two requests at once; invites and links of one address |
| `background` | pass | overtaking and incomplete screens of an address; the monitor with a wallet that always fails, failing queries, restarts and fairness; queued reports end but for those that a failure or a crash strands |
| `monitor_interval` | violation | a wallet that one tick rescreens is younger than the interval at the next: it is checked every second interval |
| `client` | pass | three repeats with one key, a call of the SDK, a receiver: one effect per key, true answers, true outcomes, everybody answered, events taken once |
| `services` | pass | chain reads, failover, scores, transfers and audit reports: what "Inventory" says makes each correct, and that `TravelRule` implements `RecordHistory` |
| `dashboard` | pass | the thirteen pages: secrets are shown once and to who asked, sign-in holds, the cache is honest, decisions land where they were made, pages catch up |

Every property has at least one mutant in `PROJECT.json`: a definition of the model
changed as a plausible bug would change it, which the property's run then refutes.

Properties that join several statements (`RowsTellAll`, `ScoreIsSound`, `PagesCatchUp`
and the like) do so because their parts belong to one claim; the parts are definitions
of their own with a comment each.

### Bounds

`outbox_*`: `MaxAttempts = 2` and `AutoDisableAfter = 2` stand for 10 and 20: the code
compares with them and indexes a table below the first, so two is the smallest value
at which a retry, the last attempt, one failure below the limit and the limit itself
all occur; the theorems hold for any values. In `outbox_safety` three loops over two
processes give both kinds of contention, within a process and between two, and one
crash, one failed transaction and two updates (off and on again) are each combined with
every other step. `outbox_liveness` has one loop in each process and one crash; for updates and failed transactions it has no room. One
endpoint is enough for TLC: two share nothing but the loops.

`audit`: two requests upgrade a lock (the screenings), two update users of both orgs
before they record, in opposite orders, one locks first and one records in a transaction
of its own; `Together` says which of them are made at the same time, so that each pair of
lock patterns meets, the two upgrades beside a first locker too. `reports_*`: two attempts are the smallest number that has a
retry and a last attempt, three references for three reports collide in every way, and
two failures let the catch block of a failure fail as well.

`client`: three requests are what a stale release takes: one that outlives its key, one
that claims it next and one that would find it freed; keys have nothing in common.
`MaxRetries = 2` has a first, a middle and a last retry. The receiver's clock runs to
3 with a tolerance of 1, so an attempt can be fresh, at the edge and too late, before
and after the one rotation and the one restart.

`team`: three people are needed for an owner, another and a third who acts on either;
two requests at once are what every race here takes; two sessions. Roles are admin and
owner: the code compares ranks, and these two are the ones its rules tell apart.

`background`: two screens at once, with others to come after them, two transfers, of which
one category of risk has both and another the older alone (so that a screen that missed
the newer one has a reason, and one that missed both has none), one label of the address'
own, two rows for an address removed and watched again. Three wallets in batches of two
leave one over, and one of them always fails. Two queued reports, one crash and two
failures: one strands a report, and with two the catch block of the other fails too;
requests for evidence are left out there (`Posts`), since they meet no queue.

`services`: two pages are a first and a further one; the deadline leaves room for a
retry and not for two; two endpoints and three requests at once; histories of up to
four pages; two transfers, two references and two workers; one alert, one transfer,
two reports of one period for the figures.

`dashboard`: each page has the smallest number of requests under way at which answers
can overtake each other (two), two or three of what it lists, and one or two acts of a
colleague. `MaxRequests`, `MaxForms`, `MaxWrites`, `MaxSteps`, `MaxNotes`, `MaxTurns`,
`MaxSubmits`, `MaxChanges`, `MaxActs`, `MaxColleague`, `MaxReports`, `MaxFlows`,
`MaxRuns`, `MaxChecks`, `MaxSends` and `MaxOthers` name these bounds, each in its
module. `ListLimit = 2` stands for the 100 reports that the API lists, so that one falls
off the end of the list, and `Lines` has one hash that the text of a note may name.
`MCDashboard` starts with one of several interchangeable orgs, names, members
and, on the team page, viewers and analysts: the other choices differ by a renaming.

`CHECK_DEADLOCK` is off only in runs whose bounded actions may all be used up, where a
behaviour simply ends; it is on in the outbox, audit and report runs.

### Fairness

`WebhookOutbox`: the interval timer calls `tick` again and again, a POST ends by its
timeout, and clocks advance, so claims, loops, the end of a pass and the end of a lease
are weakly fair; users, crashes and database failures are not. `AuditChain`: Postgres
carries on with some transaction that waits for nobody, or ends a deadlock, as long as
there is one.
`ReportJobs`, `Monitor`: the intervals tick and a runner or worker goes on with what it
has begun; requests, failures and crashes are not fair. `Idempotency`: a process goes on
with the requests it has, with no claim about which outcome a statement has.
`SdkTransport`: timers fire and the client sends; of the server nothing is asked.
`ScreenReads`: timers and time. The dashboard is stated as safety: what must hold once
nothing is under way is said of the states in which nothing is (`PagesCatchUp`), so
that no fairness of a user or a network is assumed.

## Proofs

All of them hold for every value of the constants under the named assumptions of
the modules or of the theorem.

`WebhookOutboxProofs`. `TypeCorrect` rests on `HeldRowsExist`: a row in a process's
hands was inserted and was below its last attempt when read, without which the count
written back could pass the limit. `CircuitBreakerWorks` and `NoOrphanDeliveries`
add `FreshEndpoints`; `RowsStaySound` joins types and references. `OneHolderOnly` needs
`LeaseProtects`: what is held is not due, and what a loop has read is still what the row
says; it is inductive only under `LeaseHolds`. On it rest `AttemptsCounted`, whose step
cases count the loops that hold an unrecorded outcome (`AddOne`, `TakeOne`,
`SplitWorkers`), and `ContractKept`, which maps each step to a step of
`DeliveryContract` or a stutter.

`AuditChainProofs`. The chain property alone is not inductive: an insert appends the
successor of what `record` has read some steps earlier. `ChainInv` adds that one
request at most holds an org's row, and that whoever is past the lock of `record` or
has events in hand holds it (`OneHolder`); that what was read is still the newest
visible event (`ReadIsCurrent`); and that committed events together with any one
request's own form a chain (`EverySightVerifies`). From it follow `ChainsVerify`,
`NoCollision` and, given a hash that does not collide, `TamperingShows`.
`LogIsComplete` covers the services that record after their change was committed as well;
of a program it assumes that an event comes after the change it tells of
(`AuditsAfterChange`) and that only those named in `Separate` commit in between
(`OnlySeparateRecordApart`). `LogInv` ties what a transaction has changed and recorded so
far to the steps of its program: a request that has passed a `record` has its event in
what it sees, so that one that is done, or that is not of `Separate` and has committed
its change, has it in every log concerned. `FirstLockersAreSpared` assumes of the requests
in `Serialised` that they lock their one org first (`SerialisedLockFirst`): such a request
holds either the row alone or nothing at all (`LocksInv`), so that of any cycle of waits
it could only be a member that nobody waits for. `TamperingIsLocated` is about
`verify` itself, which sorts a chain by `seq` and walks it: in whatever one request can
see of an org the events are numbered from 1 without a gap (`EverySightIsNumbered`), so
that the order `verify` reads is the order of the ranks (`ChainInOrder`), a chain fits
all along (`ChainFits`), and after one event is altered, forged or taken out the first
place that does not fit is the one the property names. It needs that the hash is
injective for one place of the chain; without that a forged event can hide.

`ReportJobsProofs`. A ready row matches its files only because nobody else writes
them: `ReportInv` says what each row, each runner and each request in between has
(`RowIsSound`, `RunnerHolds`, `RequestHolds`) and that no two share a report or a
reference (`NoSharing`). A step changes one report at most, so `RunnerStep` and
`RequestStep` leave only that report and that actor to be shown for each action.
`ServedIsHashed`, `VerificationFinds`, `RenderedAtMostOnce`, `LogAgreesWithRows` and
the action property `MovesForward` follow. `HangingTakesTrouble` proves the safety part
of `QueuedReportsEnd`: a report that is rendering is in a runner's hands or was let go
of, and there were at least as many crashes and failures as reports let go of.

`ClientProofs`, idempotency keys. Whoever holds a key (has claimed it and not released it) has its
row unless a sweep took it, and the sweep starts a new period: so a new claim finds no
holder of its own period, and no two ever share one (`HolderIsSound`, `HoldersDiffer`,
`RowIsSound` in `IdempotencyInv`). `OnceInAPeriod`, `AnswersAreThoseOfTheFirst`,
`ErrorsFreeTheKey` and `KeysStayHonest` follow for any number of requests, failures and
crashes.

`TeamProofs`, members. That an org keeps an owner is not inductive: between the count of the
owners and the commit others may go. `MembersInv` adds that a request that decides on a
member holds the member's row (`TargetIsHeld`), and that one past the count, if its
member is an owner, holds the row of another owner too (`AnotherOwnerIsHeld`), which is
where the count of two is used. For the sessions it adds that a removal has listed all
of them but the ones marked as raced (`NewcomersAreRaced`), that what it listed and
what a switch moves stays locked (`DoomedAreLocked`, `MovedIsLocked`), and that a
switch knows whose session it moves (`MoverKnowsTheUser`). `OwnersDecide` rests on the
role not changing between the refusal check and the commit (`RefusedWhenLocked`).

`TeamProofs`, accounts. `JoiningVerifies`, `VerifiedOnce` and `SecondInviteWasRevived`
are inductive with the types; `SettledStaysSettled` follows from the second look at the
invite once it is locked. `TeamDecisionsHold` is about the two parts together, as the
run `team` checks them (`TeamStep`: a step is one part's or a stutter). It assumes
`NoneIsNothing` of the value that stands for no member, session or invite.

`ServicesProofs`, watchlist. That a row is behind what was told only when its last screen was
overtaken or had missed something needs that any other screen saw at least what has been
told (`SawAllUnlessBehind`), which holds when it reads the chain because nothing is ahead
of the chain (`NothingAheadOfTheChain`) and stays so because whoever tells more marks
the others. A rescreen counts as news what is newer than the row it began from, and
that was told (`KnownWasTold`). That every row has an alert for each label of its address
needs that every result has those labels, however much of the chain it missed
(`EveryResultHasTheLabels`).

`ClientProofs`, a call of the SDK. As long as no attempt was given up that may still be handled
(`NoneGivenUp`), at most the present attempt is under way, and one that is had no
effect so far (`AtMostOneUnderWay`): so a retry starts from no effect. A POST that
times out is not retried, and a refusal had no effect, which keeps this. `NoResponse`
says that no answer of a server is the value for none.

`ClientProofs`, receiver. `ReceiverIsSound` rests on `ReceiverInv`: what has been seen
or acknowledged was taken (`SeenIsTaken`), so that ignoring a repeat loses nothing; an
event that is being handled, or was not seen by this run, has been handled by earlier
runs only (`NotYetHandled`); and a post signed since the last rotation carries the
sender's present secret (`SignedSinceRotation`).

`ServicesProofs`, Travel Rule. `TransfersInv` says of the requests that are under way
what the row's lock and the unique reference give: a transaction that creates a transfer is
the only one on it and finds no row (`CreatorIsAlone`), one that changes it holds a row whose status still
allows the change it has decided on (`MoverIsAlone`), and its stamp is not before any
event already shown (`StampsAreLatest`). `HistoriesAreSound` gives the legal path and
its order from it, and the refinement: the row's transaction under way is
`RecordHistory`'s change under way, each step of a worker one of its steps or a
stutter (`RecordsStep`). That no two workers have a change of one transfer under way
is what makes the refinement mapping's `CHOOSE` a function (`BusyAlone`, `PendingIs`).

`ServicesProofs`, audit report. That a finished report agrees with the end of the
period is not inductive while the rows go on changing. `ReportInv` adds that histories
grow in the order of their stamps (`InOrder`, kept by `RecordHistory`'s steps); that
the status of the history variable is the last one shown before the end
(`LastBeforeEnd`), and the number of closes the number of places in the histories
(`ClosesAreCounted`, with the cardinality of a set that grows by one); and what a
report that is under way has read so far (`ReportSoFar`). The heart is `PastIsFixed`:
once the period is over and nothing stamped in it is still to commit, no step changes
any of the figures, because a history can only grow behind them (`SettledAlert`,
`SettledTransfer`). `ReportsAreTrue` follows for any period and any number of alerts
and transfers. `NothingIsNone` and `ReportAssumption` (an alert is no transfer, the
period's ends are instants) are its assumptions.

`OrgPagesProofs` and `DashboardProofs`. Each page has an inductive invariant at the end
of its own module (`QueueInv`, `ScreenInv`, `VerifyInv`, `TeamInv`, `WizardInv`,
`TransferInv`, `AuthInv`, `CacheInv`, `SecretsInv`, `SettingsInv`, `ReportsInv`,
`WalletInv`, `WatchInv`). `OrgPagesProofs` shows of seven pages, and `DashboardProofs` of
the others, that the invariant holds at first, is kept by every step of the page and
gives the page's properties; since no step leaves a part for another (`PartStays`), the
theorems put them together. What a page shows is never inductive alone: what it will
show depends on the requests, answers and handlers under way.

- `DecisionsArrive`: what a form, a request or an answer carries was written for the
  alert it goes to (`NoteFor`, `CarriesItsOwn`), and a status was chosen there with it
  (`Kept`).
- `AskedIsShown`: a run answers with a screening of its own subject (`RunSound`), and a
  result's number names one (`ScreenSound`); of the requests for a hash the panel
  follows the newest (`NewestIsFollowed`), and the last file picked is still to come or
  has been asked for (`LastIsAwaited`).
- `TeamIsAgreed`: a cached role or list is the API's, or an acknowledged change, a
  request or its answer will bring that (`MeSound`, `ListSound`); a change that was
  fairly offered is still allowed while it is on its way (`ActSound`).
- `FormsAndPagesAgree`: no step before the shown one has an error
  (`EarlierAreComplete`), a form that may be sent again uncounted has saved nothing
  (`DraftsAreCounted`), a history goes down one of the two paths (`Past`), and a copy is
  the transfer or will be (`CopySound`).
- `GuardLetsIn`: an answer of "signed out", cached or on its way, is right but for an
  excuse (`LooksSignedOut`).
- `CacheIsTrue`: cached answers and fetches are of the session's org (`OfTheSession`),
  and what does not know an acknowledged write that it should show (`Shows`) will be asked
  for again (`WritesFollow`).
- `SecretsStayShown`: a secret has one owner (`OwnersKnown`), dialogs send one request of
  a kind at a time (`Calm`), and what a rotation brings is in force unless nobody waits
  for a later one (`RotationsWork`).
- `PagesTell`: moves of the switch that have not crossed form a chain, each from what the
  one before would make it (`InOrder`), and a name is fetched again or known, or its last
  request failed (`FormsFollow`); an answer about reports is right but for those still
  pending (`Follows`), unless the list is behind; runs that never overlap are answered in order (`OneByOne`); what a list
  lacks it will be told (`WillTell`).

They assume what the code gives: bounds are numbers, the value for none is neither a
number nor a name of something else (`BoundsAreNumbers`, `NoneIsNoNumber`,
`NoneIsNoRequest`, `AnswersAreNoOrgs`, `OrgsAreNoWrites`), a team is finite and has
its user in it (`TeamIsFinite`), there are endpoints and secrets (`SomeSecrets`).

Two attempts failed because a property's excuse was too narrow beyond the bounds of the
run. With three switches of the org, one that is answered after a later one puts the
account of an org the session has left in the cache: such an answer (`Settled` in
`QueryCache`) now counts as a session moved behind the tab's back. With three moves of
the alert switch, one made from what an older answer shows while a newer move is under
way may be put back to a value the API has left: it now counts as crossed (`Toggle` in
`SettingsPage`). Both are what the code does.

Only model-checked: the liveness properties (`Settles`, `EveryRequestEnds`,
`MonitorKeepsUp`, `QueuedReportsEnd`, `EverybodyIsAnswered`), since fairness and
ENABLED are out of the prover's reach, though the safety parts of `DeadlocksAreBroken`
and `QueuedReportsEnd` are proved; `ScreenIsHonest` and `FailoverIsFair`, which
state liveness together with safety; and `ScoreIsSound`, since scores are folds over sequences, where
induction over data would be needed.

## Disagreements with the code's own words

Three have a run, see `findings` in `PROJECT.json`. The others were met while modelling
and are written down here because a maintainer will want to know of them; the models
follow the code, and no property contradicts it.

API, engine and SDK:

- README.md:128 of the API says that deliveries of a disabled endpoint wait; those
  already claimed are sent (`dispatcher.service.ts:114`).
- README.md:108 of the API says each append is in the transaction of its change; those of
  a login, a logout, a new name in the profile and a failed report are not
  (`auth.service.ts:81-88`, `114-115`, `reports.service.ts:293-298`).
- A screen that had sources down writes back an older last activity, or none, than the
  org was told of (`wallets.service.ts:146`, `screen.ts:35`).
- `reports.service.ts:244-262`: a failure between the claim and the `try` leaves a report
  rendering for good, as a crash does.
- `invites.service.ts:138`: an expired invite that is sent again becomes a second
  pending one although `create` allows one.
- `schema.ts:399` says a key's response is null while the first request runs; after a
  crash it is null for 24 hours and nothing runs.
- `sdk/http.ts:174`: a POST whose connection is cut after it was sent is retried, and
  may act twice without an idempotency key.

Dashboard:

- Webhooks page: the answer of a second rotation replaces the secret on screen, which
  the comment of the secret dialog says only "I've saved it" closes.
- `proxy.ts:3-6`: a session that ended while its cookie stayed leaves the tab on the
  skeleton; so does leaving the org.
- `lib/queries.ts`: a transition does not invalidate the overview, a new name neither the
  members' list nor the notes of alerts, nothing the audit page, and only the webhooks
  page the deliveries (which are polled there); switching the org on the overview leaves
  the old org's rows on screen until a component is drawn again.
- Alerts page: a late answer takes the analyst back to the list or off another alert;
  it empties a note written meanwhile; escalating and then closing sends one note twice.
- Wallet pages: a late answer to stopping leads away from wherever the user is; one to
  watching closes a dialog that was opened again; "already watching" after a lost answer
  fetches nothing again; a refresh stores no screening, so the reasons on the page can
  be of an older one than the score; a second click on the evidence button screens again.
- Screening page: searching the same address again after an error runs nothing.
- New transfer: submitting again after a lost answer saves a second draft; the router
  leaves the form without its prompt; a USD value filled in from a stablecoin stays
  when the asset changes; a server's field error can jump past unchecked steps.
- Transfer page: a line of the note that begins with "Tx hash: " is shown in place of the
  hash the settlement was confirmed with; a refusal leaves the copy stale; a late answer closes a dialog that was
  opened again; a hash given at creation hides the one of the settlement.
- Team page: the confirm dialog is not looked at again when the list changes, and an
  older answer closes it.
- Settings: the alert switch stays wrong after answers out of order, after a lost one or
  after a profile save in between; a colleague's rename empties a form half typed.
- Reports: a report asked for while the list loads for the first time may be missing from
  it and is then not polled; one `retryingId` for all rows; the parameters of a retry are not remembered;
  a report that fails after it was ready is not seen (`ReportJobs` shows that it can).
- Report verification: files are hashed side by side, and the one whose hash comes last
  takes the panel, whichever was picked last; "no match" names no file.

## Not modelled

Report templates, drawing and formatting, the OpenAPI document and the API contract
(schemas and static descriptions), NestJS wiring and configuration, the health check,
mail (it formats and logs), the labels index (a constant), Stellar and address
encodings (parsers with their own property tests), webhook address checks and AES-GCM
(arithmetic without protocol state), marketing pages and deployment files: they keep no
state that several steps or actors could bring out of order. Migrations are generated.

Partly: the size limit of the engine's cache (its entries may be forgotten at any time
in `Watchlist`, which covers eviction); the normalisation of an explorer's records and
the wording of reasons; profile updates and reset tokens; the figures of the overview,
and the snapshots of evidence and Travel Rule reports, which copy one record; the
field checks and lists of the dashboard's pages, the invites on the team page and the
audit page, whose table is drawn from one answer.
