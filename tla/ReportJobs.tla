------------------------------ MODULE ReportJobs ------------------------------
(***************************************************************************)
(* Compliance reports of apps/api.  Evidence and Travel Rule reports are   *)
(* rendered inside their request (renderNow); audit reports are queued and *)
(* rendered by the ReportJobs runner of some API process (renderQueued).   *)
(*                                                                         *)
(* Simplifications.                                                        *)
(*   - A snapshot contains its report's reference, so the reference stands *)
(*     for the contents of both artifacts, and of what their hashes cover. *)
(*   - The oldest queued report is claimed first; any one is here.         *)
(*   - The audit events report.generated and report.failed are counted;    *)
(*     report.ready is emitted in the transaction of the former.           *)
(***************************************************************************)
EXTENDS Naturals, FiniteSets, TLC

CONSTANTS
  Audits,       (* report ids of queued audit reports                       *)
  Drafts,       (* report ids that renderNow draws, one for every attempt   *)
  References,   (* references newReportReference may draw                   *)
  Instances,    (* API processes, each with one ReportJobs                  *)
  Requests,     (* requests for a report that is rendered at once           *)
  None,         (* no reference, no report, no bytes                        *)
  RefAttempts,  (* REFERENCE_ATTEMPTS                                       *)
  MaxCrashes,   (* bound on process crashes                                 *)
  MaxFailures   (* bound on failing statements, renders and file writes     *)

Reports == Audits \cup Drafts
Kinds == {"pdf", "json"}

ASSUME IdsAssumption ==
  /\ Audits \cap Drafts = {}
  /\ None \notin Reports /\ None \notin References
ASSUME LimitsAssumption ==
  RefAttempts \in Nat \ {0} /\ MaxCrashes \in Nat /\ MaxFailures \in Nat

VARIABLES
  status,     (* status[r]: the row's status, "none" before the insert      *)
  ref,        (* ref[r]: the row's reference                                *)
  sha,        (* sha[r]: contents that pdf_sha256 and json_sha256 cover     *)
  files,      (* files[r][k]: contents of artifact k in the storage         *)
  generated,  (* generated[r]: report.generated events                      *)
  failed,     (* failed[r]: report.failed events                            *)
  pc,         (* pc[i]: where the runner of i is                            *)
  job,        (* job[i]: the report it has claimed                          *)
  phase,      (* phase[q]: where request q is                               *)
  attempt,    (* attempt[q]: references that q has drawn                    *)
  draft,      (* draft[q]: id and reference of q's present attempt          *)
  renders,    (* history: how often r was rendered                          *)
  stranded,   (* history: reports let go of while they say rendering        *)
  crashes, failures  (* counters for the bounds                             *)

rowVars     == <<status, ref, sha>>
logVars     == <<generated, failed>>
runnerVars  == <<pc, job>>
requestVars == <<phase, attempt, draft>>
histVars    == <<renders, stranded>>
boundVars   == <<crashes, failures>>
vars == <<rowVars, files, logVars, runnerVars, requestVars, histVars, boundVars>>

NoFiles == [k \in Kinds |-> None]
NoDraft == [id |-> None, ref |-> None]

Init ==
  /\ status = [r \in Reports |-> "none"]
  /\ ref = [r \in Reports |-> None]
  /\ sha = [r \in Reports |-> None]
  /\ files = [r \in Reports |-> NoFiles]
  /\ generated = [r \in Reports |-> 0]
  /\ failed = [r \in Reports |-> 0]
  /\ pc = [i \in Instances |-> "idle"]
  /\ job = [i \in Instances |-> None]
  /\ phase = [q \in Requests |-> "drawing"]
  /\ attempt = [q \in Requests |-> 0]
  /\ draft = [q \in Requests |-> NoDraft]
  /\ renders = [r \in Reports |-> 0]
  /\ stranded = {}
  /\ crashes = 0 /\ failures = 0

Fail == failures < MaxFailures /\ failures' = failures + 1

(* The unique index on reports.reference. *)
AnyReference(n) == TRUE
UnusedReference(n) == \A r \in Reports : ref[r] # n

-----------------------------------------------------------------------------
(* The storage: both artifacts are written at once, with the flag wx.       *)

Present(r) == \E k \in Kinds : files[r][k] # None

(* A failed put leaves one artifact, none, or (its error came too late) both*)
Put(r, contents) ==
  /\ ~Present(r)
  /\ files' = [files EXCEPT ![r] = [k \in Kinds |-> contents]]
PutFails(r, contents) ==
  IF Present(r)
    THEN UNCHANGED <<files, failures>>
    ELSE /\ Fail
         /\ \E K \in SUBSET Kinds :
              files' = [files EXCEPT ![r] = [k \in Kinds |-> IF k \in K THEN contents ELSE None]]

-----------------------------------------------------------------------------
(* A report rendered in its request: renderNow and persistReady.            *)

Draw(q, id, n) ==
  /\ phase[q] = "drawing"
  /\ renders[id] = 0 /\ \A p \in Requests : draft[p].id # id
  /\ attempt' = [attempt EXCEPT ![q] = @ + 1]
  /\ draft' = [draft EXCEPT ![q] = [id |-> id, ref |-> n]]
  /\ phase' = [phase EXCEPT ![q] = "rendering"]
  /\ UNCHANGED <<rowVars, files, logVars, runnerVars, histVars, boundVars>>

CountRender(r) == renders' = [renders EXCEPT ![r] = @ + 1] /\ UNCHANGED stranded

StoreDraft(q) ==
  /\ phase[q] = "rendering"
  /\ Put(draft[q].id, draft[q].ref)
  /\ CountRender(draft[q].id)
  /\ phase' = [phase EXCEPT ![q] = "stored"]
  /\ UNCHANGED <<rowVars, logVars, runnerVars, attempt, draft, boundVars>>

(* The request fails with whatever went wrong. *)
GiveUp(q) ==
  /\ phase' = [phase EXCEPT ![q] = "refused"]
  /\ draft' = [draft EXCEPT ![q] = NoDraft]
  /\ UNCHANGED <<failed, runnerVars, attempt, crashes>>

StoreDraftFails(q) ==
  /\ phase[q] = "rendering"
  /\ PutFails(draft[q].id, draft[q].ref)
  /\ CountRender(draft[q].id)
  /\ GiveUp(q)
  /\ UNCHANGED <<rowVars, generated>>

(* The row, its hashes and the report.generated event, in one transaction.  *)
InsertRow(q) ==
  LET r == draft[q].id n == draft[q].ref IN
  /\ UnusedReference(n)
  /\ status' = [status EXCEPT ![r] = "ready"]
  /\ ref' = [ref EXCEPT ![r] = n]
  /\ sha' = [sha EXCEPT ![r] = n]
  /\ generated' = [generated EXCEPT ![r] = @ + 1]

InsertReady(q) ==
  /\ phase[q] = "stored"
  /\ InsertRow(q)
  /\ phase' = [phase EXCEPT ![q] = "created"]
  /\ draft' = [draft EXCEPT ![q] = NoDraft]
  /\ UNCHANGED <<files, failed, runnerVars, attempt, histVars, boundVars>>

(* The reference is taken: start over with a new id and a new reference.    *)
AttemptsLeft(q) == attempt[q] < RefAttempts

ReferenceTaken(q) ==
  /\ phase[q] = "stored"
  /\ ~UnusedReference(draft[q].ref)
  /\ phase' = [phase EXCEPT ![q] = IF AttemptsLeft(q) THEN "drawing" ELSE "refused"]
  /\ draft' = [draft EXCEPT ![q] = NoDraft]
  /\ UNCHANGED <<rowVars, files, logVars, runnerVars, attempt, histVars, boundVars>>

(* The transaction rolls back, or only the answer of its commit is lost.    *)
InsertFails(q) ==
  /\ phase[q] = "stored"
  /\ Fail
  /\ InsertRow(q) \/ UNCHANGED <<rowVars, generated>>
  /\ GiveUp(q)
  /\ UNCHANGED <<files, histVars>>

-----------------------------------------------------------------------------
(* The queue of audit reports.                                              *)

(* enqueueAudit; an attempt that draws a taken reference changes nothing.   *)
EnqueueAudit(r, n) ==
  /\ status[r] = "none"
  /\ UnusedReference(n)
  /\ status' = [status EXCEPT ![r] = "queued"]
  /\ ref' = [ref EXCEPT ![r] = n]
  /\ UNCHANGED <<sha, files, logVars, runnerVars, requestVars, histVars, boundVars>>

Goto(i, where) == pc' = [pc EXCEPT ![i] = where]

(* The interval, or a poke; a pass that is under way makes it a no-op.      *)
Tick(i) ==
  /\ pc[i] = "idle"
  /\ Goto(i, "claiming")
  /\ UNCHANGED <<rowVars, files, logVars, job, requestVars, histVars, boundVars>>

(* The next report of the pass; FOR UPDATE SKIP LOCKED serialises claims.   *)
StatusKept == "queued"
StatusOnClaim == "rendering"

ClaimQueued(i, r) ==
  /\ pc[i] = "claiming"
  /\ status[r] = "queued"
  /\ status' = [status EXCEPT ![r] = StatusOnClaim]
  /\ job' = [job EXCEPT ![i] = r]
  /\ Goto(i, "claimed")
  /\ UNCHANGED <<ref, sha, files, logVars, requestVars, histVars, boundVars>>

(* The claim is committed and its answer is lost: tick's catch ends the pass*)
(* and nobody knows of the claim.                                           *)
ClaimUnanswered(i, r) ==
  /\ pc[i] = "claiming"
  /\ status[r] = "queued"
  /\ Fail
  /\ status' = [status EXCEPT ![r] = StatusOnClaim]
  /\ stranded' = stranded \cup {r}
  /\ Goto(i, "ending")
  /\ UNCHANGED <<ref, sha, files, logVars, job, requestVars, renders, crashes>>

(* renderQueued reads the claimed row before its try block.                 *)
ReadRow(i) ==
  /\ pc[i] = "claimed"
  /\ Goto(i, "rendering")
  /\ UNCHANGED <<rowVars, files, logVars, job, requestVars, histVars, boundVars>>

(* What was queued after the empty read waits for the next tick.            *)
NothingQueued(i) ==
  /\ pc[i] = "claiming"
  /\ \A r \in Reports : status[r] # "queued"
  /\ Goto(i, "ending")
  /\ UNCHANGED <<rowVars, files, logVars, job, requestVars, histVars, boundVars>>

RunningNotReset(i) == pc[i] = "ending" /\ UNCHANGED vars
EndTick(i) ==
  /\ pc[i] = "ending"
  /\ Goto(i, "idle")
  /\ UNCHANGED <<rowVars, files, logVars, job, requestVars, histVars, boundVars>>

Store(i) ==
  /\ pc[i] = "rendering"
  /\ Put(job[i], ref[job[i]])
  /\ CountRender(job[i])
  /\ Goto(i, "stored")
  /\ UNCHANGED <<rowVars, logVars, job, requestVars, boundVars>>

StoreErrorSwallowed(i) ==
  /\ pc[i] = "rendering"
  /\ PutFails(job[i], ref[job[i]])
  /\ CountRender(job[i])
  /\ Goto(i, "stored")
  /\ UNCHANGED <<rowVars, logVars, job, requestVars, crashes>>

(* The snapshot, the rendering or the storage fails.                        *)
StoreFails(i) ==
  /\ pc[i] = "rendering"
  /\ PutFails(job[i], ref[job[i]])
  /\ CountRender(job[i])
  /\ Goto(i, "failing")
  /\ UNCHANGED <<rowVars, logVars, job, requestVars, crashes>>

WriteReady(r) ==
  /\ status' = [status EXCEPT ![r] = "ready"]
  /\ sha' = [sha EXCEPT ![r] = ref[r]]
  /\ generated' = [generated EXCEPT ![r] = @ + 1]

MarkReady(i) ==
  /\ pc[i] = "stored"
  /\ WriteReady(job[i])
  /\ Goto(i, "notifying")
  /\ UNCHANGED <<ref, files, failed, job, requestVars, histVars, boundVars>>

(* The transaction rolls back, or only its answer is lost.                  *)
MarkReadyFails(i) ==
  /\ pc[i] = "stored"
  /\ Fail
  /\ WriteReady(job[i]) \/ UNCHANGED <<status, sha, generated>>
  /\ Goto(i, "failing")
  /\ UNCHANGED <<ref, files, failed, job, requestVars, histVars, crashes>>

NextJob(i) == Goto(i, "claiming") /\ job' = [job EXCEPT ![i] = None]

NotifyRequester(i) ==
  /\ pc[i] = "notifying"
  /\ NextJob(i)
  /\ UNCHANGED <<rowVars, files, logVars, requestVars, histVars, boundVars>>

(* The requester cannot be read: the try block fails as a whole.            *)
NotifyFails(i) ==
  /\ pc[i] = "notifying"
  /\ Fail
  /\ Goto(i, "failing")
  /\ UNCHANGED <<rowVars, files, logVars, job, requestVars, histVars, crashes>>

(* The catch block of renderQueued; the row is written whatever it says.    *)
MarkFailedUnlessReady(i) ==
  /\ pc[i] = "failing"
  /\ status' = [status EXCEPT ![job[i]] = IF @ = "ready" THEN @ ELSE "failed"]
  /\ Goto(i, "recording")
  /\ UNCHANGED <<ref, sha, files, logVars, job, requestVars, histVars, boundVars>>
WriteFailed(r) == status' = [status EXCEPT ![r] = "failed"]
MarkFailed(i) ==
  /\ pc[i] = "failing"
  /\ WriteFailed(job[i])
  /\ Goto(i, "recording")
  /\ UNCHANGED <<ref, sha, files, logVars, job, requestVars, histVars, boundVars>>

WriteFailure(r) == failed' = [failed EXCEPT ![r] = @ + 1]
RecordFailed(i) ==
  /\ pc[i] = "recording"
  /\ WriteFailure(job[i])
  /\ NextJob(i)
  /\ UNCHANGED <<rowVars, files, generated, requestVars, histVars, boundVars>>

(* The runner forgets the report it has claimed. *)
LetGo(i) ==
  /\ job' = [job EXCEPT ![i] = None]
  /\ stranded' = stranded \cup {r \in {job[i]} \ {None} : status'[r] = "rendering"}

(* A statement outside of renderQueued's try block fails and tick's catch   *)
(* ends the pass: the claim, the read of the claimed row, and the two       *)
(* statements of renderQueued's own catch block, each rolled back or, if it *)
(* writes, with only its answer lost.  The queue waits for the next tick.   *)
PassFails(i) ==
  /\ Fail
  /\ \/ pc[i] \in {"claiming", "claimed", "failing", "recording"} /\ UNCHANGED <<status, failed>>
     \/ pc[i] = "failing" /\ WriteFailed(job[i]) /\ UNCHANGED failed
     \/ pc[i] = "recording" /\ WriteFailure(job[i]) /\ UNCHANGED status
  /\ Goto(i, "ending")
  /\ LetGo(i)
  /\ UNCHANGED <<ref, sha, files, generated, requestVars, renders, crashes>>

(* The process dies: its runner forgets its report, and some files may have *)
(* been written.                                                            *)
Crash(i) ==
  /\ crashes < MaxCrashes
  /\ crashes' = crashes + 1
  /\ Goto(i, "idle")
  /\ \/ UNCHANGED <<files, renders>>
     \/ /\ pc[i] = "rendering"
        /\ ~Present(job[i])
        /\ renders' = [renders EXCEPT ![job[i]] = @ + 1]
        /\ \E K \in SUBSET Kinds :
             files' = [files EXCEPT ![job[i]] =
                         [k \in Kinds |-> IF k \in K THEN ref[job[i]] ELSE None]]
  /\ UNCHANGED <<rowVars, logVars, requestVars, failures>>
  /\ LetGo(i)

-----------------------------------------------------------------------------
Render(i) == \/ ReadRow(i) \/ Store(i) \/ StoreFails(i) \/ MarkReady(i) \/ MarkReadyFails(i)
             \/ NotifyRequester(i) \/ NotifyFails(i) \/ MarkFailed(i) \/ RecordFailed(i)
Run(i) == Tick(i) \/ (\E r \in Reports : ClaimQueued(i, r)) \/ NothingQueued(i) \/ EndTick(i)
            \/ Render(i)
Request(q) == \/ \E id \in Drafts, n \in References : Draw(q, id, n)
              \/ StoreDraft(q) \/ StoreDraftFails(q)
              \/ InsertReady(q) \/ ReferenceTaken(q) \/ InsertFails(q)

Next ==
  \/ \E q \in Requests : Request(q)
  \/ \E r \in Audits, n \in References : EnqueueAudit(r, n)
  \/ \E i \in Instances : \/ Run(i) \/ PassFails(i) \/ Crash(i)
                          \/ \E r \in Reports : ClaimUnanswered(i, r)

Spec == Init /\ [][Next]_vars

(* The interval keeps ticking and a runner goes on with what it has begun.  *)
FairSpec == Spec /\ \A i \in Instances : WF_vars(Run(i))

-----------------------------------------------------------------------------
TypeOK ==
  /\ status \in [Reports -> {"none", "queued", "rendering", "ready", "failed"}]
  /\ ref \in [Reports -> References \cup {None}]
  /\ sha \in [Reports -> References \cup {None}]
  /\ files \in [Reports -> [Kinds -> References \cup {None}]]
  /\ generated \in [Reports -> Nat]
  /\ failed \in [Reports -> Nat]
  /\ pc \in [Instances -> {"idle", "claiming", "claimed", "rendering", "stored", "notifying",
                           "failing", "recording", "ending"}]
  /\ job \in [Instances -> Reports \cup {None}]
  /\ phase \in [Requests -> {"drawing", "rendering", "stored", "created", "refused"}]
  /\ attempt \in [Requests -> 0..RefAttempts]
  /\ draft \in [Requests -> [id : Drafts \cup {None}, ref : References \cup {None}]]
  /\ renders \in [Reports -> Nat]
  /\ stranded \subseteq Audits
  /\ crashes \in 0..MaxCrashes /\ failures \in 0..MaxFailures

(* The bytes a ready report serves are those its row's hashes cover, both   *)
(* of them, whatever failed while other reports, or earlier attempts at     *)
(* this one, were written.                                                  *)
ReadyMatchesFiles ==
  \A r \in Reports : status[r] = "ready" =>
    sha[r] # None /\ \A k \in Kinds : files[r][k] = sha[r]

(* GET /v1/reports/verify: the ready rows that a hash of kind k belongs to. *)
Matches(k, contents) == {r \in Reports : status[r] = "ready" /\ sha[r] = contents}

(* Public verification is unambiguous: it looks at the first match only,    *)
(* and a file of a ready report has its own report as the only match.       *)
VerifyFindsOwner ==
  \A r \in Reports : \A k \in Kinds :
    status[r] = "ready" => Matches(k, files[r][k]) = {r}

(* No report is rendered twice, or by two runners: a second put would find  *)
(* the files of the first and mark the report failed.                       *)
RenderedOnce ==
  /\ \A r \in Reports : renders[r] <= 1
  /\ \A i, j \in Instances : job[i] = job[j] /\ job[i] # None => i = j

(* The audit log and the rows agree: a ready report was announced once and  *)
(* never reported failed, and a failure in the log is one in the row.       *)
Logged(r) ==
  /\ status[r] = "ready" => generated[r] = 1 /\ failed[r] = 0
  /\ failed[r] > 0 => status[r] = "failed"
  /\ generated[r] <= 1 /\ failed[r] <= 1
LogAgrees == \A r \in Reports : Logged(r)

(* A report moves forward only: nothing skips the queue, comes back to it,  *)
(* or turns ready after it failed.                                          *)
ForwardOnly ==
  [][\A r \in Reports :
       status'[r] # status[r] =>
         <<status[r], status'[r]>> \in
           {<<"none", "ready">>, <<"none", "queued">>, <<"queued", "rendering">>,
            <<"rendering", "ready">>, <<"rendering", "failed">>, <<"ready", "failed">>}]_vars

(* A queued report ends ready or failed. *)
EveryReportEnds ==
  \A r \in Audits : status[r] = "queued" ~> status[r] \in {"ready", "failed"}

(* A report that is rendering is in some runner's hands, but for those let  *)
(* go of, and each of those took a failure or a crash of its own.           *)
OnlyTroubleStrands ==
  /\ \A r \in Audits : status[r] = "rendering" => r \in stranded \/ \E i \in Instances : job[i] = r
  /\ IsFiniteSet(stranded) /\ Cardinality(stranded) <= crashes + failures

(* A queued report ends ready or failed, unless a runner lets go of it while*)
(* it is rendering, which takes a failure or a crash for each such report.  *)
QueuedReportsEnd ==
  /\ \A r \in Audits : status[r] = "queued" ~> status[r] \in {"ready", "failed"} \/ r \in stranded
  /\ []OnlyTroubleStrands

(* "rendering -> ready | failed": ready is one of the two ends.             *)
ReadyIsFinal == [][\A r \in Reports : status[r] = "ready" => status'[r] = "ready"]_vars

-----------------------------------------------------------------------------
(* The strengthening behind the proofs in ReportJobsProofs.                 *)

(* A row exists from its reference on, and its files and events come with   *)
(* the steps that write them.                                               *)
RowIsSound(r) ==
  /\ status[r] = "none" <=> ref[r] = None
  /\ status[r] = "ready" => sha[r] = ref[r] /\ files[r] = [k \in Kinds |-> ref[r]]
  /\ renders[r] <= 1
  /\ renders[r] = 0 => files[r] = NoFiles /\ generated[r] = 0
  /\ r \in Audits /\ status[r] \in {"none", "queued"} => renders[r] = 0
  /\ r \in Drafts => status[r] \in {"none", "ready"} /\ (status[r] = "none" => generated[r] = 0)

(* What runner i has claimed is in the state its step expects.              *)
RunnerHolds(i) ==
  LET r == job[i] IN
  /\ pc[i] \in {"idle", "claiming", "ending"} => r = None
  /\ pc[i] \in {"claimed", "rendering", "stored", "notifying", "failing", "recording"} =>
       r \in Audits /\ ref[r] # None /\ failed[r] = 0
  /\ pc[i] \in {"claimed", "rendering"} => status[r] = "rendering" /\ renders[r] = 0
  /\ pc[i] = "stored" => /\ status[r] = "rendering" /\ generated[r] = 0
                        /\ files[r] = [k \in Kinds |-> ref[r]] /\ renders[r] = 1
  /\ pc[i] = "notifying" => status[r] = "ready"
  /\ pc[i] = "failing" => status[r] \in {"rendering", "ready"}
  /\ pc[i] = "recording" => status[r] = "failed"

(* What request q has drawn is no row yet.                                  *)
RequestHolds(q) ==
  LET r == draft[q].id IN
  /\ phase[q] \in {"rendering", "stored"} =>
       r \in Drafts /\ status[r] = "none" /\ draft[q].ref \in References
  /\ phase[q] \in {"drawing", "created", "refused"} => draft[q] = NoDraft
  /\ phase[q] = "drawing" => attempt[q] < RefAttempts
  /\ phase[q] = "rendering" => renders[r] = 0
  /\ phase[q] = "stored" => files[r] = [k \in Kinds |-> draft[q].ref] /\ renders[r] = 1

(* References are unique, and nobody works on another one's report.         *)
NoSharing ==
  /\ \A r, s \in Reports : ref[r] = ref[s] /\ ref[r] # None => r = s
  /\ \A i, j \in Instances : job[i] = job[j] /\ job[i] # None => i = j
  /\ \A p, q \in Requests : draft[p].id = draft[q].id /\ draft[p].id # None => p = q

ReportInv ==
  /\ TypeOK /\ LogAgrees /\ NoSharing
  /\ \A r \in Reports : RowIsSound(r)
  /\ \A i \in Instances : RunnerHolds(i)
  /\ \A q \in Requests : RequestHolds(q)

-----------------------------------------------------------------------------
(* For TLC: any two reports may draw the same reference, so these are       *)
(* interchangeable.                                                         *)
Interchangeable ==
  UNION {Permutations(set) : set \in {Audits, Drafts, References, Instances}}

=============================================================================
