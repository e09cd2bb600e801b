--------------------------- MODULE ReportJobsProofs ---------------------------
(***************************************************************************)
(* Proofs about ReportJobs.                                                *)
(***************************************************************************)
EXTENDS ReportJobs, FiniteSetTheorems, TLAPS

(* In every initial state nothing is stored, logged or in hand.             *)
LEMMA InitReportInv == Init => ReportInv
BY IdsAssumption, LimitsAssumption
DEF Init, ReportInv, TypeOK, LogAgrees, Logged, NoSharing, RowIsSound, RunnerHolds, RequestHolds,
    Reports, NoFiles, NoDraft, Kinds

-----------------------------------------------------------------------------
(* A step changes one report at most.                                       *)

SameRow(r) ==
  /\ status'[r] = status[r] /\ ref'[r] = ref[r] /\ sha'[r] = sha[r] /\ files'[r] = files[r]
  /\ generated'[r] = generated[r] /\ failed'[r] = failed[r] /\ renders'[r] = renders[r]
OnlyRow(x) == \A r \in Reports : r # x => SameRow(r)
SameRunner(i) == pc'[i] = pc[i] /\ job'[i] = job[i]
SameRequest(q) == phase'[q] = phase[q] /\ attempt'[q] = attempt[q] /\ draft'[q] = draft[q]

LEMMA OtherRows ==
  ASSUME LogAgrees, \A r \in Reports : RowIsSound(r), NEW x, OnlyRow(x), Logged(x)', RowIsSound(x)',
         NEW r \in Reports
  PROVE  Logged(r)' /\ RowIsSound(r)'
<1>1. CASE r = x
  BY <1>1
<1>2. CASE r # x
  <2>1. SameRow(r) /\ Logged(r) /\ RowIsSound(r)
    BY <1>2 DEF OnlyRow, LogAgrees
  <2>2. Logged(r)'
    BY <2>1 DEF SameRow, Logged
  <2>3. RowIsSound(r)'
    BY <2>1 DEF SameRow, RowIsSound
  <2> QED BY <2>2, <2>3
<1> QED BY <1>1, <1>2

LEMMA OtherRunners ==
  ASSUME NEW j \in Instances, RunnerHolds(j), SameRunner(j), NEW x, OnlyRow(x), job[j] # x
  PROVE  RunnerHolds(j)'
<1>1. CASE job[j] \in Audits
  <2>1. SameRow(job[j])
    BY <1>1 DEF OnlyRow, Reports
  <2> QED BY <2>1 DEF SameRow, SameRunner, RunnerHolds
<1>2. CASE job[j] \notin Audits
  BY <1>2 DEF SameRunner, RunnerHolds
<1> QED BY <1>1, <1>2

LEMMA OtherRequests ==
  ASSUME NEW q \in Requests, RequestHolds(q), SameRequest(q), NEW x, OnlyRow(x), draft[q].id # x
  PROVE  RequestHolds(q)'
<1>1. CASE draft[q].id \in Drafts
  <2>1. SameRow(draft[q].id)
    BY <1>1 DEF OnlyRow, Reports
  <2> QED BY <2>1 DEF SameRow, SameRequest, RequestHolds
<1>2. CASE draft[q].id \notin Drafts
  BY <1>2 DEF SameRequest, RequestHolds, NoDraft
<1> QED BY <1>1, <1>2

(* What a step needs to prove when it changes report x by runner i.         *)
LEMMA RunnerStep ==
  ASSUME ReportInv, TypeOK', NEW i \in Instances, NEW x \in Audits, OnlyRow(x),
         ref'[x] = ref[x],
         job[i] = x \/ status[x] = "queued",
         \A j \in Instances \ {i} : SameRunner(j),
         job'[i] \in {x, None},
         \A q \in Requests : SameRequest(q),
         Logged(x)', RowIsSound(x)', RunnerHolds(i)'
  PROVE  ReportInv'
<1> USE DEF ReportInv
<1>1. ASSUME NEW j \in Instances \ {i} PROVE job[j] # x
  <2>1. CASE job[i] = x
    BY <2>1, IdsAssumption DEF NoSharing, Reports
  <2>2. CASE status[x] = "queued"
    <3>1. RunnerHolds(j) /\ x # None /\ pc[j] \in {"idle", "claiming", "claimed", "ending", "rendering",
            "stored", "notifying", "failing", "recording"}
      BY IdsAssumption DEF Reports, TypeOK
    <3> QED BY <2>2, <3>1 DEF RunnerHolds
  <2> QED BY <2>1, <2>2
<1>2. \A r \in Reports : Logged(r)' /\ RowIsSound(r)'
  BY OtherRows
<1>3. NoSharing'
  BY <1>1 DEF NoSharing, OnlyRow, SameRow, SameRunner, SameRequest
<1>4. ASSUME NEW j \in Instances PROVE RunnerHolds(j)'
  <2>1. CASE j # i
    BY <1>1, <2>1, OtherRunners
  <2> QED BY <2>1
<1>5. ASSUME NEW q \in Requests PROVE RequestHolds(q)'
  <2>1. draft[q].id # x
    BY IdsAssumption DEF RequestHolds, NoDraft, Reports, TypeOK
  <2> QED BY <2>1, OtherRequests
<1> QED BY <1>2, <1>3, <1>4, <1>5 DEF LogAgrees

(* The same for a step of request q, with the draft it had or has drawn.    *)
LEMMA RequestStep ==
  ASSUME ReportInv, TypeOK', NEW q \in Requests, NEW x \in Drafts, OnlyRow(x),
         \A r \in Reports : ref'[x] # None /\ r # x => ref[r] # ref'[x],
         draft[q].id = x \/ \A p \in Requests : draft[p].id # x,
         draft'[q].id \in {x, None},
         \A p \in Requests \ {q} : SameRequest(p),
         \A i \in Instances : SameRunner(i),
         Logged(x)', RowIsSound(x)', RequestHolds(q)'
  PROVE  ReportInv'
<1> USE DEF ReportInv
<1>0. x # None
  BY IdsAssumption DEF Reports
<1>1. ASSUME NEW p \in Requests \ {q} PROVE draft[p].id # x
  BY <1>0 DEF NoSharing
<1>2. \A r \in Reports : Logged(r)' /\ RowIsSound(r)'
  BY OtherRows
<1>3. NoSharing'
  BY <1>1 DEF NoSharing, OnlyRow, SameRow, SameRunner, SameRequest
<1>4. ASSUME NEW j \in Instances PROVE RunnerHolds(j)'
  <2>1. job[j] # x
    BY IdsAssumption DEF RunnerHolds, Reports, TypeOK
  <2> QED BY <2>1, OtherRunners
<1>5. ASSUME NEW p \in Requests PROVE RequestHolds(p)'
  <2>1. CASE p # q
    BY <1>1, <2>1, OtherRequests
  <2> QED BY <2>1
<1> QED BY <1>2, <1>3, <1>4, <1>5 DEF LogAgrees

-----------------------------------------------------------------------------
(* The steps.                                                               *)

(* Whatever part of a put was done, the storage holds contents of its own.  *)
LEMMA PartOfPut ==
  ASSUME TypeOK, NEW r, NEW contents \in References, NEW K \in SUBSET Kinds,
         files' = [files EXCEPT ![r] = [k \in Kinds |-> IF k \in K THEN contents ELSE None]]
  PROVE  files' \in [Reports -> [Kinds -> References \cup {None}]]
<1> DEFINE new == [k \in Kinds |-> IF k \in K THEN contents ELSE None]
<1>1. new \in [Kinds -> References \cup {None}]
  OBVIOUS
<1>2. files \in [Reports -> [Kinds -> References \cup {None}]]
  BY DEF TypeOK
<1>3. files' = [files EXCEPT ![r] = new]
  OBVIOUS
<1> HIDE DEF new
<1> QED BY <1>1, <1>2, <1>3

LEMMA PutFailsTyped ==
  ASSUME TypeOK, LimitsAssumption, NEW r, NEW contents \in References, PutFails(r, contents)
  PROVE  /\ files' \in [Reports -> [Kinds -> References \cup {None}]]
         /\ failures' \in 0..MaxFailures
<1>1. CASE Present(r)
  BY <1>1 DEF PutFails, TypeOK
<1>2. CASE ~Present(r)
  <2>1. failures' \in 0..MaxFailures
    BY <1>2, LimitsAssumption DEF PutFails, Fail, TypeOK
  <2>2. PICK K \in SUBSET Kinds :
          files' = [files EXCEPT ![r] = [k \in Kinds |-> IF k \in K THEN contents ELSE None]]
    BY <1>2 DEF PutFails
  <2> QED BY <2>1, <2>2, PartOfPut
<1> QED BY <1>1, <1>2

LEMMA Counted ==
  ASSUME TypeOK, NEW r \in Reports, CountRender(r)
  PROVE  renders' \in [Reports -> Nat]
BY DEF TypeOK, CountRender

LEMMA ReadyTyped ==
  ASSUME TypeOK, NEW r \in Reports, WriteReady(r)
  PROVE  /\ status' \in [Reports -> {"none", "queued", "rendering", "ready", "failed"}]
         /\ sha' \in [Reports -> References \cup {None}]
         /\ generated' \in [Reports -> Nat]
<1>1. status' \in [Reports -> {"none", "queued", "rendering", "ready", "failed"}]
  BY DEF TypeOK, WriteReady
<1>2. ref[r] \in References \cup {None}
  BY DEF TypeOK
<1>3. sha' \in [Reports -> References \cup {None}]
  BY <1>2 DEF TypeOK, WriteReady
<1>4. generated' \in [Reports -> Nat]
  BY DEF TypeOK, WriteReady
<1> QED BY <1>1, <1>3, <1>4

(* What a runner that has begun with a report has in hand.                  *)
LEMMA InHand ==
  ASSUME ReportInv, NEW i \in Instances,
         pc[i] \in {"claimed", "rendering", "stored", "notifying", "failing", "recording"}
  PROVE  job[i] \in Audits /\ job[i] \in Reports /\ ref[job[i]] \in References
BY DEF ReportInv, RunnerHolds, TypeOK, Reports

LEMMA StepTypeOK == TypeOK /\ ReportInv /\ [Next]_vars => TypeOK'
<1> SUFFICES ASSUME ReportInv, TypeOK, [Next]_vars PROVE TypeOK'
  OBVIOUS
<1> USE IdsAssumption, LimitsAssumption
<1> USE DEF TypeOK, Reports, NoFiles, NoDraft, rowVars, logVars, runnerVars, requestVars, histVars, boundVars
<1>1. ASSUME NEW q \in Requests, NEW id \in Drafts, NEW n \in References, Draw(q, id, n) PROVE TypeOK'
  BY <1>1 DEF Draw, ReportInv, RequestHolds
<1>2. ASSUME NEW q \in Requests, StoreDraft(q) PROVE TypeOK'
  BY <1>2 DEF StoreDraft, Put, CountRender, ReportInv, RequestHolds
<1>3. ASSUME NEW q \in Requests, StoreDraftFails(q) PROVE TypeOK'
  <2>1. files' \in [Reports -> [Kinds -> References \cup {None}]] /\ failures' \in 0..MaxFailures
    BY <1>3, PutFailsTyped DEF StoreDraftFails, ReportInv, RequestHolds
  <2>2. renders' \in [Reports -> Nat]
    <3>1. draft[q].id \in Reports
      BY <1>3 DEF StoreDraftFails, ReportInv, RequestHolds
    <3> QED BY <1>3, <3>1, Counted DEF StoreDraftFails
  <2>3. phase' \in [Requests -> {"drawing", "rendering", "stored", "created", "refused"}]
    BY <1>3 DEF StoreDraftFails, GiveUp
  <2>4. draft' \in [Requests -> [id : Drafts \cup {None}, ref : References \cup {None}]]
    BY <1>3 DEF StoreDraftFails, GiveUp
  <2>5. UNCHANGED <<rowVars, logVars, runnerVars, attempt, stranded, crashes>>
    BY <1>3 DEF StoreDraftFails, GiveUp, CountRender
  <2> QED BY <2>1, <2>2, <2>3, <2>4, <2>5
<1>4. ASSUME NEW q \in Requests, InsertReady(q) PROVE TypeOK'
  BY <1>4 DEF InsertReady, InsertRow, UnusedReference, ReportInv, RequestHolds
<1>5. ASSUME NEW q \in Requests, ReferenceTaken(q) PROVE TypeOK'
  BY <1>5 DEF ReferenceTaken, AttemptsLeft, ReportInv, RequestHolds
<1>6. ASSUME NEW q \in Requests, InsertFails(q) PROVE TypeOK'
  <2>1. draft[q].id \in Reports /\ draft[q].ref \in References
    BY <1>6 DEF InsertFails, ReportInv, RequestHolds
  <2>2. /\ status' \in [Reports -> {"none", "queued", "rendering", "ready", "failed"}]
        /\ ref' \in [Reports -> References \cup {None}]
        /\ sha' \in [Reports -> References \cup {None}]
        /\ generated' \in [Reports -> Nat]
    <3>1. CASE InsertRow(q)
      BY <2>1, <3>1 DEF InsertRow
    <3>2. CASE UNCHANGED <<rowVars, generated>>
      BY <3>2
    <3> QED BY <1>6, <3>1, <3>2 DEF InsertFails
  <2>3. /\ failures' \in 0..MaxFailures
        /\ phase' \in [Requests -> {"drawing", "rendering", "stored", "created", "refused"}]
        /\ draft' \in [Requests -> [id : Drafts \cup {None}, ref : References \cup {None}]]
        /\ UNCHANGED <<files, failed, runnerVars, attempt, histVars, crashes>>
    BY <1>6 DEF InsertFails, Fail, GiveUp
  <2> QED BY <2>2, <2>3
<1>7. ASSUME NEW r \in Audits, NEW n \in References, EnqueueAudit(r, n) PROVE TypeOK'
  BY <1>7 DEF EnqueueAudit, UnusedReference
<1>8. ASSUME NEW i \in Instances, Tick(i) PROVE TypeOK'
  BY <1>8 DEF Tick, Goto
<1>9. ASSUME NEW i \in Instances, NEW r \in Reports, ClaimQueued(i, r) PROVE TypeOK'
  BY <1>9 DEF ClaimQueued, StatusOnClaim, Goto
<1>10. ASSUME NEW i \in Instances, NothingQueued(i) PROVE TypeOK'
  BY <1>10 DEF NothingQueued, Goto
<1>11. ASSUME NEW i \in Instances, PassFails(i) PROVE TypeOK'
  <2>1. pc[i] \in {"failing", "recording"} => job[i] \in Reports
    BY <1>11, InHand
  <2>2. /\ status' \in [Reports -> {"none", "queued", "rendering", "ready", "failed"}]
        /\ failed' \in [Reports -> Nat]
    <3>1. CASE UNCHANGED <<status, failed>>
      BY <3>1
    <3>2. CASE pc[i] = "failing" /\ WriteFailed(job[i]) /\ UNCHANGED failed
      BY <3>2, <2>1 DEF WriteFailed
    <3>3. CASE pc[i] = "recording" /\ WriteFailure(job[i]) /\ UNCHANGED status
      BY <3>3, <2>1 DEF WriteFailure
    <3> QED BY <1>11, <3>1, <3>2, <3>3 DEF PassFails
  <2>3. stranded' \subseteq Audits
    <3>1. pc[i] \in {"claiming", "claimed", "failing", "recording"}
      BY <1>11 DEF PassFails
    <3>2. job[i] \in Audits \cup {None}
      BY <3>1, InHand DEF ReportInv, RunnerHolds
    <3> QED BY <1>11, <3>2 DEF PassFails, LetGo
  <2>4. /\ job' \in [Instances -> Reports \cup {None}]
        /\ pc' \in [Instances -> {"idle", "claiming", "claimed", "rendering", "stored", "notifying",
                                  "failing", "recording", "ending"}]
        /\ failures' \in 0..MaxFailures
        /\ UNCHANGED <<ref, sha, files, generated, requestVars, renders, crashes>>
    BY <1>11 DEF PassFails, Fail, Goto, LetGo
  <2> QED BY <2>2, <2>3, <2>4
<1>12. ASSUME NEW i \in Instances, EndTick(i) PROVE TypeOK'
  BY <1>12 DEF EndTick, Goto
<1>13. ASSUME NEW i \in Instances, Store(i) PROVE TypeOK'
  BY <1>13 DEF Store, Put, CountRender, Goto, ReportInv, RunnerHolds
<1>14. ASSUME NEW i \in Instances, StoreFails(i) PROVE TypeOK'
  <2>1. job[i] \in Reports /\ ref[job[i]] \in References
    BY <1>14, InHand DEF StoreFails
  <2>2. files' \in [Reports -> [Kinds -> References \cup {None}]] /\ failures' \in 0..MaxFailures
    BY <1>14, <2>1, PutFailsTyped DEF StoreFails
  <2>3. renders' \in [Reports -> Nat]
    BY <1>14, <2>1, Counted DEF StoreFails
  <2> QED BY <1>14, <2>2, <2>3 DEF StoreFails, CountRender, Goto
<1>15. ASSUME NEW i \in Instances, MarkReady(i) PROVE TypeOK'
  BY <1>15 DEF MarkReady, WriteReady, Goto, ReportInv, RunnerHolds
<1>16. ASSUME NEW i \in Instances, MarkReadyFails(i) PROVE TypeOK'
  <2>1. /\ status' \in [Reports -> {"none", "queued", "rendering", "ready", "failed"}]
        /\ sha' \in [Reports -> References \cup {None}]
        /\ generated' \in [Reports -> Nat]
    <3>1. CASE WriteReady(job[i])
      <4>1. job[i] \in Reports
        BY <1>16, InHand DEF MarkReadyFails
      <4> QED BY <3>1, <4>1, ReadyTyped
    <3>2. CASE UNCHANGED <<status, sha, generated>>
      BY <3>2
    <3> QED BY <1>16, <3>1, <3>2 DEF MarkReadyFails
  <2> QED BY <1>16, <2>1 DEF MarkReadyFails, Fail, Goto
<1>17. ASSUME NEW i \in Instances, NotifyRequester(i) PROVE TypeOK'
  BY <1>17 DEF NotifyRequester, NextJob, Goto
<1>18. ASSUME NEW i \in Instances, NotifyFails(i) PROVE TypeOK'
  BY <1>18 DEF NotifyFails, Fail, Goto
<1>19. ASSUME NEW i \in Instances, MarkFailed(i) PROVE TypeOK'
  BY <1>19 DEF MarkFailed, WriteFailed, Goto, ReportInv, RunnerHolds
<1>20. ASSUME NEW i \in Instances, RecordFailed(i) PROVE TypeOK'
  BY <1>20 DEF RecordFailed, WriteFailure, NextJob, Goto, ReportInv, RunnerHolds
<1>21. ASSUME NEW i \in Instances, Crash(i) PROVE TypeOK'
  <2>1. stranded' \subseteq Audits /\ job' \in [Instances -> Reports \cup {None}]
    <3>1. job[i] \in Audits \cup {None}
      BY InHand DEF ReportInv, RunnerHolds
    <3> QED BY <1>21, <3>1 DEF Crash, LetGo
  <2>2. /\ files' \in [Reports -> [Kinds -> References \cup {None}]]
        /\ renders' \in [Reports -> Nat]
    <3>1. CASE UNCHANGED <<files, renders>>
      BY <3>1
    <3>2. CASE ~UNCHANGED <<files, renders>>
      <4>1. ref[job[i]] \in References /\ job[i] \in Reports
        BY <1>21, <3>2, InHand DEF Crash
      <4>2. PICK K \in SUBSET Kinds :
              files' = [files EXCEPT ![job[i]] =
                          [k \in Kinds |-> IF k \in K THEN ref[job[i]] ELSE None]]
        BY <1>21, <3>2 DEF Crash
      <4>3. files' \in [Reports -> [Kinds -> References \cup {None}]]
        BY <4>1, <4>2, PartOfPut
      <4>4. renders' = [renders EXCEPT ![job[i]] = @ + 1]
        BY <1>21, <3>2 DEF Crash
      <4>5. renders' \in [Reports -> Nat]
        BY <4>1, <4>4
      <4> QED BY <4>3, <4>5
    <3> QED BY <3>1, <3>2
  <2>3. /\ UNCHANGED <<status, ref, sha, generated, failed, phase, attempt, draft, failures>>
        /\ pc' = [pc EXCEPT ![i] = "idle"]
        /\ crashes' \in 0..MaxCrashes
    BY <1>21 DEF Crash, Goto
  <2> QED BY <2>1, <2>2, <2>3
<1>23. ASSUME NEW i \in Instances, ReadRow(i) PROVE TypeOK'
  BY <1>23 DEF ReadRow, Goto
<1>24. ASSUME NEW i \in Instances, NEW r \in Reports, ClaimUnanswered(i, r) PROVE TypeOK'
  <2>1. r \in Audits
    BY <1>24 DEF ClaimUnanswered, ReportInv, RowIsSound
  <2> QED BY <1>24, <2>1 DEF ClaimUnanswered, StatusOnClaim, Fail, Goto
<1>22. CASE UNCHANGED vars
  BY <1>22 DEF vars
<1> QED
  BY <1>1, <1>2, <1>3, <1>4, <1>5, <1>6, <1>7, <1>8, <1>9, <1>10, <1>11, <1>12, <1>13, <1>14, <1>15, <1>16, <1>17, <1>18, <1>19, <1>20, <1>21, <1>22, <1>23, <1>24
  DEF Next, Request, Run, Render

(* A runner's step that touches no row: what the runner holds is all there  *)
(* is to show.                                                              *)
LEMMA QuietStep ==
  ASSUME ReportInv, TypeOK', NEW i \in Instances,
         UNCHANGED <<rowVars, files, logVars, requestVars, renders>>,
         \A j \in Instances \ {i} : SameRunner(j),
         job'[i] \in {job[i], None},
         RunnerHolds(i)'
  PROVE  ReportInv'
<1> USE DEF ReportInv, rowVars, logVars, requestVars
<1>1. ASSUME NEW r \in Reports PROVE Logged(r)' /\ RowIsSound(r)'
  <2>1. Logged(r) /\ RowIsSound(r)
    BY DEF LogAgrees
  <2> QED BY <2>1 DEF Logged, RowIsSound
<1>2. NoSharing'
  BY DEF NoSharing, SameRunner
<1>3. ASSUME NEW j \in Instances PROVE RunnerHolds(j)'
  <2>1. CASE j # i
    <3>1. RunnerHolds(j) /\ SameRunner(j)
      BY <2>1
    <3> QED BY <3>1 DEF SameRunner, RunnerHolds
  <2> QED BY <2>1
<1>4. \A q \in Requests : RequestHolds(q)'
  BY DEF RequestHolds
<1> QED BY <1>1, <1>2, <1>3, <1>4 DEF LogAgrees

LEMMA DrawInv ==
  ASSUME ReportInv, TypeOK', NEW q \in Requests, NEW id \in Drafts, NEW n \in References,
         Draw(q, id, n)
  PROVE  ReportInv'
<1> USE DEF rowVars, logVars, runnerVars, histVars, boundVars
<1>1. RowIsSound(id) /\ Logged(id) /\ id \in Reports /\ TypeOK
  BY DEF ReportInv, LogAgrees, Reports
<1>2. OnlyRow(id) /\ (\A i \in Instances : SameRunner(i)) /\ Logged(id)' /\ RowIsSound(id)'
  BY <1>1 DEF Draw, OnlyRow, SameRow, SameRunner, Logged, RowIsSound
<1>3. \A p \in Requests \ {q} : SameRequest(p)
  BY <1>1 DEF Draw, SameRequest, TypeOK
<1>4. draft'[q] = [id |-> id, ref |-> n] /\ phase'[q] = "rendering"
  BY <1>1 DEF Draw, TypeOK
<1>5. status[id] = "none"
  BY <1>1, IdsAssumption DEF Draw, RowIsSound, NoFiles, Kinds
<1>6. RequestHolds(q)'
  BY <1>4, <1>5 DEF RequestHolds, Draw
<1>7. \A r \in Reports : ref'[id] # None /\ r # id => ref[r] # ref'[id]
  BY <1>1 DEF Draw, ReportInv, NoSharing
<1>8. \A p \in Requests : draft[p].id # id
  BY DEF Draw
<1> QED BY <1>2, <1>3, <1>4, <1>6, <1>7, <1>8, RequestStep

(* StoreDraft and StoreDraftFails: the files and the render, of a draft.    *)
LEMMA StoreDraftInv ==
  ASSUME ReportInv, TypeOK', NEW q \in Requests, StoreDraft(q) \/ StoreDraftFails(q)
  PROVE  ReportInv'
<1> USE DEF rowVars, logVars, runnerVars, histVars, boundVars
<1>0. PICK x : x = draft[q].id
  OBVIOUS
<1>1. /\ x \in Drafts /\ x \in Reports /\ status[x] = "none" /\ renders[x] = 0
      /\ RowIsSound(x) /\ Logged(x) /\ TypeOK /\ phase[q] = "rendering"
  BY <1>0 DEF StoreDraft, StoreDraftFails, ReportInv, LogAgrees, RequestHolds, Reports
<1>2. files[x] = NoFiles /\ ~Present(x)
  BY <1>1 DEF RowIsSound, NoFiles, Present
<1>3. PICK new : files' = [files EXCEPT ![x] = new]
  BY <1>0, <1>2 DEF StoreDraft, StoreDraftFails, Put, PutFails
<1>4. renders' = [renders EXCEPT ![x] = @ + 1]
  BY <1>0 DEF StoreDraft, StoreDraftFails, CountRender
<1>5. UNCHANGED <<rowVars, logVars, runnerVars, attempt>>
  BY DEF StoreDraft, StoreDraftFails, GiveUp
<1>6. OnlyRow(x)
  BY <1>1, <1>3, <1>4, <1>5 DEF OnlyRow, SameRow, TypeOK
<1>7. Logged(x)' /\ RowIsSound(x)'
  <2>1. renders'[x] = 1
    BY <1>1, <1>4 DEF TypeOK
  <2> QED BY <1>1, <1>5, <2>1, IdsAssumption DEF Logged, RowIsSound
<1>8. RequestHolds(q)' /\ draft'[q].id \in {x, None} /\ \A p \in Requests \ {q} : SameRequest(p)
  <2>1. CASE StoreDraft(q)
    <3>1. draft' = draft /\ phase' = [phase EXCEPT ![q] = "stored"]
      BY <2>1 DEF StoreDraft
    <3>2. files'[x] = [k \in Kinds |-> draft[q].ref] /\ renders'[x] = 1
      BY <1>0, <2>1, <1>1, <1>4 DEF StoreDraft, Put, TypeOK
    <3>3. draft[q].ref \in References
      BY <1>0, <1>1 DEF ReportInv, RequestHolds
    <3>4. phase'[q] = "stored" /\ \A p \in Requests \ {q} : SameRequest(p)
      BY <3>1, <1>1, <1>5 DEF SameRequest, TypeOK
    <3> QED BY <1>0, <3>1, <3>2, <3>3, <3>4, <1>1, <1>5 DEF RequestHolds
  <2>2. CASE StoreDraftFails(q)
    <3>1. draft' = [draft EXCEPT ![q] = NoDraft] /\ phase' = [phase EXCEPT ![q] = "refused"]
      BY <2>2 DEF StoreDraftFails, GiveUp
    <3>2. draft'[q] = NoDraft /\ phase'[q] = "refused" /\ \A p \in Requests \ {q} : SameRequest(p)
      BY <3>1, <1>1, <1>5 DEF SameRequest, TypeOK
    <3> QED BY <3>2 DEF RequestHolds, NoDraft
  <2> QED BY <2>1, <2>2
<1>9. \A r \in Reports : ref'[x] # None /\ r # x => ref[r] # ref'[x]
  BY <1>1, <1>5 DEF ReportInv, NoSharing
<1>10. \A i \in Instances : SameRunner(i)
  BY <1>5 DEF SameRunner
<1> QED BY <1>1, <1>6, <1>7, <1>8, <1>9, <1>0, <1>10, RequestStep

(* The row of a draft, whether its request hears of it or not.              *)
LEMMA InsertReadyInv ==
  ASSUME ReportInv, TypeOK', NEW q \in Requests,
         InsertReady(q) \/ (InsertFails(q) /\ InsertRow(q))
  PROVE  ReportInv'
<1> USE DEF rowVars, logVars, runnerVars, histVars, boundVars
<1>0. PICK x, n : x = draft[q].id /\ n = draft[q].ref
  OBVIOUS
<1>1. /\ x \in Drafts /\ x \in Reports /\ status[x] = "none" /\ renders[x] = 1
      /\ files[x] = [k \in Kinds |-> n] /\ n \in References
      /\ RowIsSound(x) /\ Logged(x) /\ TypeOK
  BY <1>0 DEF InsertReady, InsertFails, ReportInv, LogAgrees, RequestHolds, Reports
<1>2. UNCHANGED <<files, failed, runnerVars, attempt, renders>>
  BY DEF InsertReady, InsertFails, GiveUp
<1>3. /\ status' = [status EXCEPT ![x] = "ready"] /\ ref' = [ref EXCEPT ![x] = n]
      /\ sha' = [sha EXCEPT ![x] = n] /\ generated' = [generated EXCEPT ![x] = @ + 1]
      /\ draft' = [draft EXCEPT ![q] = NoDraft]
      /\ \E to \in {"created", "refused"} : phase' = [phase EXCEPT ![q] = to]
      /\ UnusedReference(n)
  BY <1>0 DEF InsertReady, InsertFails, InsertRow, GiveUp
<1>4. OnlyRow(x)
  BY <1>2, <1>3, <1>1 DEF OnlyRow, SameRow, TypeOK
<1>5. status'[x] = "ready" /\ ref'[x] = n /\ sha'[x] = n /\ generated'[x] = 1
  BY <1>1, <1>3 DEF TypeOK, RowIsSound
<1>6. failed[x] = 0 /\ n # None
  BY <1>1, IdsAssumption DEF Logged, TypeOK
<1>7. Logged(x)'
  BY <1>5, <1>6, <1>2 DEF Logged
<1>8. RowIsSound(x)'
  BY <1>1, <1>2, <1>5, <1>6, IdsAssumption DEF RowIsSound
<1>9. /\ draft'[q] = NoDraft /\ phase'[q] \in {"created", "refused"}
      /\ \A p \in Requests \ {q} : SameRequest(p)
  BY <1>1, <1>2, <1>3 DEF TypeOK, SameRequest
<1>10. RequestHolds(q)' /\ draft'[q].id = None
  BY <1>9 DEF RequestHolds, NoDraft
<1>12. \A r \in Reports : r # x => ref[r] # ref'[x]
  BY <1>3, <1>5 DEF UnusedReference
<1>13. \A i \in Instances : SameRunner(i)
  BY <1>2 DEF SameRunner
<1> QED BY <1>1, <1>4, <1>7, <1>8, <1>9, <1>0, <1>10, <1>12, <1>13, RequestStep

(* ReferenceTaken and InsertFails without a row: the draft is dropped.      *)
LEMMA DropDraftInv ==
  ASSUME ReportInv, TypeOK', NEW q \in Requests,
         ReferenceTaken(q) \/ (InsertFails(q) /\ ~InsertRow(q))
  PROVE  ReportInv'
<1> USE DEF rowVars, logVars, runnerVars, histVars, boundVars
<1>0. PICK x : x = draft[q].id
  OBVIOUS
<1>1. /\ x \in Drafts /\ x \in Reports /\ status[x] = "none"
      /\ RowIsSound(x) /\ Logged(x) /\ TypeOK
  BY <1>0 DEF ReferenceTaken, InsertFails, ReportInv, LogAgrees, RequestHolds, Reports
<1>2. UNCHANGED <<rowVars, files, logVars, runnerVars, attempt, renders>>
  BY DEF ReferenceTaken, InsertFails, GiveUp
<1>3. /\ draft' = [draft EXCEPT ![q] = NoDraft]
      /\ \/ phase' = [phase EXCEPT ![q] = "refused"]
         \/ phase' = [phase EXCEPT ![q] = "drawing"] /\ attempt[q] < RefAttempts
  BY DEF ReferenceTaken, InsertFails, GiveUp, AttemptsLeft
<1>4. /\ draft'[q] = NoDraft
      /\ phase'[q] = "refused" \/ (phase'[q] = "drawing" /\ attempt[q] < RefAttempts)
      /\ \A p \in Requests \ {q} : SameRequest(p)
  BY <1>1, <1>2, <1>3 DEF TypeOK, SameRequest
<1>5. RequestHolds(q)' /\ draft'[q].id = None
  BY <1>2, <1>4 DEF RequestHolds, NoDraft
<1>6. OnlyRow(x) /\ (\A i \in Instances : SameRunner(i)) /\ Logged(x)' /\ RowIsSound(x)'
  BY <1>1, <1>2 DEF OnlyRow, SameRow, SameRunner, Logged, RowIsSound
<1>7. \A r \in Reports : ref'[x] # None /\ r # x => ref[r] # ref'[x]
  BY <1>1, <1>2 DEF ReportInv, NoSharing
<1> QED BY <1>1, <1>4, <1>5, <1>6, <1>0, <1>7, RequestStep

(* A queued report is nobody's yet, and its reference is new.               *)
LEMMA EnqueueInv ==
  ASSUME ReportInv, TypeOK', NEW x \in Audits, NEW n \in References, EnqueueAudit(x, n)
  PROVE  ReportInv'
<1> USE DEF rowVars, logVars, runnerVars, requestVars, histVars, boundVars
<1>1. x \in Reports /\ x # None /\ n # None /\ RowIsSound(x) /\ Logged(x) /\ TypeOK
  BY IdsAssumption DEF ReportInv, LogAgrees, Reports
<1>2. /\ UNCHANGED <<sha, files, logVars, runnerVars, requestVars, renders>>
      /\ status' = [status EXCEPT ![x] = "queued"] /\ ref' = [ref EXCEPT ![x] = n]
      /\ status[x] = "none" /\ UnusedReference(n)
  BY DEF EnqueueAudit
<1>3. status'[x] = "queued" /\ ref'[x] = n /\ ref[x] = None
  BY <1>1, <1>2 DEF TypeOK, RowIsSound
<1>4. OnlyRow(x)
  BY <1>1, <1>2 DEF OnlyRow, SameRow, TypeOK
<1>5. Logged(x)' /\ RowIsSound(x)'
  BY <1>1, <1>2, <1>3, IdsAssumption DEF Logged, RowIsSound, Reports
<1>6. \A r \in Reports : Logged(r)' /\ RowIsSound(r)'
  BY <1>4, <1>5, OtherRows DEF ReportInv
<1>7. NoSharing'
  BY <1>2, <1>3, <1>4 DEF ReportInv, NoSharing, OnlyRow, SameRow, UnusedReference
<1>8. ASSUME NEW j \in Instances PROVE RunnerHolds(j)'
  <2>1. RunnerHolds(j) /\ SameRunner(j)
    BY <1>2 DEF ReportInv, SameRunner
  <2>2. job[j] # x
    BY <1>1, <1>3, <2>1 DEF RunnerHolds, TypeOK
  <2> QED BY <1>4, <2>1, <2>2, OtherRunners
<1>9. ASSUME NEW q \in Requests PROVE RequestHolds(q)'
  <2>1. RequestHolds(q) /\ SameRequest(q)
    BY <1>2 DEF ReportInv, SameRequest
  <2>2. draft[q].id # x
    BY <1>1, <2>1, IdsAssumption DEF RequestHolds, NoDraft, TypeOK
  <2> QED BY <1>4, <2>1, <2>2, OtherRequests
<1> QED BY <1>6, <1>7, <1>8, <1>9 DEF ReportInv, LogAgrees

(* Tick, ReadRow, NothingQueued, EndTick, NotifyRequester, NotifyFails, and  *)
(* a pass that ends without having written.                                 *)
LEMMA QuietInv ==
  ASSUME ReportInv, TypeOK', NEW i \in Instances,
         \/ Tick(i) \/ ReadRow(i) \/ NothingQueued(i) \/ EndTick(i)
         \/ PassFails(i) /\ UNCHANGED <<status, failed>>
         \/ NotifyRequester(i) \/ NotifyFails(i)
  PROVE  ReportInv'
<1>1. RunnerHolds(i) /\ TypeOK
  BY DEF ReportInv
<1>2. UNCHANGED <<rowVars, files, logVars, requestVars, renders>>
  BY DEF Tick, ReadRow, NothingQueued, EndTick, PassFails, NotifyRequester, NotifyFails,
         rowVars, logVars, histVars
<1>3. \/ /\ pc[i] \in {"idle", "claiming", "ending"} /\ job' = job
         /\ \E to \in {"claiming", "ending", "idle"} : Goto(i, to)
      \/ /\ \E to \in {"claiming", "ending"} : Goto(i, to)
         /\ job' = [job EXCEPT ![i] = None]
      \/ /\ pc[i] = "notifying" /\ job' = job /\ Goto(i, "failing")
      \/ /\ pc[i] = "claimed" /\ job' = job /\ Goto(i, "rendering")
  BY DEF Tick, ReadRow, NothingQueued, EndTick, PassFails, NotifyRequester, NotifyFails, NextJob,
         LetGo
<1>4. \A j \in Instances \ {i} : SameRunner(j)
  BY <1>1, <1>3 DEF SameRunner, Goto, TypeOK
<1>5. job'[i] \in {job[i], None}
  BY <1>1, <1>3 DEF TypeOK
<1>6. RunnerHolds(i)'
  BY <1>1, <1>2, <1>3 DEF RunnerHolds, Goto, TypeOK, rowVars, logVars
<1> QED BY <1>2, <1>4, <1>5, <1>6, QuietStep

LEMMA ClaimInv ==
  ASSUME ReportInv, TypeOK', NEW i \in Instances, NEW x \in Reports, ClaimQueued(i, x)
  PROVE  ReportInv'
<1> USE DEF logVars, requestVars, histVars, boundVars
<1>1. RowIsSound(x) /\ Logged(x) /\ TypeOK
  BY DEF ReportInv, LogAgrees
<1>2. /\ UNCHANGED <<ref, sha, files, logVars, requestVars, renders>>
      /\ status' = [status EXCEPT ![x] = "rendering"]
      /\ job' = [job EXCEPT ![i] = x] /\ pc' = [pc EXCEPT ![i] = "claimed"]
      /\ status[x] = "queued"
  BY DEF ClaimQueued, StatusOnClaim, Goto
<1>3. x \in Audits
  BY <1>1, <1>2 DEF RowIsSound, Reports
<1>4. OnlyRow(x) /\ ref'[x] = ref[x]
  BY <1>1, <1>2 DEF OnlyRow, SameRow, TypeOK
<1>5. status'[x] = "rendering" /\ job'[i] = x /\ pc'[i] = "claimed"
  BY <1>1, <1>2 DEF TypeOK
<1>6. ref[x] # None /\ renders[x] = 0 /\ failed[x] = 0
  BY <1>1, <1>2, <1>3 DEF RowIsSound, Logged, TypeOK
<1>7. Logged(x)' /\ RowIsSound(x)'
  BY <1>1, <1>2, <1>3, <1>5, <1>6, IdsAssumption DEF Logged, RowIsSound
<1>8. RunnerHolds(i)'
  BY <1>2, <1>3, <1>5, <1>6 DEF RunnerHolds
<1>9. (\A j \in Instances \ {i} : SameRunner(j)) /\ (\A q \in Requests : SameRequest(q))
  BY <1>1, <1>2 DEF SameRunner, SameRequest, TypeOK
<1> QED BY <1>2, <1>3, <1>4, <1>5, <1>7, <1>8, <1>9, RunnerStep

(* The claim whose answer is lost leaves the runner with nothing.           *)
LEMMA ClaimUnansweredInv ==
  ASSUME ReportInv, TypeOK', NEW i \in Instances, NEW x \in Reports, ClaimUnanswered(i, x)
  PROVE  ReportInv'
<1> USE DEF logVars, requestVars
<1>1. RowIsSound(x) /\ Logged(x) /\ RunnerHolds(i) /\ TypeOK
  BY DEF ReportInv, LogAgrees
<1>2. /\ UNCHANGED <<ref, sha, files, logVars, job, requestVars, renders>>
      /\ status' = [status EXCEPT ![x] = "rendering"] /\ pc' = [pc EXCEPT ![i] = "ending"]
      /\ status[x] = "queued" /\ pc[i] = "claiming"
  BY DEF ClaimUnanswered, StatusOnClaim, Goto
<1>3. x \in Audits
  BY <1>1, <1>2 DEF RowIsSound, Reports
<1>4. OnlyRow(x) /\ ref'[x] = ref[x]
  BY <1>1, <1>2 DEF OnlyRow, SameRow, TypeOK
<1>5. status'[x] = "rendering" /\ job'[i] = None /\ pc'[i] = "ending"
  BY <1>1, <1>2 DEF TypeOK, RunnerHolds
<1>6. Logged(x)' /\ RowIsSound(x)'
  BY <1>1, <1>2, <1>3, <1>5, IdsAssumption DEF Logged, RowIsSound, TypeOK
<1>7. RunnerHolds(i)'
  BY <1>5 DEF RunnerHolds
<1>8. (\A j \in Instances \ {i} : SameRunner(j)) /\ (\A q \in Requests : SameRequest(q))
  BY <1>1, <1>2 DEF SameRunner, SameRequest, TypeOK
<1> QED BY <1>2, <1>3, <1>4, <1>5, <1>6, <1>7, <1>8, RunnerStep

(* Store and StoreFails: the files and the render, of a claimed report.     *)
LEMMA StoreInv ==
  ASSUME ReportInv, TypeOK', NEW i \in Instances, Store(i) \/ StoreFails(i)
  PROVE  ReportInv'
<1> USE DEF rowVars, logVars, requestVars, histVars, boundVars
<1>0. PICK x : x = job[i]
  OBVIOUS
<1>1. /\ x \in Audits /\ x \in Reports /\ ref[x] # None /\ failed[x] = 0
      /\ status[x] = "rendering" /\ renders[x] = 0
      /\ RowIsSound(x) /\ Logged(x) /\ TypeOK
  BY <1>0 DEF Store, StoreFails, ReportInv, LogAgrees, RunnerHolds, Reports
<1>2. ~Present(x) /\ generated[x] = 0
  BY <1>1 DEF RowIsSound, NoFiles, Present
<1>3. PICK new : /\ files' = [files EXCEPT ![x] = new]
                 /\ Store(i) => new = [k \in Kinds |-> ref[x]]
  BY <1>0, <1>2 DEF Store, StoreFails, Put, PutFails
<1>4. renders' = [renders EXCEPT ![x] = @ + 1]
  BY <1>0 DEF Store, StoreFails, CountRender
<1>5. UNCHANGED <<rowVars, logVars, job, requestVars>>
  BY DEF Store, StoreFails
<1>6. OnlyRow(x) /\ ref'[x] = ref[x]
  BY <1>1, <1>3, <1>4, <1>5 DEF OnlyRow, SameRow, TypeOK
<1>7. renders'[x] = 1
  BY <1>1, <1>4 DEF TypeOK
<1>8. Logged(x)' /\ RowIsSound(x)'
  BY <1>1, <1>5, <1>7, IdsAssumption DEF Logged, RowIsSound
<1>9. \E to \in {"stored", "failing"} : Goto(i, to) /\ (to = "stored" => Store(i))
  BY DEF Store, StoreFails
<1>10. \A j \in Instances \ {i} : SameRunner(j)
  BY <1>1, <1>5, <1>9 DEF SameRunner, Goto, TypeOK
<1>11. /\ pc'[i] = "failing" \/ (pc'[i] = "stored" /\ Store(i))
       /\ files'[x] = new /\ job'[i] = x
  BY <1>0, <1>1, <1>3, <1>5, <1>9 DEF Goto, TypeOK
<1>12. RunnerHolds(i)'
  BY <1>1, <1>2, <1>3, <1>5, <1>7, <1>11 DEF RunnerHolds
<1>13. \A q \in Requests : SameRequest(q)
  BY <1>5 DEF SameRequest
<1> QED BY <1>0, <1>1, <1>6, <1>8, <1>10, <1>11, <1>12, <1>13, RunnerStep

(* MarkReady and MarkReadyFails, whose write may or may not have arrived.   *)
LEMMA MarkReadyInv ==
  ASSUME ReportInv, TypeOK', NEW i \in Instances, MarkReady(i) \/ MarkReadyFails(i)
  PROVE  ReportInv'
<1> USE DEF rowVars, logVars, requestVars, histVars, boundVars
<1>0. PICK x : x = job[i]
  OBVIOUS
<1>1. /\ x \in Audits /\ x \in Reports /\ ref[x] # None /\ failed[x] = 0
      /\ status[x] = "rendering" /\ renders[x] = 1 /\ generated[x] = 0
      /\ files[x] = [k \in Kinds |-> ref[x]]
      /\ RowIsSound(x) /\ Logged(x) /\ TypeOK
  BY <1>0 DEF MarkReady, MarkReadyFails, ReportInv, LogAgrees, RunnerHolds, Reports
<1>2. UNCHANGED <<ref, files, failed, job, requestVars, renders>>
  BY DEF MarkReady, MarkReadyFails
<1>3. WriteReady(x) \/ (UNCHANGED <<status, sha, generated>> /\ MarkReadyFails(i))
  BY <1>0 DEF MarkReady, MarkReadyFails
<1>4. OnlyRow(x) /\ ref'[x] = ref[x]
  BY <1>1, <1>2, <1>3 DEF OnlyRow, SameRow, WriteReady, TypeOK
<1>5. \/ status'[x] = "ready" /\ sha'[x] = ref[x] /\ generated'[x] = 1
      \/ UNCHANGED <<status, sha, generated>> /\ MarkReadyFails(i)
  BY <1>1, <1>3 DEF WriteReady, TypeOK
<1>6. Logged(x)' /\ RowIsSound(x)'
  BY <1>1, <1>2, <1>5, IdsAssumption DEF Logged, RowIsSound
<1>7. \E to \in {"notifying", "failing"} : Goto(i, to) /\ (MarkReadyFails(i) => to = "failing")
  <2>1. CASE MarkReady(i) /\ ~MarkReadyFails(i)
    BY <2>1 DEF MarkReady
  <2>2. CASE MarkReadyFails(i)
    BY <2>2 DEF MarkReadyFails
  <2> QED BY <2>1, <2>2
<1>8. \A j \in Instances \ {i} : SameRunner(j)
  BY <1>1, <1>2, <1>7 DEF SameRunner, Goto, TypeOK
<1>9. pc'[i] \in {"notifying", "failing"} /\ (MarkReadyFails(i) => pc'[i] = "failing") /\ job'[i] = x
  BY <1>0, <1>1, <1>2, <1>7 DEF Goto, TypeOK
<1>10. RunnerHolds(i)'
  BY <1>1, <1>2, <1>5, <1>9 DEF RunnerHolds
<1>11. \A q \in Requests : SameRequest(q)
  BY <1>2 DEF SameRequest
<1> QED BY <1>0, <1>1, <1>4, <1>6, <1>8, <1>9, <1>10, <1>11, RunnerStep

(* The row turns failed, and the runner may not hear of it.                 *)
LEMMA MarkFailedInv ==
  ASSUME ReportInv, TypeOK', NEW i \in Instances,
         MarkFailed(i) \/ (PassFails(i) /\ ~UNCHANGED status)
  PROVE  ReportInv'
<1> USE DEF logVars, requestVars, histVars, boundVars
<1>0. PICK x : x = job[i]
  OBVIOUS
<1>1. /\ x \in Audits /\ x \in Reports /\ ref[x] # None /\ failed[x] = 0
      /\ status[x] \in {"rendering", "ready"}
      /\ RowIsSound(x) /\ Logged(x) /\ TypeOK
  BY <1>0 DEF MarkFailed, PassFails, ReportInv, LogAgrees, RunnerHolds, Reports
<1>2. /\ UNCHANGED <<ref, sha, files, logVars, requestVars, renders>>
      /\ status' = [status EXCEPT ![x] = "failed"]
      /\ \/ Goto(i, "recording") /\ job' = job
         \/ Goto(i, "ending") /\ job' = [job EXCEPT ![i] = None]
  BY <1>0 DEF MarkFailed, PassFails, WriteFailed, LetGo
<1>3. OnlyRow(x) /\ ref'[x] = ref[x] /\ status'[x] = "failed"
  BY <1>1, <1>2 DEF OnlyRow, SameRow, TypeOK
<1>4. Logged(x)' /\ RowIsSound(x)'
  BY <1>1, <1>2, <1>3, IdsAssumption DEF Logged, RowIsSound
<1>5. /\ \/ pc'[i] = "recording" /\ job'[i] = x
         \/ pc'[i] = "ending" /\ job'[i] = None
      /\ \A j \in Instances \ {i} : SameRunner(j)
  BY <1>0, <1>1, <1>2 DEF SameRunner, Goto, TypeOK
<1>6. RunnerHolds(i)'
  BY <1>1, <1>2, <1>3, <1>5 DEF RunnerHolds
<1>7. \A q \in Requests : SameRequest(q)
  BY <1>2 DEF SameRequest
<1> QED BY <1>0, <1>1, <1>3, <1>4, <1>5, <1>6, <1>7, RunnerStep

(* The event is recorded, and the runner lets go of the report.             *)
LEMMA RecordFailedInv ==
  ASSUME ReportInv, TypeOK', NEW i \in Instances,
         RecordFailed(i) \/ (PassFails(i) /\ ~UNCHANGED failed)
  PROVE  ReportInv'
<1> USE DEF rowVars, requestVars, histVars, boundVars
<1>0. PICK x : x = job[i]
  OBVIOUS
<1>1. /\ x \in Audits /\ x \in Reports /\ failed[x] = 0 /\ status[x] = "failed"
      /\ RowIsSound(x) /\ Logged(x) /\ TypeOK
  BY <1>0 DEF RecordFailed, PassFails, ReportInv, LogAgrees, RunnerHolds, Reports
<1>2. /\ UNCHANGED <<rowVars, files, generated, requestVars, renders>>
      /\ failed' = [failed EXCEPT ![x] = @ + 1]
      /\ \E to \in {"claiming", "ending"} : Goto(i, to)
      /\ job' = [job EXCEPT ![i] = None]
  BY <1>0 DEF RecordFailed, PassFails, WriteFailure, NextJob, LetGo
<1>3. OnlyRow(x) /\ ref'[x] = ref[x] /\ failed'[x] = 1
  BY <1>1, <1>2 DEF OnlyRow, SameRow, TypeOK
<1>4. Logged(x)' /\ RowIsSound(x)'
  BY <1>1, <1>2, <1>3, IdsAssumption DEF Logged, RowIsSound
<1>5. pc'[i] \in {"claiming", "ending"} /\ job'[i] = None /\ \A j \in Instances \ {i} : SameRunner(j)
  BY <1>1, <1>2 DEF SameRunner, Goto, TypeOK
<1>6. RunnerHolds(i)'
  BY <1>5 DEF RunnerHolds
<1>7. \A q \in Requests : SameRequest(q)
  BY <1>2 DEF SameRequest
<1> QED BY <1>0, <1>1, <1>3, <1>4, <1>5, <1>6, <1>7, RunnerStep

(* A crash drops what the runner holds; it may have written a file.         *)
LEMMA CrashInv ==
  ASSUME ReportInv, TypeOK', NEW i \in Instances, Crash(i)
  PROVE  ReportInv'
<1> USE DEF rowVars, logVars, requestVars, histVars, boundVars
<1>1. RunnerHolds(i) /\ TypeOK
  BY DEF ReportInv
<1>2. /\ UNCHANGED <<rowVars, logVars, requestVars>>
      /\ Goto(i, "idle") /\ job' = [job EXCEPT ![i] = None]
  BY DEF Crash, LetGo
<1>3. pc'[i] = "idle" /\ job'[i] = None /\ \A j \in Instances \ {i} : SameRunner(j)
  BY <1>1, <1>2 DEF SameRunner, Goto, TypeOK
<1>4. RunnerHolds(i)'
  BY <1>3 DEF RunnerHolds
<1>5. CASE UNCHANGED <<files, renders>>
  BY <1>2, <1>3, <1>4, <1>5, QuietStep
<1>6. CASE ~UNCHANGED <<files, renders>>
  <2>0. PICK x : x = job[i]
    OBVIOUS
  <2>1. /\ x \in Audits /\ x \in Reports /\ status[x] = "rendering" /\ renders[x] = 0
        /\ ref[x] # None /\ RowIsSound(x) /\ Logged(x)
    BY <1>1, <1>6, <2>0 DEF Crash, ReportInv, LogAgrees, RunnerHolds, Reports
  <2>2. PICK new : files' = [files EXCEPT ![x] = new]
    BY <1>6, <2>0 DEF Crash
  <2>3. renders' = [renders EXCEPT ![x] = @ + 1]
    BY <1>6, <2>0 DEF Crash
  <2>4. OnlyRow(x) /\ ref'[x] = ref[x] /\ renders'[x] = 1
    BY <1>1, <1>2, <2>1, <2>2, <2>3 DEF OnlyRow, SameRow, TypeOK
  <2>5. Logged(x)' /\ RowIsSound(x)'
    BY <1>2, <2>1, <2>4, IdsAssumption DEF Logged, RowIsSound
  <2>6. \A q \in Requests : SameRequest(q)
    BY <1>2 DEF SameRequest
  <2> QED BY <1>3, <1>4, <2>0, <2>1, <2>4, <2>5, <2>6, RunnerStep
<1> QED BY <1>5, <1>6

LEMMA StepReportInv == ReportInv /\ [Next]_vars => ReportInv'
<1> SUFFICES ASSUME ReportInv, [Next]_vars PROVE ReportInv'
  OBVIOUS
<1>1. TypeOK'
  BY StepTypeOK DEF ReportInv
<1>2. CASE UNCHANGED vars
  <2> USE <1>2 DEF vars, rowVars, logVars, runnerVars, requestVars, histVars, boundVars
  <2>1. LogAgrees'
    BY DEF ReportInv, LogAgrees, Logged
  <2>2. NoSharing'
    BY DEF ReportInv, NoSharing
  <2>3. ASSUME NEW r \in Reports PROVE RowIsSound(r)'
    <3>1. RowIsSound(r)
      BY DEF ReportInv
    <3> QED BY <3>1 DEF RowIsSound
  <2>4. ASSUME NEW i \in Instances PROVE RunnerHolds(i)'
    <3>1. RunnerHolds(i)
      BY DEF ReportInv
    <3> QED BY <3>1 DEF RunnerHolds
  <2>5. \A q \in Requests : RequestHolds(q)'
    BY DEF ReportInv, RequestHolds
  <2> QED BY <1>1, <2>1, <2>2, <2>3, <2>4, <2>5 DEF ReportInv
<1>3. ASSUME NEW q \in Requests, Request(q) PROVE ReportInv'
  BY <1>1, <1>3, DrawInv, StoreDraftInv, InsertReadyInv, DropDraftInv DEF Request
<1>4. ASSUME NEW i \in Instances, Run(i) PROVE ReportInv'
  BY <1>1, <1>4, QuietInv, ClaimInv, StoreInv, MarkReadyInv, MarkFailedInv, RecordFailedInv
  DEF Run, Render
<1>5. ASSUME NEW i \in Instances, PassFails(i) PROVE ReportInv'
  BY <1>1, <1>5, QuietInv, MarkFailedInv, RecordFailedInv
<1> QED
  BY <1>1, <1>2, <1>3, <1>4, <1>5, EnqueueInv, CrashInv, ClaimUnansweredInv DEF Next

-----------------------------------------------------------------------------
LEMMA AlwaysReportInv == Spec => []ReportInv
BY InitReportInv, StepReportInv, PTL DEF Spec

(* Every variable keeps its type, the counters of renders and events too.   *)
THEOREM TypeCorrect == Spec => []TypeOK
<1>1. ReportInv => TypeOK
  BY DEF ReportInv
<1> QED BY <1>1, AlwaysReportInv, PTL

(* What a ready report serves is what its row's hashes cover, for any number *)
(* of runners, requests, crashes and failures (persistReady, markReady).    *)
THEOREM ServedIsHashed == Spec => []ReadyMatchesFiles
<1>1. ASSUME ReportInv, NEW r \in Reports, status[r] = "ready"
      PROVE  sha[r] # None /\ \A k \in Kinds : files[r][k] = sha[r]
  <2>1. RowIsSound(r)
    BY <1>1 DEF ReportInv
  <2> QED BY <1>1, <2>1 DEF RowIsSound
<1>2. ReportInv => ReadyMatchesFiles
  BY <1>1 DEF ReadyMatchesFiles
<1> QED BY <1>2, AlwaysReportInv, PTL

(* A hash of a ready report's file leads verify to that report and no other. *)
THEOREM VerificationFinds == Spec => []VerifyFindsOwner
<1>1. ASSUME ReportInv, NEW r \in Reports, NEW k \in Kinds, status[r] = "ready"
      PROVE  Matches(k, files[r][k]) = {r}
  <2>1. sha[r] = ref[r] /\ files[r][k] = ref[r] /\ ref[r] # None
    BY <1>1 DEF ReportInv, RowIsSound
  <2>2. \A s \in Reports : status[s] = "ready" /\ sha[s] = ref[r] => s = r
    BY <1>1, <2>1 DEF ReportInv, RowIsSound, NoSharing
  <2> QED BY <1>1, <2>1, <2>2 DEF Matches
<1>2. ReportInv => VerifyFindsOwner
  BY <1>1 DEF VerifyFindsOwner
<1> QED BY <1>2, AlwaysReportInv, PTL

(* No report is rendered twice, and no two runners have the same one.       *)
THEOREM RenderedAtMostOnce == Spec => []RenderedOnce
<1>1. ReportInv => RenderedOnce
  BY DEF ReportInv, RowIsSound, NoSharing, RenderedOnce
<1> QED BY <1>1, AlwaysReportInv, PTL

(* Rows and the report events of the audit log agree in every state.        *)
THEOREM LogAgreesWithRows == Spec => []LogAgrees
<1>1. ReportInv => LogAgrees
  BY DEF ReportInv
<1> QED BY <1>1, AlwaysReportInv, PTL

-----------------------------------------------------------------------------
(* Reports that hang.                                                       *)

LEMMA OneMoreStranded ==
  ASSUME IsFiniteSet(stranded), Cardinality(stranded) <= crashes + failures, TypeOK,
         NEW x, stranded' \subseteq stranded \cup {x}, crashes' + failures' = crashes + failures + 1
  PROVE  IsFiniteSet(stranded') /\ Cardinality(stranded') <= crashes' + failures'
<1>1. IsFiniteSet(stranded \cup {x}) /\ Cardinality(stranded \cup {x}) <= Cardinality(stranded) + 1
  <2>1. /\ IsFiniteSet(stranded \cup {x})
        /\ \/ Cardinality(stranded \cup {x}) = Cardinality(stranded)
           \/ Cardinality(stranded \cup {x}) = Cardinality(stranded) + 1
    BY FS_AddElement
  <2>2. Cardinality(stranded) \in Nat
    BY FS_CardinalityType
  <2> QED BY <2>1, <2>2
<1>2. IsFiniteSet(stranded') /\ Cardinality(stranded') <= Cardinality(stranded \cup {x})
  BY <1>1, FS_Subset
<1>3. Cardinality(stranded) \in Nat /\ Cardinality(stranded') \in Nat
      /\ Cardinality(stranded \cup {x}) \in Nat /\ crashes \in Int /\ failures \in Int
  BY <1>1, <1>2, FS_CardinalityType DEF TypeOK
<1> QED BY <1>1, <1>2, <1>3

LEMMA SameStranded ==
  ASSUME IsFiniteSet(stranded), Cardinality(stranded) <= crashes + failures, TypeOK,
         stranded' = stranded, crashes' = crashes, failures' \in {failures, failures + 1}
  PROVE  IsFiniteSet(stranded') /\ Cardinality(stranded') <= crashes' + failures'
<1>1. Cardinality(stranded) \in Nat /\ crashes \in Int /\ failures \in Int
  BY FS_CardinalityType DEF TypeOK
<1> QED BY <1>1

(* A step strands the report of the runner that takes it, or none.          *)
LEMMA WhatIsStranded ==
  ASSUME ReportInv, [Next]_vars
  PROVE  \/ /\ stranded' = stranded /\ crashes' = crashes /\ failures' \in {failures, failures + 1}
         \/ /\ crashes' + failures' = crashes + failures + 1
            /\ \E x : stranded' \subseteq stranded \cup {x}
<1> USE DEF boundVars, histVars
<1>1. CASE UNCHANGED vars
  BY <1>1 DEF vars
<1>2. ASSUME NEW q \in Requests, Request(q)
      PROVE  stranded' = stranded /\ crashes' = crashes /\ failures' \in {failures, failures + 1}
  BY <1>2 DEF Request, Draw, StoreDraft, StoreDraftFails, InsertReady, ReferenceTaken, InsertFails,
              CountRender, PutFails, Fail, GiveUp
<1>3. ASSUME NEW r \in Audits, NEW n \in References, EnqueueAudit(r, n)
      PROVE  stranded' = stranded /\ crashes' = crashes /\ failures' = failures
  BY <1>3 DEF EnqueueAudit
<1>4. ASSUME NEW i \in Instances, Run(i)
      PROVE  stranded' = stranded /\ crashes' = crashes /\ failures' \in {failures, failures + 1}
  BY <1>4 DEF Run, Render, Tick, ReadRow, ClaimQueued, NothingQueued, EndTick, Store, StoreFails,
              CountRender, PutFails, Fail, MarkReady, MarkReadyFails, NotifyRequester, NotifyFails,
              MarkFailed, RecordFailed
<1>5. ASSUME NEW i \in Instances, PassFails(i) \/ Crash(i)
      PROVE  crashes' + failures' = crashes + failures + 1 /\ stranded' \subseteq stranded \cup {job[i]}
  <2>1. crashes \in Int /\ failures \in Int
    BY DEF ReportInv, TypeOK
  <2> QED BY <1>5, <2>1 DEF PassFails, Crash, LetGo, Fail
<1>6. ASSUME NEW i \in Instances, NEW r \in Reports, ClaimUnanswered(i, r)
      PROVE  crashes' + failures' = crashes + failures + 1 /\ stranded' \subseteq stranded \cup {r}
  <2>1. crashes \in Int /\ failures \in Int
    BY DEF ReportInv, TypeOK
  <2> QED BY <1>6, <2>1 DEF ClaimUnanswered, Fail
<1> QED BY <1>1, <1>2, <1>3, <1>4, <1>5, <1>6 DEF Next

(* Who holds what is rendering.                                             *)
Held(r) == r \in stranded \/ \E i \in Instances : job[i] = r

LEMMA StillHeld ==
  ASSUME ReportInv, [Next]_vars, NEW r \in Audits, status[r] = "rendering" => Held(r),
         status'[r] = "rendering"
  PROVE  Held(r)'
<1> USE DEF histVars
<1>0. TypeOK /\ stranded \subseteq stranded' /\ r \in Reports /\ r # None
  <2>1. stranded \subseteq stranded'
    BY DEF Next, vars, histVars, Request, Draw, StoreDraft, StoreDraftFails, InsertReady,
           ReferenceTaken, InsertFails, CountRender, EnqueueAudit, Run, Render, Tick, ReadRow,
           ClaimQueued, NothingQueued, EndTick, Store, StoreFails, MarkReady, MarkReadyFails,
           NotifyRequester, NotifyFails, MarkFailed, RecordFailed, PassFails, LetGo, Crash,
           ClaimUnanswered
  <2> QED BY <2>1, IdsAssumption DEF ReportInv, Reports
<1>1. ASSUME UNCHANGED <<status, job>> PROVE Held(r)'
  BY <1>0, <1>1 DEF Held
<1>2. ASSUME NEW i \in Instances, NEW s \in Reports, ClaimQueued(i, s) PROVE Held(r)'
  <2>1. /\ job' = [job EXCEPT ![i] = s] /\ status' = [status EXCEPT ![s] = "rendering"]
        /\ job[i] = None
    BY <1>2 DEF ClaimQueued, StatusOnClaim, ReportInv, RunnerHolds
  <2>2. CASE r = s
    BY <1>0, <2>1, <2>2 DEF Held, TypeOK
  <2>3. CASE r # s
    BY <1>0, <2>1, <2>3 DEF Held, TypeOK
  <2> QED BY <2>2, <2>3
<1>3. ASSUME NEW i \in Instances, NEW s \in Reports, ClaimUnanswered(i, s) PROVE Held(r)'
  BY <1>0, <1>3 DEF ClaimUnanswered, StatusOnClaim, Held, TypeOK
<1>4. ASSUME NEW i \in Instances, PassFails(i) \/ Crash(i) PROVE Held(r)'
  <2>1. LetGo(i) /\ (status[r] = "rendering" \/ status'[r] = status[r])
    BY <1>0, <1>4 DEF PassFails, Crash, rowVars, WriteFailed, TypeOK
  <2>2. status[r] = "rendering"
    BY <1>0, <2>1
  <2> QED BY <1>0, <2>1, <2>2 DEF LetGo, Held, TypeOK
<1>5. ASSUME NEW i \in Instances, NotifyRequester(i) \/ RecordFailed(i) PROVE Held(r)'
  <2>1. job' = [job EXCEPT ![i] = None] /\ UNCHANGED status
    BY <1>5 DEF NotifyRequester, RecordFailed, NextJob, rowVars
  <2>2. job[i] # r
    BY <1>5, <2>1 DEF NotifyRequester, RecordFailed, ReportInv, RunnerHolds
  <2> QED BY <1>0, <2>1, <2>2 DEF Held, TypeOK
<1>6. ASSUME UNCHANGED job, status'[r] = status[r] PROVE Held(r)'
  BY <1>0, <1>6 DEF Held
<1>7. ASSUME NEW i \in Instances, MarkReady(i) \/ MarkReadyFails(i) \/ MarkFailed(i) PROVE Held(r)'
  <2>1. UNCHANGED job /\ (status'[r] = status[r] \/ status[r] = "rendering")
    BY <1>0, <1>7 DEF MarkReady, MarkReadyFails, MarkFailed, WriteReady, WriteFailed, TypeOK
  <2> QED BY <1>0, <2>1 DEF Held
<1>8. ASSUME NEW q \in Requests, Request(q) PROVE Held(r)'
  <2>1. UNCHANGED job
    BY <1>8 DEF Request, Draw, StoreDraft, StoreDraftFails, InsertReady, ReferenceTaken,
                InsertFails, GiveUp, runnerVars
  <2>2. UNCHANGED status \/ InsertRow(q)
    BY <1>8 DEF Request, Draw, StoreDraft, StoreDraftFails, InsertReady, ReferenceTaken,
                InsertFails, rowVars
  <2>3. status'[r] = status[r]
    BY <1>0, <2>2 DEF InsertRow, TypeOK
  <2> QED BY <1>6, <2>1, <2>3
<1>9. ASSUME NEW s \in Audits, NEW n \in References, EnqueueAudit(s, n) PROVE Held(r)'
  <2>1. UNCHANGED job /\ status'[r] = status[r]
    BY <1>0, <1>9 DEF EnqueueAudit, runnerVars, TypeOK
  <2> QED BY <1>6, <2>1
<1>10. ASSUME NEW i \in Instances,
              \/ Tick(i) \/ ReadRow(i) \/ NothingQueued(i) \/ EndTick(i) \/ Store(i)
              \/ StoreFails(i) \/ NotifyFails(i)
       PROVE  Held(r)'
  <2>1. UNCHANGED <<status, job>>
    BY <1>10 DEF Tick, ReadRow, NothingQueued, EndTick, Store, StoreFails, NotifyFails, rowVars
  <2> QED BY <1>1, <2>1
<1>11. CASE UNCHANGED vars
  BY <1>1, <1>11 DEF vars, rowVars, runnerVars
<1> QED
  BY <1>2, <1>3, <1>4, <1>5, <1>7, <1>8, <1>9, <1>10, <1>11 DEF Next, Run, Render

(* A report stays "rendering" with no runner at it only where one let go of  *)
(* it, and there are no more of those than failures and crashes: nothing in  *)
(* claimQueued and renderQueued loses a report without one.                  *)
THEOREM HangingTakesTrouble == Spec => []OnlyTroubleStrands
<1>1. Init => OnlyTroubleStrands
  <2>1. ASSUME Init PROVE OnlyTroubleStrands
    BY <2>1, FS_EmptySet DEF Init, OnlyTroubleStrands, Reports
  <2> QED BY <2>1
<1>2. ReportInv /\ OnlyTroubleStrands /\ [Next]_vars => OnlyTroubleStrands'
  <2> SUFFICES ASSUME ReportInv, OnlyTroubleStrands, [Next]_vars PROVE OnlyTroubleStrands'
    OBVIOUS
  <2>1. TypeOK
    BY DEF ReportInv
  <2>2. IsFiniteSet(stranded') /\ Cardinality(stranded') <= crashes' + failures'
    BY <2>1, WhatIsStranded, OneMoreStranded, SameStranded DEF OnlyTroubleStrands
  <2>3. ASSUME NEW r \in Audits, status'[r] = "rendering" PROVE Held(r)'
    BY <2>3, StillHeld DEF OnlyTroubleStrands, Held
  <2> QED BY <2>2, <2>3 DEF OnlyTroubleStrands, Held
<1> QED BY <1>1, <1>2, AlwaysReportInv, PTL DEF Spec

-----------------------------------------------------------------------------
(* A report moves forward only, whoever moves it.                           *)
THEOREM MovesForward == Spec => ForwardOnly
<1> DEFINE Moves == {<<"none", "ready">>, <<"none", "queued">>, <<"queued", "rendering">>,
                     <<"rendering", "ready">>, <<"rendering", "failed">>, <<"ready", "failed">>}
           Forward == \A r \in Reports : status'[r] # status[r] => <<status[r], status'[r]>> \in Moves
<1>1. ASSUME ReportInv, [Next]_vars PROVE Forward
  <2>1. TypeOK
    BY <1>1 DEF ReportInv
  <2>2. ASSUME NEW x, NEW new, status' = [status EXCEPT ![x] = new], <<status[x], new>> \in Moves
        PROVE  Forward
    BY <2>1, <2>2 DEF TypeOK
  <2>3. ASSUME UNCHANGED status PROVE Forward
    BY <2>3
  <2> HIDE DEF Forward
  <2>4. ASSUME NEW q \in Requests, Request(q) PROVE Forward
    <3>1. CASE (InsertReady(q) \/ InsertFails(q)) /\ ~UNCHANGED status
      <4>1. status[draft[q].id] = "none" /\ status' = [status EXCEPT ![draft[q].id] = "ready"]
        BY <1>1, <3>1 DEF InsertReady, InsertFails, InsertRow, rowVars, ReportInv, RequestHolds
      <4> QED BY <2>2, <4>1
    <3>2. CASE ~((InsertReady(q) \/ InsertFails(q)) /\ ~UNCHANGED status)
      <4>1. UNCHANGED status
        BY <2>4, <3>2 DEF Request, Draw, StoreDraft, StoreDraftFails, ReferenceTaken, rowVars
      <4> QED BY <4>1, <2>3
    <3> QED BY <3>1, <3>2
  <2>5. ASSUME NEW r \in Audits, NEW n \in References, EnqueueAudit(r, n) PROVE Forward
    BY <2>2, <2>5 DEF EnqueueAudit
  <2>6. ASSUME NEW i \in Instances, NEW r \in Reports,
               ClaimQueued(i, r) \/ ClaimUnanswered(i, r)
        PROVE  Forward
    BY <2>2, <2>6 DEF ClaimQueued, ClaimUnanswered, StatusOnClaim
  <2>7. ASSUME NEW i \in Instances, MarkReady(i) \/ MarkReadyFails(i) PROVE Forward
    <3>1. status[job[i]] = "rendering"
      BY <1>1, <2>7 DEF MarkReady, MarkReadyFails, ReportInv, RunnerHolds
    <3>2. status' = [status EXCEPT ![job[i]] = "ready"] \/ UNCHANGED status
      BY <2>7 DEF MarkReady, MarkReadyFails, WriteReady
    <3> QED BY <2>2, <2>3, <3>1, <3>2
  <2>8. ASSUME NEW i \in Instances, MarkFailed(i) \/ PassFails(i) PROVE Forward
    <3>1. CASE UNCHANGED status
      BY <2>3, <3>1
    <3>2. CASE ~UNCHANGED status
      <4>1. status[job[i]] \in {"rendering", "ready"} /\ WriteFailed(job[i])
        BY <1>1, <2>8, <3>2 DEF MarkFailed, PassFails, ReportInv, RunnerHolds
      <4> QED BY <2>2, <4>1 DEF WriteFailed
    <3> QED BY <3>1, <3>2
  <2>9. ASSUME NEW i \in Instances,
               \/ Tick(i) \/ ReadRow(i) \/ NothingQueued(i) \/ EndTick(i) \/ Store(i)
               \/ StoreFails(i) \/ NotifyRequester(i) \/ NotifyFails(i) \/ RecordFailed(i) \/ Crash(i)
        PROVE  Forward
    <3>1. UNCHANGED status
      BY <2>9 DEF Tick, ReadRow, NothingQueued, EndTick, Store, StoreFails, NotifyRequester,
                  NotifyFails, RecordFailed, Crash, rowVars
    <3> QED BY <2>3, <3>1
  <2>10. CASE UNCHANGED vars
    BY <2>3, <2>10 DEF vars, rowVars
  <2> QED
    BY <1>1, <2>4, <2>5, <2>6, <2>7, <2>8, <2>9, <2>10 DEF Next, Run, Render
<1>2. Spec => [][Next]_vars
  BY DEF Spec
<1>3. [][Forward]_vars => ForwardOnly
  BY DEF ForwardOnly
<1> QED BY <1>1, <1>2, <1>3, AlwaysReportInv, PTL

=============================================================================
