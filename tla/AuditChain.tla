------------------------------ MODULE AuditChain ------------------------------
(***************************************************************************)
(* The audit log of apps/api: every org has a hash chain of audit events,  *)
(* and AuditService.record appends to it under a FOR UPDATE lock of the    *)
(* org's row: in the transaction of the change it describes, or, in login, *)
(* logout, updateProfile and report.failed, in one of its own after it.    *)
(*                                                                         *)
(* A request is a program of database steps (Program).  What the services  *)
(* do to the org's row, and so how they wait for each other on Postgres,   *)
(* is all that is kept of them:                                            *)
(*   write   an insert with a foreign key to the org: FOR KEY SHARE        *)
(*   update  a change of a row that leaves the org's row alone             *)
(*   lock    SELECT ... FROM orgs ... FOR UPDATE                           *)
(*   record  AuditService.record: FOR UPDATE, read the last event, insert  *)
(*   commit  the end of a transaction; the next step opens another one     *)
(* Locks are held to the end of the transaction.  Each event's actor,      *)
(* action, target and metadata are the request that wrote it.              *)
(***************************************************************************)
EXTENDS Naturals, Sequences, FiniteSets

CONSTANTS
  Orgs,            (* orgs row ids                                          *)
  Requests,        (* requests, and job runs, that change something         *)
  Program,         (* Program[r]: the steps [op, org] of request r          *)
  Separate,        (* those whose service records in a later transaction    *)
  Serialised,      (* those whose service locks its org's row first         *)
  Together,        (* the sets of requests that are made at the same time   *)
  AuditHash(_, _), (* hash of a predecessor's hash, seq and data            *)
  GENESIS_HASH,    (* prevHash of the first event                           *)
  MaxFailures      (* bound on transactions that fail on their own          *)

Ops == {"write", "update", "lock", "record", "commit"}

ASSUME ProgramAssumption ==
  /\ Program \in [Requests -> Seq([op : Ops, org : Orgs])]
  /\ \A r \in Requests : Len(Program[r]) > 0 /\ Program[r][Len(Program[r])].op = "commit"
ASSUME FailuresAssumption == MaxFailures \in Nat
ASSUME KindsAssumption ==
  Separate \subseteq Requests /\ Serialised \subseteq Requests /\ Together \subseteq SUBSET Requests

VARIABLES
  pc,       (* pc[r]: the step of Program[r] that comes next               *)
  phase,    (* phase[r]: how far a record has come                         *)
  status,   (* status[r]: "unsent", "running", "done" or "failed"          *)
  share,    (* share[o]: requests that hold FOR KEY SHARE on o's row       *)
  excl,     (* excl[o]: requests that hold FOR UPDATE on o's row           *)
  last,     (* last[r]: seq and hash of the newest event r's record read   *)
  events,   (* the committed rows of audit_events                          *)
  pending,  (* pending[r]: rows that r's transaction has inserted          *)
  dirty,    (* dirty[r]: r's transaction has changed something             *)
  changed,  (* history: a change of r has been committed                   *)
  failures  (* counter for MaxFailures                                     *)

requestVars == <<pc, phase, status, last>>
lockVars    == <<share, excl>>
txVars      == <<pending, dirty>>
vars == <<requestVars, lockVars, txVars, events, changed, failures>>

(* The hash covers the predecessor's hash, seq and everything r recorded.   *)
HashOf(prev, n, r) == AuditHash(prev, <<n, r>>)

Event(o, n, prev, r) ==
  [org |-> o, seq |-> n, prev |-> prev, by |-> r, hash |-> HashOf(prev, n, r)]

Init ==
  /\ pc = [r \in Requests |-> 1]
  /\ phase = [r \in Requests |-> "start"]
  /\ \E S \in Together :
       status = [r \in Requests |-> IF r \in S THEN "running" ELSE "unsent"]
  /\ share = [o \in Orgs |-> {}]
  /\ excl = [o \in Orgs |-> {}]
  /\ last = [r \in Requests |-> [seq |-> 0, hash |-> GENESIS_HASH]]
  /\ events = {}
  /\ pending = [r \in Requests |-> {}]
  /\ dirty = [r \in Requests |-> FALSE]
  /\ changed = [r \in Requests |-> FALSE]
  /\ failures = 0

-----------------------------------------------------------------------------
(* Row locks.                                                               *)

AtStep(r, op) == status[r] = "running" /\ Program[r][pc[r]].op = op
Org(r) == Program[r][pc[r]].org
Advance(r) == pc' = [pc EXCEPT ![r] = @ + 1]

WantsShare(r) == AtStep(r, "write")
WantsUpdate(r) == AtStep(r, "lock") \/ (AtStep(r, "record") /\ phase[r] = "start")

(* record runs in a savepoint of its caller's transaction: the locks of the *)
(* caller are its own.                                                      *)
(* Mutant: a caller that does not pass its transaction on. *)
LocksOfAnotherConnection(r) == {}
OwnLocks(r) == {r}

(* The requests whose locks r has to wait for.                              *)
NobodyIsWaitedFor(r) == {}
WaitsFor(r) ==
  CASE WantsShare(r) -> excl[Org(r)] \ {r}
    [] WantsUpdate(r) -> (excl[Org(r)] \cup share[Org(r)]) \ OwnLocks(r)
    [] OTHER -> {}

LockRow(r, held) == held' = [held EXCEPT ![Org(r)] = @ \cup {r}]
Unlock(r, held) == [o \in Orgs |-> held[o] \ {r}]

(* Every member waits for another one, and is waited for by another one.    *)
Cycle(D) == /\ D # {}
            /\ \A x \in D : /\ \E y \in D \ {x} : y \in WaitsFor(x)
                            /\ \E y \in D \ {x} : x \in WaitsFor(y)
Waiting == {r \in Requests : WaitsFor(r) # {}}
Deadlocked(r) == r \in Waiting /\ \E D \in SUBSET Waiting : r \in D /\ Cycle(D)

-----------------------------------------------------------------------------
(* Steps of a request.                                                      *)

Write(r) ==
  /\ AtStep(r, "write")
  /\ WaitsFor(r) = {}
  /\ LockRow(r, share)
  /\ dirty' = [dirty EXCEPT ![r] = TRUE]
  /\ Advance(r)
  /\ UNCHANGED <<phase, status, last, excl, pending, events, changed, failures>>

Update(r) ==
  /\ AtStep(r, "update")
  /\ dirty' = [dirty EXCEPT ![r] = TRUE]
  /\ Advance(r)
  /\ UNCHANGED <<phase, status, last, lockVars, pending, events, changed, failures>>

LockOrg(r) ==
  /\ AtStep(r, "lock")
  /\ WaitsFor(r) = {}
  /\ LockRow(r, excl)
  /\ Advance(r)
  /\ UNCHANGED <<phase, status, last, share, txVars, events, changed, failures>>

RecordLock(r) ==
  /\ AtStep(r, "record") /\ phase[r] = "start"
  /\ WaitsFor(r) = {}
  /\ LockRow(r, excl)
  /\ phase' = [phase EXCEPT ![r] = "locked"]
  /\ UNCHANGED <<pc, status, last, share, txVars, events, changed, failures>>

(* A transaction sees what is committed and what it has inserted itself.    *)
Visible(r) == {e \in events \cup pending[r] : e.org = Org(r)}

(* ORDER BY seq DESC LIMIT 1; no row: the chain is about to start.          *)
RecordRead(r) ==
  /\ AtStep(r, "record") /\ phase[r] = "locked"
  /\ \/ /\ Visible(r) = {}
        /\ last' = [last EXCEPT ![r] = [seq |-> 0, hash |-> GENESIS_HASH]]
     \/ \E top \in Visible(r) :
          /\ \A e \in Visible(r) : e.seq <= top.seq
          /\ last' = [last EXCEPT ![r] = [seq |-> top.seq, hash |-> top.hash]]
  /\ phase' = [phase EXCEPT ![r] = "read"]
  /\ UNCHANGED <<pc, status, lockVars, txVars, events, changed, failures>>

GenesisAlways(r) == GENESIS_HASH
PrevHash(r) == last[r].hash
NewEvent(r) == Event(Org(r), last[r].seq + 1, PrevHash(r), r)

(* Mutant: with the error swallowed.                                        *)
RecordSwallowed(r) ==
  /\ AtStep(r, "record") /\ phase[r] = "read"
  /\ phase' = [phase EXCEPT ![r] = "start"]
  /\ Advance(r)
  /\ UNCHANGED <<status, last, lockVars, txVars, events, changed, failures>>
RecordInsert(r) ==
  /\ AtStep(r, "record") /\ phase[r] = "read"
  /\ pending' = [pending EXCEPT ![r] = @ \cup {NewEvent(r)}]
  /\ phase' = [phase EXCEPT ![r] = "start"]
  /\ Advance(r)
  /\ UNCHANGED <<status, last, lockVars, dirty, events, changed, failures>>

EndTransaction(r) ==
  /\ share' = Unlock(r, share)
  /\ excl' = Unlock(r, excl)
  /\ pending' = [pending EXCEPT ![r] = {}]
  /\ dirty' = [dirty EXCEPT ![r] = FALSE]

LastStep(r) == pc[r] = Len(Program[r])

Commit(r) ==
  /\ AtStep(r, "commit")
  /\ events' = events \cup pending[r]
  /\ changed' = [changed EXCEPT ![r] = @ \/ dirty[r]]
  /\ EndTransaction(r)
  /\ IF LastStep(r)
       THEN status' = [status EXCEPT ![r] = "done"] /\ pc' = pc
       ELSE status' = status /\ Advance(r)
  /\ UNCHANGED <<phase, last, failures>>

(* The transaction rolls back and the request answers with an error; what   *)
(* an earlier transaction of the request committed stays.                   *)
RollBack(r) ==
  /\ status' = [status EXCEPT ![r] = "failed"]
  /\ EndTransaction(r)
  /\ UNCHANGED <<pc, phase, last, events, changed>>

(* A statement fails, the connection is lost or the process dies.           *)
Abort(r) ==
  /\ status[r] = "running"
  /\ failures < MaxFailures
  /\ failures' = failures + 1
  /\ RollBack(r)

(* Postgres ends a deadlock by failing one of the waiting transactions.     *)
DeadlockAbort(r) ==
  /\ Deadlocked(r)
  /\ RollBack(r)
  /\ UNCHANGED failures

-----------------------------------------------------------------------------
Step(r) == \/ Write(r) \/ Update(r) \/ LockOrg(r)
           \/ RecordLock(r) \/ RecordRead(r) \/ RecordInsert(r)
           \/ Commit(r)

AllAnswered == (\A r \in Requests : status[r] # "running") /\ UNCHANGED vars

Next == (\E r \in Requests : Step(r) \/ Abort(r) \/ DeadlockAbort(r)) \/ AllAnswered

Spec == Init /\ [][Next]_vars

(* The event loop and Postgres carry on with some transaction that is not   *)
(* waiting for a lock, or Postgres ends a deadlock, as long as there is one.*)
Fairness == WF_vars(\E r \in Requests : Step(r) \/ DeadlockAbort(r))
FairSpec == Spec /\ Fairness

-----------------------------------------------------------------------------
TypeOK ==
  /\ pc \in [Requests -> Nat \ {0}]
  /\ \A r \in Requests : pc[r] <= Len(Program[r])
  /\ phase \in [Requests -> {"start", "locked", "read"}]
  /\ status \in [Requests -> {"unsent", "running", "done", "failed"}]
  /\ share \in [Orgs -> SUBSET Requests]
  /\ excl \in [Orgs -> SUBSET Requests]
  /\ DOMAIN last = Requests /\ \A r \in Requests : last[r].seq \in Nat
  /\ DOMAIN pending = Requests
  /\ \A e \in events \cup UNION {pending[r] : r \in Requests} :
       e.org \in Orgs /\ e.seq \in Nat \ {0} /\ e.by \in Requests
  /\ dirty \in [Requests -> BOOLEAN]
  /\ changed \in [Requests -> BOOLEAN]
  /\ failures \in 0..MaxFailures

(* What GET /v1/audit/verify computes for the rows of an org: seq counts    *)
(* from one, and every row carries the hash of its predecessor and of its   *)
(* own data.                                                                *)
Follows(e, rows) ==
  \/ e.seq = 1 /\ e.prev = GENESIS_HASH
  \/ \E p \in rows : p.seq + 1 = e.seq /\ p.hash = e.prev
Verifies(rows) ==
  /\ \A e \in rows : Follows(e, rows) /\ e.hash = HashOf(e.prev, e.seq, e.by)
  /\ \A e, f \in rows : e.seq = f.seq => e = f
RowsOf(o) == {e \in events : e.org = o}

(* However requests interleave, fail and deadlock, no chain ever forks or   *)
(* has a gap: record holds the org's row from its read of the last event to *)
(* the commit of the event it appends.                                      *)
ChainVerifies == \A o \in Orgs : Verifies(RowsOf(o))

(* Only the holder of the org's row has events for its chain in hand, so an *)
(* insert never runs into the unique index on (org_id, seq).                *)
AppendsDoNotCollide ==
  \A r \in Requests : \A e \in pending[r] :
    \A f \in events \cup UNION {pending[q] : q \in Requests \ {r}} :
      e.org = f.org => e.seq # f.seq

(* An event describes a change that was committed, never one that was       *)
(* rolled back.  A committed change has its event in the log of every org it*)
(* concerns; only a request that records in a transaction of its own can    *)
(* lose it, and is then not answered with success.                          *)
ChangeIs(r, n) == Program[r][n].op \in {"write", "update"}
InEveryLog(r) ==
  \A n \in DOMAIN Program[r] :
    Program[r][n].op = "record" => \E e \in RowsOf(Program[r][n].org) : e.by = r
ChangeIsAudited ==
  \A r \in Requests :
    changed[r] /\ (r \in Separate => status[r] = "done") => InEveryLog(r)
AuditTellsTheTruth == \A e \in events : changed[e.by]
LogTellsAll == ChangeIsAudited /\ AuditTellsTheTruth

(* A service that locks its org's row before it writes anything, and locks  *)
(* no other, is never caught in a deadlock, whatever the inserts that       *)
(* upgrade their key-share lock and the resets of several orgs do.          *)
SerialisedAreSpared == \A D \in SUBSET Waiting : Cycle(D) => D \cap Serialised = {}

(* AuditService.verify reads the events of an org in the order of seq and   *)
(* stops at the first that does not fit.                                    *)
InOrder(rows) ==
  [i \in 1..Cardinality(rows) |->
     CHOOSE e \in rows : Cardinality({f \in rows : f.seq < e.seq}) = i - 1]

(* Mutant: without the comparison of prevHash. *)
FitsAnyPredecessor(s, i) ==
  s[i].seq = i /\ s[i].hash = HashOf(s[i].prev, s[i].seq, s[i].by)
Fits(s, i) ==
  LET prevHash == IF i = 1 THEN GENESIS_HASH ELSE s[i - 1].hash IN
  s[i].seq = i /\ s[i].prev = prevHash /\ s[i].hash = HashOf(prevHash, s[i].seq, s[i].by)

BreaksAt(s, i) == ~Fits(s, i) /\ \A j \in 1..(i - 1) : Fits(s, j)

BrokenAt(n, checked) == [valid |-> FALSE, checked |-> checked, brokenAt |-> n]
AllFit(checked) == [valid |-> TRUE, checked |-> checked]

Verify(rows) ==
  LET s == InOrder(rows) IN
  IF \A i \in DOMAIN s : Fits(s, i)
    THEN AllFit(Cardinality(rows))
    ELSE LET i == CHOOSE i \in DOMAIN s : BreaksAt(s, i) IN BrokenAt(s[i].seq, i - 1)

(* The chain is found broken after every stored event that was altered or   *)
(* deleted, with its hash recomputed or not, except for the newest one.     *)
WithoutNewHash(e, r) ==
  [org |-> e.org, seq |-> e.seq, prev |-> e.prev, by |-> r, hash |-> e.hash]
TamperEvident ==
  \A e \in events : \A r \in Requests \ {e.by} :
    LET rest == RowsOf(e.org) \ {e} IN
    /\ ~Verifies(rest \cup {WithoutNewHash(e, r)})
    /\ (\E f \in rest : f.seq = e.seq + 1) =>
         /\ ~Verifies(rest \cup {Event(e.org, e.seq, e.prev, r)})
         /\ ~Verifies(rest)

(* What verify answers about an event that was altered or deleted in the    *)
(* database: an altered event is named itself; one whose hash was forged    *)
(* along, or that was deleted, is given away by its successor, and only     *)
(* then.  An untouched chain is valid.                                      *)
VerifyLocates ==
  /\ \A o \in Orgs : Verify(RowsOf(o)) = AllFit(Cardinality(RowsOf(o)))
  /\ \A e \in events : \A r \in Requests \ {e.by} :
       LET rows == RowsOf(e.org)
           rest == rows \ {e}
           n == e.seq
           forged == Verify(rest \cup {Event(e.org, n, e.prev, r)})
           deleted == Verify(rest)
       IN /\ Verify(rest \cup {WithoutNewHash(e, r)}) = BrokenAt(n, n - 1)
          /\ IF \E f \in rest : f.seq = n + 1
               THEN forged = BrokenAt(n + 1, n) /\ deleted = BrokenAt(n + 1, n - 1)
               ELSE forged.valid /\ deleted.valid

(* No tampering goes unnoticed, and verify says where it is.                *)
TamperingIsFound == TamperEvident /\ VerifyLocates

(* Every request is answered: no lock is waited for forever.                *)
EveryRequestEnds == <>(\A r \in Requests : status[r] # "running")

(* Deadlocks spare who locks first, and each is one that Postgres can see   *)
(* and break.                                                               *)
DeadlocksAreBroken == []SerialisedAreSpared /\ EveryRequestEnds

-----------------------------------------------------------------------------
(* The strengthening behind the proofs in AuditChainProofs.                 *)

(* What r would see in o's chain. *)
Sees(r, o) == {e \in events \cup pending[r] : e.org = o}

OneHolder ==
  /\ \A o \in Orgs : \A r, q \in excl[o] : r = q
  /\ \A r \in Requests : status[r] = "running" /\ phase[r] # "start" =>
       AtStep(r, "record") /\ r \in excl[Org(r)]
  /\ \A r \in Requests : \A e \in pending[r] : r \in excl[e.org]

PendingIsNew == \A r \in Requests : \A e \in pending[r] : e \notin events

LastIsCurrent(r) ==
  \/ Visible(r) = {} /\ last[r] = [seq |-> 0, hash |-> GENESIS_HASH]
  \/ \E top \in Visible(r) : /\ \A e \in Visible(r) : e.seq <= top.seq
                            /\ last[r] = [seq |-> top.seq, hash |-> top.hash]
ReadIsCurrent ==
  \A r \in Requests : status[r] = "running" /\ phase[r] = "read" => LastIsCurrent(r)

EverySightVerifies == \A r \in Requests, o \in Orgs : Verifies(Sees(r, o))

(* No seq is left out.                                                      *)
Numbered(rows) == \E n \in Nat : {e.seq : e \in rows} = 1..n
EverySightIsNumbered ==
  \A o \in Orgs : Numbered(RowsOf(o)) /\ \A r \in Requests : Numbered(Sees(r, o))

(* The changes of r that an event may describe come before it.              *)
AuditsAfterChange ==
  \A r \in Requests : \A n \in DOMAIN Program[r] :
    Program[r][n].op = "record" => \E j \in 1..(n - 1) : ChangeIs(r, j)

(* A change of r is committed, and recorded later.                          *)
RecordsApart(r) ==
  \E i, k, n \in DOMAIN Program[r] :
    /\ i < k /\ k < n
    /\ ChangeIs(r, i) /\ Program[r][k].op = "commit" /\ Program[r][n].op = "record"
OnlySeparateRecordApart == \A r \in Requests \ Separate : ~RecordsApart(r)

LogIsSound(r) ==
  /\ \A e \in pending[r] : e.by = r
  /\ status[r] = "running" =>
       /\ dirty[r] => \E j \in 1..(pc[r] - 1) : ChangeIs(r, j)
       /\ (\E j \in 1..(pc[r] - 1) : ChangeIs(r, j)) => dirty[r] \/ changed[r]
       /\ pending[r] # {} => dirty[r] \/ changed[r]
       /\ \A n \in 1..(pc[r] - 1) :
            Program[r][n].op = "record" => \E e \in Sees(r, Program[r][n].org) : e.by = r
  /\ status[r] = "done" => InEveryLog(r)
  /\ r \notin Separate /\ changed[r] => InEveryLog(r)
LogInv == (\A r \in Requests : LogIsSound(r)) /\ AuditTellsTheTruth

(* The steps of r's transaction before step n include one of the given kind.*)
InTransaction(r, n, ops) ==
  \E j \in 1..(n - 1) :
    Program[r][j].op \in ops /\ \A k \in j..(n - 1) : Program[r][k].op # "commit"

(* r locks the row of its one org before it inserts or records.             *)
LocksFirst(r) ==
  \A n \in DOMAIN Program[r] :
    /\ Program[r][n].org = Program[r][1].org
    /\ Program[r][n].op \in {"write", "record"} => InTransaction(r, n, {"lock"})
SerialisedLockFirst == \A r \in Serialised : LocksFirst(r)

LocksInv ==
  /\ \A o \in Orgs : \A r \in excl[o] : share[o] \subseteq {r}
  /\ \A r \in Serialised : status[r] = "running" =>
       IF InTransaction(r, pc[r], {"lock"})
         THEN r \in excl[Org(r)]
         ELSE \A o \in Orgs : r \notin excl[o] \cup share[o]

=============================================================================
