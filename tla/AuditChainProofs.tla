--------------------------- MODULE AuditChainProofs ---------------------------
(***************************************************************************)
(* Proofs about AuditChain, for any requests, programs and orgs.           *)
(***************************************************************************)
EXTENDS AuditChain, SequenceTheorems, FiniteSetTheorems, TLAPS

(* A step names an org, and only a commit can be the last one.              *)
LEMMA ProgramStep ==
  ASSUME NEW r \in Requests, NEW j \in 1..Len(Program[r])
  PROVE  /\ Len(Program[r]) \in Nat
         /\ Program[r][j].org \in Orgs
         /\ Program[r][j].op # "commit" => j < Len(Program[r])
<1> DEFINE p == Program[r]
<1>1. p \in Seq([op : Ops, org : Orgs]) /\ p[Len(p)].op = "commit"
  BY ProgramAssumption
<1>2. j \in 1..Len(p)
  OBVIOUS
<1> HIDE DEF p
<1>3. Len(p) \in Nat /\ p[j] \in [op : Ops, org : Orgs]
  BY <1>1, <1>2, ElementOfSeq, LenProperties, Zenon
<1>4. p[j].op # "commit" => j < Len(p)
  BY <1>1, <1>2, <1>3
<1> QED BY <1>3, <1>4 DEF p

LEMMA OrgIsOrg ==
  ASSUME TypeOK, NEW r \in Requests
  PROVE  Org(r) \in Orgs
<1>1. Len(Program[r]) \in Nat
  BY ProgramAssumption
<1>2. pc[r] \in 1..Len(Program[r])
  BY <1>1 DEF TypeOK
<1> QED BY <1>2, ProgramStep DEF Org

LEMMA EventIsEvent ==
  ASSUME TypeOK, NEW r \in Requests, NEW e \in events \cup pending[r]
  PROVE  e.org \in Orgs /\ e.seq \in Nat \ {0} /\ e.by \in Requests
BY DEF TypeOK

LEMMA InitTypeOK == Init => TypeOK
BY ProgramAssumption, FailuresAssumption DEF Init, TypeOK

LEMMA StepTypeOK == TypeOK /\ [Next]_vars => TypeOK'
<1> SUFFICES ASSUME TypeOK, [Next]_vars PROVE TypeOK'
  OBVIOUS
<1> USE FailuresAssumption
<1> USE DEF TypeOK, lockVars, txVars
<1>0. \A r \in Requests :
        /\ Org(r) \in Orgs
        /\ \A op \in Ops \ {"commit"} : AtStep(r, op) => pc[r] < Len(Program[r])
        /\ Len(Program[r]) \in Nat
  <2> SUFFICES ASSUME NEW r \in Requests
               PROVE  /\ Org(r) \in Orgs
                      /\ \A op \in Ops \ {"commit"} : AtStep(r, op) => pc[r] < Len(Program[r])
                      /\ Len(Program[r]) \in Nat
    OBVIOUS
  <2>1. Len(Program[r]) \in Nat
    BY ProgramAssumption
  <2>2. pc[r] \in 1..Len(Program[r])
    BY <2>1
  <2> QED BY <2>1, <2>2, ProgramStep DEF Org, AtStep
<1>a. ASSUME NEW r \in Requests, pc[r] < Len(Program[r]), Advance(r)
      PROVE  pc' \in [Requests -> Nat \ {0}] /\ \A q \in Requests : pc'[q] <= Len(Program[q])
  BY <1>0, <1>a DEF Advance
<1>d. ASSUME dirty' \in [Requests -> BOOLEAN], pc' \in [Requests -> Nat \ {0}],
             \A q \in Requests : pc'[q] <= Len(Program[q]),
             share' \in [Orgs -> SUBSET Requests],
             UNCHANGED <<phase, status, last, excl, pending, events, changed, failures>>
      PROVE  TypeOK'
  <2>1. /\ phase' \in [Requests -> {"start", "locked", "read"}]
        /\ status' \in [Requests -> {"unsent", "running", "done", "failed"}]
        /\ excl' \in [Orgs -> SUBSET Requests]
        /\ changed' \in [Requests -> BOOLEAN]
        /\ failures' \in 0..MaxFailures
    BY <1>d, Zenon
  <2>2. /\ DOMAIN last' = Requests /\ \A q \in Requests : last'[q].seq \in Nat
        /\ DOMAIN pending' = Requests
        /\ \A e \in events' \cup UNION {pending'[q] : q \in Requests} :
             e.org \in Orgs /\ e.seq \in Nat \ {0} /\ e.by \in Requests
    BY <1>d, SMT
  <2> HIDE DEF TypeOK
  <2> QED BY <1>d, <2>1, <2>2, Zenon DEF TypeOK
<1>1. ASSUME NEW r \in Requests, Write(r) PROVE TypeOK'
  <2>1. pc' \in [Requests -> Nat \ {0}] /\ \A q \in Requests : pc'[q] <= Len(Program[q])
    BY <1>0, <1>a, <1>1 DEF Write, Ops
  <2>2. share' \in [Orgs -> SUBSET Requests]
    BY <1>0, <1>1 DEF Write, LockRow
  <2>3. dirty' \in [Requests -> BOOLEAN]
    BY <1>1, Zenon DEF Write
  <2>4. UNCHANGED <<phase, status, last, excl, pending, events, changed, failures>>
    BY <1>1, Zenon DEF Write
  <2> HIDE DEF TypeOK
  <2> QED BY <1>d, <2>1, <2>2, <2>3, <2>4
<1>2. ASSUME NEW r \in Requests, Update(r) PROVE TypeOK'
  <2>1. pc' \in [Requests -> Nat \ {0}] /\ \A q \in Requests : pc'[q] <= Len(Program[q])
    BY <1>0, <1>a, <1>2 DEF Update, Ops
  <2>2. dirty' \in [Requests -> BOOLEAN]
    BY <1>2, Zenon DEF Update
  <2>3. UNCHANGED <<phase, status, last, share, excl, pending, events, changed, failures>>
    BY <1>2, Zenon DEF Update
  <2>4. share' \in [Orgs -> SUBSET Requests]
    BY <2>3, Zenon
  <2> HIDE DEF TypeOK
  <2> QED BY <1>d, <2>1, <2>2, <2>3, <2>4
<1>3. ASSUME NEW r \in Requests, LockOrg(r) PROVE TypeOK'
  <2>1. pc' \in [Requests -> Nat \ {0}] /\ \A q \in Requests : pc'[q] <= Len(Program[q])
    BY <1>0, <1>a, <1>3 DEF LockOrg, Ops
  <2>2. excl' \in [Orgs -> SUBSET Requests]
    BY <1>0, <1>3 DEF LockOrg, LockRow
  <2> QED BY <1>3, <2>1, <2>2 DEF LockOrg
<1>4. ASSUME NEW r \in Requests, RecordLock(r) PROVE TypeOK'
  <2>1. excl' \in [Orgs -> SUBSET Requests]
    BY <1>0, <1>4 DEF RecordLock, LockRow
  <2> QED BY <1>4, <2>1 DEF RecordLock
<1>5. ASSUME NEW r \in Requests, RecordRead(r) PROVE TypeOK'
  <2>1. PICK n \in Nat : \E h : last' = [last EXCEPT ![r] = [seq |-> n, hash |-> h]]
    BY <1>5 DEF RecordRead, Visible
  <2> QED BY <1>5, <2>1 DEF RecordRead
<1>6. ASSUME NEW r \in Requests, RecordInsert(r) PROVE TypeOK'
  <2>1. pc' \in [Requests -> Nat \ {0}] /\ \A q \in Requests : pc'[q] <= Len(Program[q])
    BY <1>0, <1>a, <1>6 DEF RecordInsert, Ops
  <2>2. /\ NewEvent(r).org \in Orgs
        /\ NewEvent(r).seq \in Nat \ {0}
        /\ NewEvent(r).by \in Requests
    BY <1>0 DEF NewEvent, Event
  <2>3. pending' = [pending EXCEPT ![r] = pending[r] \cup {NewEvent(r)}] /\ events' = events
    BY <1>6 DEF RecordInsert
  <2>4. \A e \in (events \cup UNION {pending[q] : q \in Requests})' :
          e.org \in Orgs /\ e.seq \in Nat \ {0} /\ e.by \in Requests
    BY <2>2, <2>3
  <2> QED BY <1>6, <2>1, <2>3, <2>4 DEF RecordInsert
<1>b. ASSUME NEW r \in Requests, EndTransaction(r), events' \subseteq events \cup pending[r]
      PROVE  /\ share' \in [Orgs -> SUBSET Requests] /\ excl' \in [Orgs -> SUBSET Requests]
             /\ DOMAIN pending' = Requests /\ dirty' \in [Requests -> BOOLEAN]
             /\ \A e \in (events \cup UNION {pending[q] : q \in Requests})' :
                  e.org \in Orgs /\ e.seq \in Nat \ {0} /\ e.by \in Requests
  BY <1>b DEF EndTransaction, Unlock
<1>7. ASSUME NEW r \in Requests, Commit(r) PROVE TypeOK'
  <2>1. /\ pc' \in [Requests -> Nat \ {0}] /\ \A q \in Requests : pc'[q] <= Len(Program[q])
        /\ status' \in [Requests -> {"unsent", "running", "done", "failed"}]
    <3>1. CASE LastStep(r)
      BY <1>7, <3>1 DEF Commit
    <3>2. CASE ~LastStep(r)
      <4>1. pc[r] < Len(Program[r])
        BY <1>0, <3>2 DEF LastStep
      <4> QED BY <1>7, <1>a, <3>2, <4>1 DEF Commit
    <3> QED BY <3>1, <3>2
  <2>2. changed' \in [Requests -> BOOLEAN]
    BY <1>7, Zenon DEF Commit
  <2>3. EndTransaction(r) /\ events' \subseteq events \cup pending[r]
    BY <1>7 DEF Commit
  <2> QED BY <1>7, <1>b, <2>1, <2>2, <2>3 DEF Commit
<1>8. ASSUME NEW r \in Requests, RollBack(r), failures' \in 0..MaxFailures PROVE TypeOK'
  <2>1. EndTransaction(r) /\ events' \subseteq events \cup pending[r]
    BY <1>8 DEF RollBack
  <2> QED BY <1>8, <1>b, <2>1 DEF RollBack
<1>9. ASSUME NEW r \in Requests, Abort(r) \/ DeadlockAbort(r) PROVE TypeOK'
  BY <1>9, <1>8 DEF Abort, DeadlockAbort
<1>10. CASE UNCHANGED vars
  BY <1>10 DEF vars, requestVars
<1> QED
  BY <1>1, <1>2, <1>3, <1>4, <1>5, <1>6, <1>7, <1>9, <1>10 DEF Next, Step, AllAnswered

(* In every state the variables have their types; events, with their seq    *)
(* and org, are well formed.                                                *)
THEOREM TypeCorrect == Spec => []TypeOK
BY InitTypeOK, StepTypeOK, PTL DEF Spec

-----------------------------------------------------------------------------
(* What a step of one request leaves alone.                                 *)

LEMMA OnlyMine ==
  ASSUME TypeOK, NEW r \in Requests, Step(r) \/ RollBack(r), NEW q \in Requests \ {r}
  PROVE  /\ pc'[q] = pc[q] /\ phase'[q] = phase[q] /\ status'[q] = status[q]
         /\ last'[q] = last[q] /\ pending'[q] = pending[q]
<1> USE DEF TypeOK, lockVars, txVars, Advance
<1>1. CASE Write(r) BY <1>1 DEF Write
<1>2. CASE Update(r) BY <1>2 DEF Update
<1>3. CASE LockOrg(r) BY <1>3 DEF LockOrg
<1>4. CASE RecordLock(r) BY <1>4 DEF RecordLock
<1>5. CASE RecordRead(r) BY <1>5 DEF RecordRead
<1>6. CASE RecordInsert(r) BY <1>6 DEF RecordInsert
<1>7. CASE Commit(r) BY <1>7 DEF Commit, EndTransaction
<1>8. CASE RollBack(r) BY <1>8 DEF RollBack, EndTransaction
<1> QED BY <1>1, <1>2, <1>3, <1>4, <1>5, <1>6, <1>7, <1>8 DEF Step

(* An update lock is granted to nobody while another request holds one.     *)
LEMMA Granted ==
  ASSUME NEW r \in Requests, WantsUpdate(r), WaitsFor(r) = {}
  PROVE  \A q \in excl[Org(r)] : q = r
<1>1. ~WantsShare(r)
  BY DEF WantsShare, WantsUpdate, AtStep
<1> QED BY <1>1 DEF WaitsFor, OwnLocks

(* Only the holder itself is added to or removed from the holders.          *)
LEMMA ExclOfOthers ==
  ASSUME TypeOK, NEW r \in Requests, Step(r) \/ RollBack(r), NEW o \in Orgs
  PROVE  /\ \A q \in Requests \ {r} : q \in excl'[o] <=> q \in excl[o]
         /\ ~Commit(r) /\ ~RollBack(r) => excl[o] \subseteq excl'[o]
<1> USE DEF TypeOK, lockVars, txVars
<1>1. CASE UNCHANGED excl BY <1>1
<1>2. CASE LockRow(r, excl) BY <1>2 DEF LockRow
<1>3. CASE excl' = Unlock(r, excl) /\ (Commit(r) \/ RollBack(r)) BY <1>3 DEF Unlock
<1> QED
  BY <1>1, <1>2, <1>3
  DEF Step, RollBack, Commit, EndTransaction, Write, Update, LockOrg, RecordLock, RecordRead,
      RecordInsert

-----------------------------------------------------------------------------
(* The lock of the org's row.                                               *)

LEMMA InitOneHolder == Init => OneHolder /\ PendingIsNew
BY DEF Init, OneHolder, PendingIsNew

LEMMA StepOneHolder ==
  ASSUME TypeOK, OneHolder, NEW r \in Requests, Step(r) \/ RollBack(r)
  PROVE  OneHolder'
<1>1. ASSUME NEW o \in Orgs, NEW p \in excl'[o], NEW q \in excl'[o]
      PROVE  p = q
  <2>1. CASE LockRow(r, excl) /\ WantsUpdate(r) /\ WaitsFor(r) = {}
    <3>1. \A x \in excl[Org(r)] : x = r
      BY <2>1, Granted
    <3>2. excl' = [excl EXCEPT ![Org(r)] = excl[Org(r)] \cup {r}] /\ excl \in [Orgs -> SUBSET Requests]
      BY <2>1 DEF LockRow, TypeOK
    <3> QED
      BY <1>1, <3>1, <3>2 DEF OneHolder
  <2>2. CASE excl'[o] \subseteq excl[o]
    BY <1>1, <2>2 DEF OneHolder
  <2>3. LockOrg(r) \/ RecordLock(r) => LockRow(r, excl) /\ WantsUpdate(r) /\ WaitsFor(r) = {}
    BY DEF LockOrg, RecordLock, WantsUpdate
  <2>4. Commit(r) \/ RollBack(r) => excl'[o] \subseteq excl[o]
    BY DEF Commit, RollBack, EndTransaction, Unlock
  <2>5. Write(r) \/ Update(r) \/ RecordRead(r) \/ RecordInsert(r) => excl' = excl
    BY DEF Write, Update, RecordRead, RecordInsert, lockVars
  <2> QED BY <2>1, <2>2, <2>3, <2>4, <2>5 DEF Step
<1>2. ASSUME NEW q \in Requests, status'[q] = "running", phase'[q] # "start"
      PROVE  AtStep(q, "record")' /\ q \in excl'[Org(q)']
  <2>1. CASE q # r
    <3>1. /\ pc'[q] = pc[q] /\ phase[q] # "start" /\ status[q] = "running"
      BY <1>2, <2>1, OnlyMine
    <3>2. AtStep(q, "record") /\ q \in excl[Org(q)] /\ Org(q)' = Org(q)
      BY <3>1 DEF OneHolder, Org
    <3>3. Org(q) \in Orgs
      BY <3>2, OrgIsOrg
    <3> QED BY <2>1, <3>1, <3>2, <3>3, <1>2, ExclOfOthers DEF AtStep
  <2>2. CASE q = r
    <3>1. CASE RecordLock(r)
      BY <2>2, <3>1, OrgIsOrg DEF RecordLock, LockRow, AtStep, Org, TypeOK
    <3>2. CASE RecordRead(r)
      BY <2>2, <3>2 DEF RecordRead, lockVars, AtStep, Org, TypeOK, OneHolder
    <3>3. CASE RecordInsert(r) \/ RollBack(r)
      BY <1>2, <2>2, <3>3 DEF RecordInsert, RollBack, TypeOK
    <3>4. CASE Write(r) \/ Update(r) \/ LockOrg(r) \/ Commit(r)
      <4>1. phase' = phase /\ ~AtStep(r, "record") /\ status[r] = "running"
        BY <3>4 DEF Write, Update, LockOrg, Commit, AtStep
      <4> QED BY <1>2, <2>2, <4>1 DEF OneHolder
    <3> QED BY <3>1, <3>2, <3>3, <3>4 DEF Step
  <2> QED BY <2>1, <2>2
<1>3. ASSUME NEW q \in Requests, NEW e \in pending'[q]
      PROVE  q \in excl'[e.org]
  <2>1. CASE q # r
    <3>1. e \in pending[q]
      BY <1>3, <2>1, OnlyMine
    <3>2. q \in excl[e.org] /\ e.org \in Orgs
      BY <3>1, EventIsEvent DEF OneHolder
    <3> QED BY <2>1, <3>2, ExclOfOthers
  <2>2. CASE q = r /\ RecordInsert(r)
    <3>1. e \in pending[r] \/ e.org = Org(r)
      BY <1>3, <2>2 DEF RecordInsert, TypeOK, NewEvent, Event
    <3> QED BY <2>2, <3>1 DEF RecordInsert, lockVars, OneHolder, AtStep
  <2>3. CASE q = r /\ (Commit(r) \/ RollBack(r))
    BY <1>3, <2>3 DEF Commit, RollBack, EndTransaction, TypeOK
  <2>4. CASE q = r /\ ~(Commit(r) \/ RollBack(r) \/ RecordInsert(r))
    <3>1. pending' = pending
      BY <2>4 DEF Step, Write, Update, LockOrg, RecordLock, RecordRead, txVars
    <3>2. q \in excl[e.org] /\ e.org \in Orgs
      BY <1>3, <3>1, EventIsEvent DEF OneHolder
    <3> QED BY <2>4, <3>2, ExclOfOthers
  <2> QED BY <2>1, <2>2, <2>3, <2>4
<1> QED BY <1>1, <1>2, <1>3 DEF OneHolder

-----------------------------------------------------------------------------
(* What verify accepts.                                                     *)

(* An event with the next seq and the hash of the newest row extends a      *)
(* chain that verifies.                                                     *)
LEMMA AppendVerifies ==
  ASSUME NEW rows, \A e \in rows : e.seq \in Nat, Verifies(rows),
         NEW n \in Nat, NEW prev, NEW o, NEW r,
         \/ rows = {} /\ n = 0 /\ prev = GENESIS_HASH
         \/ \E top \in rows : /\ \A e \in rows : e.seq <= top.seq
                            /\ n = top.seq /\ prev = top.hash
  PROVE  Verifies(rows \cup {Event(o, n + 1, prev, r)}) /\ Event(o, n + 1, prev, r) \notin rows
<1> DEFINE new == Event(o, n + 1, prev, r)
<1>1. /\ new.seq = n + 1 /\ new.prev = prev /\ new.by = r
      /\ new.hash = HashOf(prev, n + 1, r)
  BY DEF Event
<1> HIDE DEF new
<1>2. \A e \in rows : e.seq <= n
  OBVIOUS
<1>3. \A e \in rows : e.seq # new.seq
  BY <1>1, <1>2
<1>4. ASSUME NEW e \in rows
      PROVE  Follows(e, rows \cup {new}) /\ e.hash = HashOf(e.prev, e.seq, e.by)
  BY DEF Verifies, Follows
<1>5. Follows(new, rows \cup {new}) /\ new.hash = HashOf(new.prev, new.seq, new.by)
  BY <1>1 DEF Follows
<1>6. \A e, f \in rows \cup {new} : e.seq = f.seq => e = f
  BY <1>3 DEF Verifies
<1>7. Verifies(rows \cup {new}) /\ new \notin rows
  BY <1>3, <1>4, <1>5, <1>6 DEF Verifies
<1> QED BY <1>7 DEF new

(* The strengthening: what a request sees of a chain verifies, what its     *)
(* record has read is still the newest event, and nothing in hand has been  *)
(* committed.                                                               *)
ChainInv == /\ TypeOK /\ OneHolder /\ PendingIsNew
            /\ ReadIsCurrent /\ EverySightVerifies /\ ChainVerifies

LEMMA InitChainInv == Init => ChainInv
<1> SUFFICES ASSUME Init PROVE ChainInv
  OBVIOUS
<1>0. Verifies({})
  BY DEF Verifies
<1>1. \A o \in Orgs : RowsOf(o) = {} /\ \A r \in Requests : Sees(r, o) = {}
  BY DEF Init, RowsOf, Sees
<1>2. ReadIsCurrent
  BY DEF Init, ReadIsCurrent
<1>3. EverySightVerifies /\ ChainVerifies
  BY <1>0, <1>1 DEF EverySightVerifies, ChainVerifies
<1> QED BY <1>2, <1>3, InitTypeOK, InitOneHolder DEF ChainInv

(* While a request holds an org's row nobody else has an event for it.      *)
LEMMA OthersHaveNothing ==
  ASSUME TypeOK, OneHolder, NEW r \in Requests, NEW o \in Orgs, r \in excl[o],
         NEW q \in Requests \ {r}, NEW e \in pending[q]
  PROVE  e.org # o
BY DEF OneHolder

(* What the insert of record does to what is seen of the chains.            *)
LEMMA InsertExtends ==
  ASSUME ChainInv, NEW r \in Requests, RecordInsert(r)
  PROVE  /\ NewEvent(r) \notin events
         /\ Verifies(Sees(r, Org(r)) \cup {NewEvent(r)})
<1>1. /\ status[r] = "running" /\ phase[r] = "read" /\ last[r].seq \in Nat
  BY DEF RecordInsert, AtStep, ChainInv, TypeOK
<1>2. /\ Visible(r) = Sees(r, Org(r)) /\ Org(r) \in Orgs
      /\ Verifies(Sees(r, Org(r)))
  BY OrgIsOrg DEF Visible, Sees, ChainInv, EverySightVerifies
<1>3. \A e \in Visible(r) : e.seq \in Nat
  BY EventIsEvent DEF Visible, ChainInv
<1>4. \/ Visible(r) = {} /\ last[r].seq = 0 /\ last[r].hash = GENESIS_HASH
      \/ \E top \in Visible(r) : /\ \A e \in Visible(r) : e.seq <= top.seq
                                /\ last[r].seq = top.seq /\ last[r].hash = top.hash
  <2>1. CASE Visible(r) = {} /\ last[r] = [seq |-> 0, hash |-> GENESIS_HASH]
    BY <2>1
  <2>2. ASSUME NEW top \in Visible(r), \A e \in Visible(r) : e.seq <= top.seq,
               last[r] = [seq |-> top.seq, hash |-> top.hash]
        PROVE  last[r].seq = top.seq /\ last[r].hash = top.hash
    BY <2>2
  <2> QED BY <1>1, <2>1, <2>2 DEF ChainInv, ReadIsCurrent, LastIsCurrent
<1>5. /\ Verifies(Visible(r) \cup {NewEvent(r)}) /\ NewEvent(r) \notin Visible(r)
  BY <1>1, <1>2, <1>3, <1>4, AppendVerifies DEF NewEvent, PrevHash
<1>6. NewEvent(r).org = Org(r)
  BY DEF NewEvent, Event
<1> QED BY <1>2, <1>5, <1>6 DEF Visible

(* Every step of a request, and its failure, keeps the strengthening.       *)
LEMMA RequestKeepsChainInv ==
  ASSUME ChainInv, TypeOK', NEW r \in Requests, Step(r) \/ RollBack(r)
  PROVE  ChainInv'
<1> USE DEF ChainInv
<1>1. OneHolder'
  BY StepOneHolder
<1>2. (* What happens to the rows, in the three cases there are. *)
      \/ events' = events /\ pending' = pending
      \/ RecordInsert(r)
      \/ Commit(r)
      \/ RollBack(r)
  BY DEF Step, Write, Update, LockOrg, RecordLock, RecordRead, txVars
<1>3. ASSUME RecordInsert(r)
      PROVE  /\ events' = events
             /\ pending'[r] = pending[r] \cup {NewEvent(r)}
             /\ NewEvent(r).org = Org(r)
  BY <1>3 DEF RecordInsert, TypeOK, NewEvent, Event
<1>4. ASSUME Commit(r) PROVE events' = events \cup pending[r] /\ pending'[r] = {}
  BY <1>4 DEF Commit, EndTransaction, TypeOK
<1>5. ASSUME RollBack(r) PROVE events' = events /\ pending'[r] = {}
  BY <1>5 DEF RollBack, EndTransaction, TypeOK
<1>6. \A q \in Requests \ {r} : pending'[q] = pending[q]
  BY OnlyMine
<1>7. ASSUME NEW o \in Orgs
      PROVE  RowsOf(o)' = RowsOf(o) \/ RowsOf(o)' = Sees(r, o)
  BY <1>2, <1>3, <1>4, <1>5 DEF RowsOf, Sees
<1>8. ChainVerifies'
  BY <1>7 DEF ChainVerifies, EverySightVerifies, Verifies, Follows
<1>9. PendingIsNew'
  <2>1. CASE RecordInsert(r)
    BY <1>3, <1>6, <2>1, InsertExtends DEF PendingIsNew
  <2>2. CASE Commit(r)
    <3>1. ASSUME NEW q \in Requests \ {r}, NEW e \in pending[q] PROVE e \notin pending[r]
      BY <3>1, EventIsEvent DEF OneHolder
    <3> QED BY <1>4, <1>6, <2>2, <3>1 DEF PendingIsNew
  <2>3. CASE RollBack(r)
    BY <1>5, <1>6, <2>3 DEF PendingIsNew
  <2>4. CASE events' = events /\ pending' = pending
    BY <2>4 DEF PendingIsNew
  <2> QED BY <1>2, <2>1, <2>2, <2>3, <2>4
<1>10. ASSUME NEW q \in Requests, NEW o \in Orgs
       PROVE  Verifies(Sees(q, o)')
  <2>1. CASE RecordInsert(r)
    <3>1. CASE q = r /\ o = Org(r)
      <4>1. Sees(q, o)' = Sees(r, Org(r)) \cup {NewEvent(r)}
        BY <1>3, <2>1, <3>1 DEF Sees
      <4> QED BY <2>1, <4>1, InsertExtends
    <3>2. CASE ~(q = r /\ o = Org(r))
      <4>1. Sees(q, o)' = Sees(q, o)
        BY <1>3, <1>6, <2>1, <3>2 DEF Sees
      <4> QED BY <4>1 DEF EverySightVerifies
    <3> QED BY <3>1, <3>2
  <2>2. CASE Commit(r)
    <3>1. CASE q = r
      <4>1. Sees(q, o)' = Sees(r, o)
        BY <1>4, <2>2, <3>1 DEF Sees
      <4> QED BY <4>1 DEF EverySightVerifies
    <3>2. CASE q # r /\ r \in excl[o]
      <4>1. Sees(q, o)' = Sees(r, o)
        BY <1>4, <1>6, <2>2, <3>2, OthersHaveNothing DEF Sees
      <4> QED BY <4>1 DEF EverySightVerifies
    <3>3. CASE q # r /\ r \notin excl[o]
      <4>1. \A e \in pending[r] : e.org # o
        BY <3>3 DEF OneHolder
      <4>2. Sees(q, o)' = Sees(q, o)
        BY <1>4, <1>6, <2>2, <3>3, <4>1 DEF Sees
      <4> QED BY <4>2 DEF EverySightVerifies
    <3> QED BY <3>1, <3>2, <3>3
  <2>3. CASE RollBack(r)
    <3>1. Sees(q, o)' = Sees(q, o) \/ Sees(q, o)' = RowsOf(o)
      BY <1>5, <1>6, <2>3 DEF Sees, RowsOf
    <3> QED BY <3>1 DEF EverySightVerifies, ChainVerifies
  <2>4. CASE events' = events /\ pending' = pending
    <3>1. Sees(q, o)' = Sees(q, o)
      BY <2>4 DEF Sees
    <3> QED BY <3>1 DEF EverySightVerifies
  <2> QED BY <1>2, <2>1, <2>2, <2>3, <2>4
<1>11. EverySightVerifies'
  BY <1>10 DEF EverySightVerifies, Verifies, Follows
<1>12. ASSUME NEW q \in Requests, status'[q] = "running", phase'[q] = "read"
       PROVE  LastIsCurrent(q)'
  <2>1. CASE q = r
    <3>1. CASE RecordRead(r)
      <4>1. /\ events' = events /\ pending' = pending /\ pc' = pc
            /\ Visible(r)' = Visible(r)
        BY <3>1 DEF RecordRead, txVars, Visible, Org
      <4>2. \/ Visible(r) = {} /\ last'[r] = [seq |-> 0, hash |-> GENESIS_HASH]
            \/ \E top \in Visible(r) : /\ \A e \in Visible(r) : e.seq <= top.seq
                                      /\ last'[r] = [seq |-> top.seq, hash |-> top.hash]
        BY <3>1 DEF RecordRead, TypeOK
      <4> QED BY <2>1, <4>1, <4>2 DEF LastIsCurrent
    <3>2. CASE RecordLock(r) \/ RecordInsert(r) \/ RollBack(r)
      BY <1>12, <2>1, <3>2 DEF RecordLock, RecordInsert, RollBack, TypeOK
    <3>3. CASE Write(r) \/ Update(r) \/ LockOrg(r) \/ Commit(r)
      <4>1. phase' = phase /\ ~AtStep(r, "record") /\ status[r] = "running"
        BY <3>3 DEF Write, Update, LockOrg, Commit, AtStep
      <4> QED BY <1>12, <2>1, <4>1 DEF OneHolder
    <3> QED BY <3>1, <3>2, <3>3 DEF Step
  <2>2. CASE q # r
    <3>1. /\ pc'[q] = pc[q] /\ phase[q] = "read" /\ status[q] = "running"
          /\ last'[q] = last[q]
      BY <1>12, <2>2, OnlyMine
    <3>2. q \in excl[Org(q)] /\ Org(q)' = Org(q) /\ Org(q) \in Orgs
      BY <3>1, OrgIsOrg DEF OneHolder, Org
    <3>3. \A e \in pending[r] : e.org # Org(q)
      BY <2>2, <3>2, OthersHaveNothing
    <3>4. Visible(q)' = Visible(q)
      BY <1>2, <1>3, <1>4, <1>5, <1>6, <2>2, <3>2, <3>3 DEF Visible
    <3> QED BY <3>1, <3>4 DEF ReadIsCurrent, LastIsCurrent
  <2> QED BY <2>1, <2>2
<1>13. ReadIsCurrent'
  BY <1>12 DEF ReadIsCurrent
<1> QED BY <1>1, <1>8, <1>9, <1>11, <1>13

LEMMA StepChainInv == ChainInv /\ [Next]_vars => ChainInv'
<1> SUFFICES ASSUME ChainInv, [Next]_vars PROVE ChainInv'
  OBVIOUS
<1>1. TypeOK'
  BY StepTypeOK DEF ChainInv
<1>2. ASSUME NEW r \in Requests, Step(r) \/ Abort(r) \/ DeadlockAbort(r) PROVE ChainInv'
  BY <1>1, <1>2, RequestKeepsChainInv DEF Abort, DeadlockAbort
<1>3. CASE UNCHANGED vars
  BY <1>3
  DEF vars, requestVars, lockVars, txVars, ChainInv, TypeOK, OneHolder, PendingIsNew,
      ReadIsCurrent, LastIsCurrent, EverySightVerifies, ChainVerifies, Verifies, Follows, Sees,
      RowsOf, AtStep, Org, Visible
<1> QED BY <1>2, <1>3 DEF Next, AllAnswered

LEMMA ChainInvariant == Spec => []ChainInv
BY InitChainInv, StepChainInv, PTL DEF Spec

(* However requests interleave, fail and deadlock, every org's committed    *)
(* rows are what verify accepts: no fork, no gap, no broken link.           *)
THEOREM ChainsVerify == Spec => []ChainVerifies
BY ChainInvariant, PTL DEF ChainInv

(* No insert of record runs into the unique index on (org_id, seq).         *)
THEOREM NoCollision == Spec => []AppendsDoNotCollide
<1>1. ChainInv => AppendsDoNotCollide
  <2> SUFFICES ASSUME ChainInv, NEW r \in Requests, NEW e \in pending[r],
                      NEW f \in events \cup UNION {pending[q] : q \in Requests \ {r}},
                      e.org = f.org
               PROVE  e.seq # f.seq
    BY DEF AppendsDoNotCollide
  <2>1. e.org \in Orgs /\ r \in excl[e.org] /\ e \notin events
    BY EventIsEvent DEF ChainInv, OneHolder, PendingIsNew
  <2>2. f \in events
    BY <2>1, OthersHaveNothing DEF ChainInv
  <2>3. e \in Sees(r, e.org) /\ f \in Sees(r, e.org) /\ e # f
    BY <2>1, <2>2 DEF Sees
  <2> QED BY <2>1, <2>3 DEF ChainInv, EverySightVerifies, Verifies
<1> QED BY <1>1, ChainInvariant, PTL

(* Verify finds an altered or deleted event that has a successor, when no   *)
(* two inputs of the hash that differ in their data collide.                *)
THEOREM TamperingShows ==
  ASSUME \A prev, n : \A r, q \in Requests :
           HashOf(prev, n, r) = HashOf(prev, n, q) => r = q
  PROVE  Spec => []TamperEvident
<1>1. ASSUME ChainInv, NEW e \in events, NEW r \in Requests \ {e.by}
      PROVE  LET rest == RowsOf(e.org) \ {e} IN
             /\ ~Verifies(rest \cup {WithoutNewHash(e, r)})
             /\ (\E f \in rest : f.seq = e.seq + 1) =>
                  /\ ~Verifies(rest \cup {Event(e.org, e.seq, e.prev, r)})
                  /\ ~Verifies(rest)
  <2> DEFINE rest == RowsOf(e.org) \ {e}
             forged == Event(e.org, e.seq, e.prev, r)
  <2>1. /\ e \in RowsOf(e.org) /\ Verifies(RowsOf(e.org))
        /\ e.seq \in Nat \ {0} /\ e.by \in Requests
    <3>1. e.org \in Orgs /\ e.seq \in Nat \ {0} /\ e.by \in Requests
      BY <1>1 DEF ChainInv, TypeOK
    <3> QED BY <1>1, <3>1 DEF ChainInv, ChainVerifies, RowsOf
  <2>2. e.hash = HashOf(e.prev, e.seq, e.by) /\ e.hash # HashOf(e.prev, e.seq, r)
    <3>1. e.hash = HashOf(e.prev, e.seq, e.by)
      BY <2>1 DEF Verifies
    <3>2. e.by # r /\ r \in Requests
      OBVIOUS
    <3> QED BY <2>1, <3>1, <3>2
  <2>3. ~Verifies(rest \cup {WithoutNewHash(e, r)})
    <3> DEFINE bad == WithoutNewHash(e, r)
    <3>1. bad.hash = e.hash /\ bad.prev = e.prev /\ bad.seq = e.seq /\ bad.by = r
      BY DEF WithoutNewHash
    <3> HIDE DEF bad
    <3>2. bad.hash # HashOf(bad.prev, bad.seq, bad.by)
      BY <2>2, <3>1
    <3> QED BY <3>2 DEF Verifies, bad
  <2>4. ASSUME NEW f \in rest, f.seq = e.seq + 1
        PROVE  /\ ~Follows(f, rest)
               /\ ~Follows(f, rest \cup {forged})
    <3>1. forged.hash = HashOf(e.prev, e.seq, r)
      BY DEF Event
    <3> HIDE DEF forged
    <3>2. \A p \in RowsOf(e.org) : p.seq \in Nat \ {0}
      BY <1>1, EventIsEvent DEF RowsOf, ChainInv
    <3>3. \A p \in rest : p.seq + 1 # f.seq
      BY <2>1, <2>4, <3>2 DEF Verifies
    <3>4. f.prev = e.hash
      BY <2>1, <2>4, <3>3 DEF Verifies, Follows
    <3>5. f.seq # 1
      BY <2>1, <2>4
    <3> QED BY <2>2, <3>1, <3>3, <3>4, <3>5 DEF Follows
  <2> QED BY <2>3, <2>4 DEF Verifies
<1>2. ChainInv => TamperEvident
  BY <1>1 DEF TamperEvident, ChainInv
<1> QED BY <1>2, ChainInvariant, PTL

-----------------------------------------------------------------------------
(* Where verify says it is.                                                 *)

(* What a step does to what is seen of a chain.                             *)
LEMMA SightStep ==
  ASSUME ChainInv, NEW r \in Requests, Step(r) \/ RollBack(r), NEW q \in Requests, NEW o \in Orgs
  PROVE  /\ RowsOf(o)' \in {RowsOf(o), Sees(r, o)}
         /\ \/ Sees(q, o)' \in {RowsOf(o), Sees(q, o), Sees(r, o)}
            \/ /\ RecordInsert(r) /\ q = r /\ o = Org(r)
               /\ Sees(q, o)' = Sees(r, o) \cup {NewEvent(r)}
<1> USE DEF ChainInv
<1>1. \/ events' = events /\ pending' = pending
      \/ RecordInsert(r)
      \/ Commit(r)
      \/ RollBack(r)
  BY DEF Step, Write, Update, LockOrg, RecordLock, RecordRead, txVars
<1>2. \A p \in Requests \ {r} : pending'[p] = pending[p]
  BY OnlyMine
<1>3. CASE events' = events /\ pending' = pending
  BY <1>3 DEF RowsOf, Sees
<1>4. CASE RecordInsert(r)
  <2>1. events' = events /\ pending'[r] = pending[r] \cup {NewEvent(r)} /\ NewEvent(r).org = Org(r)
    BY <1>4 DEF RecordInsert, TypeOK, NewEvent, Event
  <2>2. RowsOf(o)' = RowsOf(o)
    BY <2>1 DEF RowsOf
  <2>3. CASE q = r /\ o = Org(r)
    <3>1. Sees(q, o)' = Sees(r, o) \cup {NewEvent(r)}
      BY <2>1, <2>3 DEF Sees
    <3> QED
      BY <1>4, <2>2, <2>3, <3>1
  <2>4. CASE ~(q = r /\ o = Org(r))
    <3>1. Sees(q, o)' = Sees(q, o)
      BY <1>2, <2>1, <2>4 DEF Sees
    <3> QED
      BY <2>2, <3>1
  <2> QED
    BY <2>3, <2>4
<1>5. CASE Commit(r)
  <2>1. events' = events \cup pending[r] /\ pending'[r] = {}
    BY <1>5 DEF Commit, EndTransaction, TypeOK
  <2>2. RowsOf(o)' = Sees(r, o)
    BY <2>1 DEF RowsOf, Sees
  <2>3. CASE q = r
    BY <2>1, <2>2, <2>3 DEF RowsOf, Sees
  <2>4. CASE q # r /\ r \in excl[o]
    <3>1. \A e \in pending[q] : e.org # o
      BY <2>4, OthersHaveNothing
    <3>2. Sees(q, o)' = Sees(r, o)
      BY <1>2, <2>1, <2>4, <3>1 DEF Sees
    <3> QED
      BY <2>2, <3>2
  <2>5. CASE q # r /\ r \notin excl[o]
    <3>1. \A e \in pending[r] : e.org # o
      BY <2>5 DEF OneHolder
    <3>2. Sees(q, o)' = Sees(q, o)
      BY <1>2, <2>1, <2>5, <3>1 DEF Sees
    <3> QED
      BY <2>2, <3>2
  <2> QED
    BY <2>3, <2>4, <2>5
<1>6. CASE RollBack(r)
  <2>1. events' = events /\ pending'[r] = {}
    BY <1>6 DEF RollBack, EndTransaction, TypeOK
  <2> QED
    BY <1>2, <2>1 DEF RowsOf, Sees
<1> QED
  BY <1>1, <1>3, <1>4, <1>5, <1>6

(* The insert of record takes the number after the last.                    *)
LEMMA InsertNumbers ==
  ASSUME ChainInv, NEW r \in Requests, RecordInsert(r), Numbered(Sees(r, Org(r)))
  PROVE  Numbered(Sees(r, Org(r)) \cup {NewEvent(r)})
<1> DEFINE rows == Sees(r, Org(r))
<1>1. PICK n \in Nat : {e.seq : e \in rows} = 1..n
  BY DEF Numbered
<1>2. rows = Visible(r) /\ LastIsCurrent(r)
  BY DEF Visible, Sees, RecordInsert, AtStep, ChainInv, ReadIsCurrent
<1>3. last[r].seq = n
  <2>1. CASE rows = {}
    <3>1. last[r].seq = 0
      BY <1>2, <2>1 DEF LastIsCurrent
    <3>2. 1..n = {}
      BY <1>1, <2>1
    <3>3. n = 0
      BY <3>2
    <3> QED
      BY <3>1, <3>3
  <2>2. CASE rows # {}
    <3>0. PICK top \in Visible(r) : /\ \A e \in Visible(r) : e.seq <= top.seq
                                    /\ last[r] = [seq |-> top.seq, hash |-> top.hash]
      BY <1>2, <2>2 DEF LastIsCurrent
    <3>1. top \in rows /\ last[r].seq = top.seq /\ \A e \in rows : e.seq <= top.seq
      BY <1>2, <3>0
    <3>2. top.seq \in 1..n
      BY <1>1, <3>1
    <3>3. n \in 1..n
      BY <3>2
    <3>4. PICK e \in rows : e.seq = n
      BY <1>1, <3>3
    <3> QED
      BY <3>1, <3>2, <3>4
  <2> QED
    BY <2>1, <2>2
<1>4. NewEvent(r).seq = n + 1
  BY <1>3 DEF NewEvent, Event
<1>5. {e.seq : e \in rows \cup {NewEvent(r)}} = 1..(n + 1)
  <2> HIDE DEF rows
  <2> QED
    BY <1>1, <1>4
<1> QED
  BY <1>5 DEF Numbered

LEMMA StepNumbers ==
  ChainInv /\ EverySightIsNumbered /\ [Next]_vars => EverySightIsNumbered'
<1> SUFFICES ASSUME ChainInv, EverySightIsNumbered, [Next]_vars PROVE EverySightIsNumbered'
  OBVIOUS
<1>1. ASSUME NEW r \in Requests, Step(r) \/ RollBack(r), NEW o \in Orgs
      PROVE  Numbered(RowsOf(o)') /\ \A q \in Requests : Numbered(Sees(q, o)')
  <2>1. Numbered(RowsOf(o)')
    BY <1>1, SightStep DEF EverySightIsNumbered
  <2>2. ASSUME NEW q \in Requests PROVE Numbered(Sees(q, o)')
    <3>1. CASE Sees(q, o)' \in {RowsOf(o), Sees(q, o), Sees(r, o)}
      BY <3>1 DEF EverySightIsNumbered
    <3>2. CASE RecordInsert(r) /\ o = Org(r) /\ Sees(q, o)' = Sees(r, o) \cup {NewEvent(r)}
      BY <3>2, InsertNumbers DEF EverySightIsNumbered
    <3> QED
      BY <1>1, <3>1, <3>2, SightStep
  <2> QED
    BY <2>1, <2>2
<1>2. ASSUME NEW r \in Requests, Step(r) \/ RollBack(r) PROVE EverySightIsNumbered'
  BY <1>1, <1>2 DEF EverySightIsNumbered, Numbered
<1>3. CASE UNCHANGED vars
  BY <1>3 DEF vars, txVars, EverySightIsNumbered, Numbered, RowsOf, Sees
<1> QED
  BY <1>2, <1>3 DEF Next, AllAnswered, Abort, DeadlockAbort

LEMMA ChainsAreNumbered == Spec => []EverySightIsNumbered
<1>1. Init => EverySightIsNumbered
  <2> SUFFICES ASSUME Init PROVE EverySightIsNumbered
    OBVIOUS
  <2>1. {e.seq : e \in {}} = 1..0
    OBVIOUS
  <2>2. Numbered({})
    BY <2>1 DEF Numbered
  <2>3. \A o \in Orgs : RowsOf(o) = {} /\ \A r \in Requests : Sees(r, o) = {}
    BY DEF Init, RowsOf, Sees
  <2> QED
    BY <2>2, <2>3 DEF EverySightIsNumbered
<1> QED
  BY <1>1, StepNumbers, ChainInvariant, PTL DEF Spec

-----------------------------------------------------------------------------
(* Rows whose seqs are D, each once.                                        *)
OnePerSeq(rows, D) ==
  /\ \A e \in rows : e.seq \in D
  /\ \A i \in D : \E e \in rows : e.seq = i
  /\ \A e, f \in rows : e.seq = f.seq => e = f

LEMMA RowsAreCounted ==
  ASSUME NEW rows, NEW D, IsFiniteSet(D), OnePerSeq(rows, D)
  PROVE  Cardinality(rows) = Cardinality(D)
<1> DEFINE rowAt == [i \in D |-> CHOOSE e \in rows : e.seq = i]
<1>1. \A i \in D : rowAt[i] \in rows /\ rowAt[i].seq = i
  BY DEF OnePerSeq
<1>2. rowAt \in [D -> rows]
  BY <1>1
<1>3. rowAt \in Injection(D, rows)
  <2> SUFFICES ASSUME NEW i \in D, NEW j \in D, rowAt[i] = rowAt[j] PROVE i = j
    BY <1>2 DEF Injection, IsInjective
  <2> QED
    BY <1>1
<1>4. rowAt \in Surjection(D, rows)
  <2> SUFFICES ASSUME NEW e \in rows PROVE \E i \in D : rowAt[i] = e
    BY <1>2 DEF Surjection
  <2> QED
    BY <1>1 DEF OnePerSeq
<1>5. ExistsBijection(D, rows)
  BY <1>3, <1>4 DEF ExistsBijection, Bijection
<1> QED
  BY <1>5, FS_Bijection

(* A chain of m events, or one without its n-th, in the order of seq.       *)
LEMMA OrderOfSeq ==
  ASSUME NEW rows, NEW m \in Nat, NEW n \in 1..(m + 1), OnePerSeq(rows, (1..m) \ {n})
  PROVE  LET s == InOrder(rows)  left == IF n = m + 1 THEN m ELSE m - 1 IN
         /\ Cardinality(rows) = left
         /\ DOMAIN s = 1..left
         /\ \A i \in 1..left : s[i] \in rows /\ s[i].seq = IF i < n THEN i ELSE i + 1
<1> DEFINE left == IF n = m + 1 THEN m ELSE m - 1
           Before(e) == {f \in rows : f.seq < e.seq}
           rank(j) == IF j < n THEN j - 1 ELSE j - 2
<1>1. \A k \in 0..m : IsFiniteSet((1..k) \ {n}) /\ Cardinality((1..k) \ {n}) = IF k < n THEN k ELSE k - 1
  <2> SUFFICES ASSUME NEW k \in 0..m
               PROVE  /\ IsFiniteSet((1..k) \ {n})
                      /\ Cardinality((1..k) \ {n}) = IF k < n THEN k ELSE k - 1
    OBVIOUS
  <2>1. IsFiniteSet(1..k) /\ Cardinality(1..k) = k
    BY FS_Interval
  <2>2. n \in 1..k <=> ~(k < n)
    OBVIOUS
  <2> HIDE DEF left
  <2> QED
    BY <2>1, <2>2, FS_RemoveElement
<1>2. Cardinality(rows) = left
  <2>1. m \in 0..m /\ (m < n <=> n = m + 1)
    OBVIOUS
  <2> QED
    BY <1>1, <2>1, RowsAreCounted
<1>3. ASSUME NEW e \in rows PROVE Cardinality(Before(e)) = rank(e.seq)
  <2>1. e.seq \in 1..m /\ e.seq # n
    BY DEF OnePerSeq
  <2>2. OnePerSeq(Before(e), (1..(e.seq - 1)) \ {n})
    <3>1. \A f \in Before(e) : f.seq \in (1..(e.seq - 1)) \ {n}
      BY <2>1 DEF OnePerSeq
    <3>2. \A i \in (1..(e.seq - 1)) \ {n} : i \in (1..m) \ {n} /\ i < e.seq
      BY <2>1
    <3>3. \A i \in (1..(e.seq - 1)) \ {n} : \E f \in Before(e) : f.seq = i
      BY <3>2 DEF OnePerSeq
    <3> QED
      BY <3>1, <3>3 DEF OnePerSeq
  <2>3. Cardinality(Before(e)) = IF e.seq - 1 < n THEN e.seq - 1 ELSE e.seq - 2
    <3>1. e.seq - 1 \in 0..m /\ (e.seq - 1) - 1 = e.seq - 2
      BY <2>1
    <3> QED
      BY <1>1, <2>2, <3>1, RowsAreCounted
  <2> QED
    BY <2>1, <2>3
<1>4. ASSUME NEW i \in 1..left
      PROVE  InOrder(rows)[i] \in rows /\ InOrder(rows)[i].seq = IF i < n THEN i ELSE i + 1
  <2> DEFINE j == IF i < n THEN i ELSE i + 1
  <2>1. j \in (1..m) \ {n} /\ rank(j) = i - 1
    OBVIOUS
  <2>2. PICK e \in rows : e.seq = j
    BY <2>1 DEF OnePerSeq
  <2>3. Cardinality(Before(e)) = i - 1
    BY <1>3, <2>1, <2>2
  <2>4. InOrder(rows)[i] = CHOOSE f \in rows : Cardinality(Before(f)) = i - 1
    BY <1>2 DEF InOrder
  <2>5. InOrder(rows)[i] \in rows /\ Cardinality(Before(InOrder(rows)[i])) = i - 1
    BY <2>3, <2>4
  <2>6. rank(InOrder(rows)[i].seq) = i - 1 /\ InOrder(rows)[i].seq \in (1..m) \ {n}
    BY <1>3, <2>5 DEF OnePerSeq
  <2> QED
    BY <2>5, <2>6
<1>5. DOMAIN InOrder(rows) = 1..left
  BY <1>2 DEF InOrder
<1> QED
  BY <1>2, <1>4, <1>5

(* verify answers with the first row that does not fit.                     *)
LEMMA FirstBreak ==
  ASSUME NEW rows, NEW i, Cardinality(rows) \in Nat, i \in DOMAIN InOrder(rows),
         BreaksAt(InOrder(rows), i)
  PROVE  Verify(rows) = BrokenAt(InOrder(rows)[i].seq, i - 1)
<1> DEFINE s == InOrder(rows)
<1>1. DOMAIN s = 1..Cardinality(rows)
  BY DEF InOrder
<1> HIDE DEF s
<1>2. ~Fits(s, i) /\ BreaksAt(s, i) /\ i \in DOMAIN s
  BY DEF BreaksAt, s
<1>3. ASSUME NEW j \in DOMAIN s, BreaksAt(s, j) PROVE j = i
  <2>1. i \in Nat /\ j \in Nat /\ i >= 1 /\ j >= 1
    BY <1>1, <1>2
  <2>2. ~(j < i) /\ ~(i < j)
    BY <1>2, <1>3, <2>1 DEF BreaksAt
  <2> QED
    BY <2>1, <2>2
<1>4. (CHOOSE j \in DOMAIN s : BreaksAt(s, j)) = i
  BY <1>2, <1>3
<1> QED
  BY <1>2, <1>4 DEF Verify, s

LEMMA NoBreak ==
  ASSUME NEW rows, \A i \in DOMAIN InOrder(rows) : Fits(InOrder(rows), i)
  PROVE  Verify(rows) = AllFit(Cardinality(rows))
BY DEF Verify

(* A chain in order: each event fits, after the hash of the one before it.  *)
LEMMA ChainFits ==
  ASSUME NEW rows, NEW m \in Nat, OnePerSeq(rows, 1..m), Verifies(rows),
         NEW s, \A i \in 1..m : s[i] \in rows /\ s[i].seq = i
  PROVE  \A i \in 1..m : /\ Fits(s, i)
                         /\ s[i].prev = IF i = 1 THEN GENESIS_HASH ELSE s[i - 1].hash
<1> SUFFICES ASSUME NEW i \in 1..m
             PROVE  /\ Fits(s, i)
                    /\ s[i].prev = IF i = 1 THEN GENESIS_HASH ELSE s[i - 1].hash
  OBVIOUS
<1>1. s[i] \in rows /\ s[i].seq = i /\ Follows(s[i], rows) /\ s[i].hash = HashOf(s[i].prev, i, s[i].by)
  BY DEF Verifies
<1>2. CASE i = 1
  <2>1. \A p \in rows : p.seq + 1 # i
    BY <1>2 DEF OnePerSeq
  <2>2. s[i].prev = GENESIS_HASH
    BY <1>1, <2>1 DEF Follows
  <2> QED
    BY <1>1, <1>2, <2>2 DEF Fits
<1>3. CASE i # 1
  <2>1. PICK p \in rows : p.seq + 1 = i /\ p.hash = s[i].prev
    BY <1>1, <1>3 DEF Follows
  <2>2. i - 1 \in 1..m /\ p.seq = i - 1
    BY <1>3, <2>1 DEF OnePerSeq
  <2>3. s[i - 1] = p
    BY <2>1, <2>2 DEF OnePerSeq
  <2> QED
    BY <1>1, <1>3, <2>1, <2>3 DEF Fits
<1> QED
  BY <1>2, <1>3

LEMMA ChainInOrder ==
  ASSUME NEW rows, NEW m \in Nat, OnePerSeq(rows, 1..m)
  PROVE  /\ Cardinality(rows) = m
         /\ DOMAIN InOrder(rows) = 1..m
         /\ \A i \in 1..m : InOrder(rows)[i] \in rows /\ InOrder(rows)[i].seq = i
<1> DEFINE n == m + 1
<1>1. n \in 1..(m + 1) /\ n = m + 1 /\ \A i \in 1..m : i < n
  OBVIOUS
<1>2. OnePerSeq(rows, (1..m) \ {n})
  <2>1. (1..m) \ {n} = 1..m
    OBVIOUS
  <2> QED
    BY <2>1
<1> HIDE DEF n
<1>3. /\ Cardinality(rows) = m
      /\ DOMAIN InOrder(rows) = 1..m
      /\ \A i \in 1..m : /\ InOrder(rows)[i] \in rows
                         /\ InOrder(rows)[i].seq = IF i < n THEN i ELSE i + 1
  BY <1>1, <1>2, OrderOfSeq
<1> QED
  BY <1>1, <1>3

(* A row in the place of another with the same seq.                         *)
LEMMA Replaced ==
  ASSUME NEW rows, NEW m \in Nat, OnePerSeq(rows, 1..m), NEW e \in rows, NEW x, x.seq = e.seq,
         NEW new, new = (rows \ {e}) \cup {x}
  PROVE  /\ Cardinality(new) = m
         /\ DOMAIN InOrder(new) = 1..m
         /\ InOrder(new)[e.seq] = x
         /\ \A i \in (1..m) \ {e.seq} : InOrder(new)[i] = InOrder(rows)[i]
<1>1. OnePerSeq(new, 1..m)
  <2>1. \A f \in new : f.seq \in 1..m
    BY DEF OnePerSeq
  <2>2. \A i \in 1..m : \E f \in new : f.seq = i
    <3> SUFFICES ASSUME NEW i \in 1..m PROVE \E f \in new : f.seq = i
      OBVIOUS
    <3>1. PICK f \in rows : f.seq = i
      BY DEF OnePerSeq
    <3> QED
      BY <3>1
  <2>3. \A f, g \in new : f.seq = g.seq => f = g
    BY DEF OnePerSeq
  <2> QED
    BY <2>1, <2>2, <2>3 DEF OnePerSeq
<1>2. /\ Cardinality(new) = m /\ DOMAIN InOrder(new) = 1..m
      /\ \A i \in 1..m : /\ InOrder(new)[i] \in new /\ InOrder(new)[i].seq = i
                         /\ InOrder(rows)[i] \in rows /\ InOrder(rows)[i].seq = i
  BY <1>1, ChainInOrder
<1>3. e.seq \in 1..m
  BY DEF OnePerSeq
<1>4. ASSUME NEW f \in new, NEW i \in 1..m, f.seq = i PROVE InOrder(new)[i] = f
  BY <1>1, <1>2, <1>4 DEF OnePerSeq
<1>5. InOrder(new)[e.seq] = x
  BY <1>3, <1>4
<1>6. ASSUME NEW i \in (1..m) \ {e.seq} PROVE InOrder(new)[i] = InOrder(rows)[i]
  <2>1. InOrder(rows)[i] \in rows /\ InOrder(rows)[i].seq = i
    BY <1>2
  <2>2. InOrder(rows)[i] \in new
    BY <2>1
  <2> QED
    BY <1>4, <2>1, <2>2
<1> QED
  BY <1>2, <1>5, <1>6

(* What the hash of an altered event gives away.                            *)
LEMMA AlteredIsNamed ==
  ASSUME NEW rows, NEW m \in Nat, OnePerSeq(rows, 1..m), Verifies(rows), NEW e \in rows, NEW r,
         HashOf(e.prev, e.seq, r) # e.hash
  PROVE  Verify((rows \ {e}) \cup {WithoutNewHash(e, r)}) = BrokenAt(e.seq, e.seq - 1)
<1> DEFINE x == WithoutNewHash(e, r)
           n == e.seq
           s == InOrder(rows)
           new == (rows \ {e}) \cup {x}
           t == InOrder(new)
<1>1. n \in 1..m
  BY DEF OnePerSeq
<1>2. x.seq = n /\ x.prev = e.prev /\ x.by = r /\ x.hash = e.hash
  BY DEF WithoutNewHash
<1>0. new = (rows \ {e}) \cup {x} /\ x.seq = e.seq
  BY <1>2
<1> HIDE DEF x, new
<1>3. /\ Cardinality(new) = m /\ DOMAIN t = 1..m
      /\ t[n] = x /\ \A i \in (1..m) \ {n} : t[i] = s[i]
  BY <1>0, Replaced
<1>4. \A i \in 1..m : s[i] \in rows /\ s[i].seq = i
  BY ChainInOrder
<1>5. s[n] = e
  BY <1>1, <1>4 DEF OnePerSeq
<1> HIDE DEF s, t
<1>6. \A i \in 1..m : Fits(s, i) /\ s[i].prev = IF i = 1 THEN GENESIS_HASH ELSE s[i - 1].hash
  BY <1>4, ChainFits
<1>7. ASSUME NEW j \in 1..(n - 1) PROVE Fits(t, j)
  <2>1. j \in (1..m) \ {n} /\ (j # 1 => j - 1 \in (1..m) \ {n})
    BY <1>1
  <2> QED
    BY <1>3, <1>6, <2>1 DEF Fits
<1>8. ~Fits(t, n)
  <2>1. n # 1 => t[n - 1] = s[n - 1]
    BY <1>1, <1>3
  <2>2. (IF n = 1 THEN GENESIS_HASH ELSE t[n - 1].hash) = e.prev
    BY <1>1, <1>5, <1>6, <2>1
  <2> QED
    BY <1>2, <1>3, <2>2 DEF Fits
<1> QED
  BY <1>1, <1>2, <1>3, <1>7, <1>8, FirstBreak DEF BreaksAt, t, x, new

(* What its successor gives away of an event with a hash of its own.        *)
LEMMA ForgedIsGivenAway ==
  ASSUME NEW rows, NEW m \in Nat, OnePerSeq(rows, 1..m), Verifies(rows), NEW e \in rows, NEW r,
         HashOf(e.prev, e.seq, r) # e.hash,
         NEW x, x.seq = e.seq, x.prev = e.prev, x.by = r, x.hash = HashOf(e.prev, e.seq, r)
  PROVE  Verify((rows \ {e}) \cup {x}) = IF e.seq < m THEN BrokenAt(e.seq + 1, e.seq) ELSE AllFit(m)
<1> DEFINE n == e.seq
           s == InOrder(rows)
           new == (rows \ {e}) \cup {x}
           t == InOrder(new)
<1>1. n \in 1..m
  BY DEF OnePerSeq
<1>2. x.seq = n /\ x.prev = e.prev /\ x.by = r /\ x.hash = HashOf(e.prev, n, r)
  OBVIOUS
<1>0. new = (rows \ {e}) \cup {x} /\ x.seq = e.seq
  OBVIOUS
<1> HIDE DEF new
<1>3. /\ Cardinality(new) = m /\ DOMAIN t = 1..m
      /\ t[n] = x /\ \A i \in (1..m) \ {n} : t[i] = s[i]
  BY <1>0, Replaced
<1>4. \A i \in 1..m : s[i] \in rows /\ s[i].seq = i
  BY ChainInOrder
<1>5. s[n] = e
  BY <1>1, <1>4 DEF OnePerSeq
<1> HIDE DEF s, t
<1>6. \A i \in 1..m : Fits(s, i) /\ s[i].prev = IF i = 1 THEN GENESIS_HASH ELSE s[i - 1].hash
  BY <1>4, ChainFits
<1>7. ASSUME NEW j \in 1..n PROVE Fits(t, j)
  <2>1. CASE j # n
    <3>1. j \in (1..m) \ {n} /\ (j # 1 => j - 1 \in (1..m) \ {n})
      BY <1>1, <2>1
    <3> QED
      BY <1>3, <1>6, <3>1 DEF Fits
  <2>2. CASE j = n
    <3>1. n # 1 => t[n - 1] = s[n - 1]
      BY <1>1, <1>3
    <3>2. (IF n = 1 THEN GENESIS_HASH ELSE t[n - 1].hash) = e.prev
      BY <1>1, <1>5, <1>6, <3>1
    <3> QED
      BY <1>2, <1>3, <2>2, <3>2 DEF Fits
  <2> QED
    BY <2>1, <2>2
<1>8. CASE n < m
  <2>1. n + 1 \in (1..m) \ {n} /\ n + 1 # 1 /\ (n + 1) - 1 = n
    BY <1>1, <1>8
  <2>2. t[n + 1] = s[n + 1] /\ s[n + 1].prev = e.hash /\ s[n + 1].seq = n + 1
    BY <1>3, <1>4, <1>5, <1>6, <2>1
  <2>3. ~Fits(t, n + 1)
    BY <1>2, <1>3, <2>1, <2>2 DEF Fits
  <2>4. BreaksAt(t, n + 1) /\ n + 1 \in DOMAIN t
    BY <1>3, <1>7, <2>1, <2>3 DEF BreaksAt
  <2>5. Verify(new) = BrokenAt(t[n + 1].seq, (n + 1) - 1)
    BY <1>3, <2>4, FirstBreak DEF t
  <2>6. (n + 1) - 1 = n /\ t[n + 1].seq = n + 1
    BY <2>1, <2>2
  <2> QED
    BY <1>8, <2>5, <2>6 DEF new
<1>9. CASE n = m
  <2>1. \A i \in DOMAIN t : Fits(t, i)
    BY <1>3, <1>7, <1>9
  <2>2. Verify(new) = AllFit(m)
    BY <1>3, <2>1, NoBreak DEF t
  <2> QED
    BY <1>9, <2>2 DEF new
<1> QED
  BY <1>1, <1>8, <1>9

(* ... and of one that is missing.                                          *)
LEMMA DeletedIsGivenAway ==
  ASSUME NEW rows, NEW m \in Nat, OnePerSeq(rows, 1..m), Verifies(rows), NEW e \in rows
  PROVE  Verify(rows \ {e}) = IF e.seq < m THEN BrokenAt(e.seq + 1, e.seq - 1) ELSE AllFit(m - 1)
<1> DEFINE rest == rows \ {e}
           n == e.seq
           s == InOrder(rows)
           t == InOrder(rest)
<1>1. n \in 1..m
  BY DEF OnePerSeq
<1>2. OnePerSeq(rest, (1..m) \ {n})
  BY DEF OnePerSeq
<1>3. /\ Cardinality(rest) = m - 1 /\ DOMAIN t = 1..(m - 1)
      /\ \A i \in 1..(m - 1) : t[i] \in rest /\ t[i].seq = IF i < n THEN i ELSE i + 1
  <2>1. n \in 1..(m + 1) /\ n # m + 1
    BY <1>1
  <2> HIDE DEF rest
  <2> QED
    BY <1>2, <2>1, OrderOfSeq
<1>4. \A i \in 1..m : s[i] \in rows /\ s[i].seq = i
  BY ChainInOrder
<1>5. \A i \in 1..(m - 1) : t[i] = IF i < n THEN s[i] ELSE s[i + 1]
  <2> SUFFICES ASSUME NEW i \in 1..(m - 1) PROVE t[i] = IF i < n THEN s[i] ELSE s[i + 1]
    OBVIOUS
  <2>1. i \in 1..m /\ i + 1 \in 1..m
    BY <1>1
  <2> HIDE DEF s, t
  <2> QED
    BY <1>3, <1>4, <2>1 DEF OnePerSeq
<1> HIDE DEF s, t, rest
<1>6. \A i \in 1..m : Fits(s, i)
  BY <1>4, ChainFits
<1>7. ASSUME NEW j \in 1..(n - 1) PROVE Fits(t, j)
  <2>1. j \in 1..(m - 1) /\ j \in 1..m /\ j < n /\ (j # 1 => j - 1 \in 1..(m - 1) /\ j - 1 < n)
    BY <1>1
  <2>2. t[j] = s[j] /\ (j # 1 => t[j - 1] = s[j - 1])
    BY <1>5, <2>1
  <2> QED
    BY <1>6, <2>1, <2>2 DEF Fits
<1>8. CASE n < m
  <2>1. n \in 1..(m - 1) /\ t[n].seq = n + 1
    BY <1>1, <1>3, <1>8
  <2>2. ~Fits(t, n)
    BY <2>1 DEF Fits
  <2>3. BreaksAt(t, n) /\ n \in DOMAIN t
    BY <1>3, <1>7, <2>1, <2>2 DEF BreaksAt
  <2> QED
    BY <1>3, <1>8, <2>1, <2>3, FirstBreak DEF t, rest
<1>9. CASE n = m
  <2>1. \A i \in DOMAIN t : Fits(t, i)
    BY <1>3, <1>7, <1>9
  <2>2. Verify(rest) = AllFit(m - 1)
    BY <1>3, <2>1, NoBreak DEF t
  <2> QED
    BY <1>9, <2>2 DEF rest
<1> QED
  BY <1>1, <1>8, <1>9

(* What verify says of a chain and of what is altered in it: for any orgs   *)
(* and requests, when no two data of one place in the chain have one hash.  *)
THEOREM TamperingIsLocated ==
  ASSUME \A prev, n : \A r, q \in Requests :
           HashOf(prev, n, r) = HashOf(prev, n, q) => r = q
  PROVE  Spec => []TamperingIsFound
<1>1. ASSUME ChainInv, EverySightIsNumbered, NEW o \in Orgs
      PROVE  \E m \in Nat : OnePerSeq(RowsOf(o), 1..m)
  <2>1. PICK m \in Nat : {e.seq : e \in RowsOf(o)} = 1..m
    BY <1>1 DEF EverySightIsNumbered, Numbered
  <2>2. Verifies(RowsOf(o))
    BY <1>1 DEF ChainInv, ChainVerifies
  <2>3. OnePerSeq(RowsOf(o), 1..m)
    BY <2>1, <2>2 DEF OnePerSeq, Verifies
  <2> QED
    BY <2>3
<1>2. ASSUME ChainInv, EverySightIsNumbered, NEW o \in Orgs
      PROVE  Verify(RowsOf(o)) = AllFit(Cardinality(RowsOf(o)))
  <2>1. PICK m \in Nat : OnePerSeq(RowsOf(o), 1..m)
    BY <1>1, <1>2
  <2>2. Verifies(RowsOf(o))
    BY <1>2 DEF ChainInv, ChainVerifies
  <2>3. /\ DOMAIN InOrder(RowsOf(o)) = 1..m
        /\ \A i \in 1..m : InOrder(RowsOf(o))[i] \in RowsOf(o) /\ InOrder(RowsOf(o))[i].seq = i
    BY <2>1, ChainInOrder
  <2>4. \A i \in 1..m : Fits(InOrder(RowsOf(o)), i)
    BY <2>1, <2>2, <2>3, ChainFits
  <2> QED
    BY <2>3, <2>4, NoBreak
<1>3. ASSUME ChainInv, EverySightIsNumbered, NEW e \in events, NEW r \in Requests \ {e.by}
      PROVE  LET rows == RowsOf(e.org)
                 rest == rows \ {e}
                 n == e.seq
                 forged == Verify(rest \cup {Event(e.org, n, e.prev, r)})
                 deleted == Verify(rest)
             IN /\ Verify(rest \cup {WithoutNewHash(e, r)}) = BrokenAt(n, n - 1)
                /\ IF \E f \in rest : f.seq = n + 1
                     THEN forged = BrokenAt(n + 1, n) /\ deleted = BrokenAt(n + 1, n - 1)
                     ELSE forged.valid /\ deleted.valid
  <2> DEFINE rows == RowsOf(e.org)
  <2>1. e.org \in Orgs /\ e.by \in Requests /\ e \in rows /\ Verifies(rows)
    <3>1. e.org \in Orgs /\ e.by \in Requests
      BY <1>3 DEF ChainInv, TypeOK
    <3> QED
      BY <1>3, <3>1 DEF ChainInv, ChainVerifies, RowsOf
  <2>2. PICK m \in Nat : OnePerSeq(rows, 1..m)
    BY <1>1, <1>3, <2>1
  <2>3. HashOf(e.prev, e.seq, r) # e.hash
    BY <2>1 DEF Verifies
  <2>4. e.seq \in 1..m
    BY <2>1, <2>2 DEF OnePerSeq
  <2>5. (\E f \in rows \ {e} : f.seq = e.seq + 1) <=> e.seq < m
    <3>1. ASSUME NEW f \in rows \ {e}, f.seq = e.seq + 1 PROVE e.seq < m
      BY <2>2, <2>4, <3>1 DEF OnePerSeq
    <3>2. ASSUME e.seq < m PROVE \E f \in rows \ {e} : f.seq = e.seq + 1
      <4>1. e.seq + 1 \in 1..m /\ e.seq + 1 # e.seq
        BY <2>4, <3>2
      <4>2. PICK f \in rows : f.seq = e.seq + 1
        BY <2>2, <4>1 DEF OnePerSeq
      <4> QED
        BY <4>1, <4>2
    <3> QED
      BY <3>1, <3>2
  <2>6. AllFit(m).valid /\ AllFit(m - 1).valid
    BY DEF AllFit
  <2> HIDE DEF rows
  <2>7. Verify((rows \ {e}) \cup {WithoutNewHash(e, r)}) = BrokenAt(e.seq, e.seq - 1)
    BY <2>1, <2>2, <2>3, AlteredIsNamed
  <2>8. Verify((rows \ {e}) \cup {Event(e.org, e.seq, e.prev, r)}) =
          IF e.seq < m THEN BrokenAt(e.seq + 1, e.seq) ELSE AllFit(m)
    <3> DEFINE x == Event(e.org, e.seq, e.prev, r)
    <3>0. x.seq = e.seq /\ x.prev = e.prev /\ x.by = r /\ x.hash = HashOf(e.prev, e.seq, r)
      BY DEF Event
    <3> HIDE DEF x
    <3>1. Verify((rows \ {e}) \cup {x}) =
            IF e.seq < m THEN BrokenAt(e.seq + 1, e.seq) ELSE AllFit(m)
      BY <2>1, <2>2, <2>3, <3>0, ForgedIsGivenAway
    <3> QED
      BY <3>1 DEF x
  <2>9. Verify(rows \ {e}) = IF e.seq < m THEN BrokenAt(e.seq + 1, e.seq - 1) ELSE AllFit(m - 1)
    BY <2>1, <2>2, DeletedIsGivenAway
  <2> QED
    BY <2>5, <2>6, <2>7, <2>8, <2>9 DEF rows
<1>4. ChainInv /\ EverySightIsNumbered => VerifyLocates
  BY <1>2, <1>3 DEF VerifyLocates
<1>5. Spec => []TamperEvident
  BY TamperingShows
<1> QED
  BY <1>4, <1>5, ChainInvariant, ChainsAreNumbered, PTL DEF TamperingIsFound

-----------------------------------------------------------------------------
(* The log against the changes.                                             *)

LEMMA InitLogInv == Init => LogInv
<1> SUFFICES ASSUME Init PROVE LogInv
  OBVIOUS
<1>1. ASSUME NEW r \in Requests PROVE LogIsSound(r)
  BY <1>1 DEF Init, LogIsSound
<1>2. AuditTellsTheTruth
  BY DEF Init, AuditTellsTheTruth
<1> QED
  BY <1>1, <1>2 DEF LogInv

(* Events are never taken back, and those that come are of the request that *)
(* commits.                                                                 *)
LEMMA LogGrows ==
  ASSUME TypeOK, LogInv, NEW r \in Requests, Step(r) \/ RollBack(r)
  PROVE  /\ events \subseteq events'
         /\ \A e \in events' \ events : Commit(r) /\ e \in pending[r] /\ e.by = r
         /\ \A q \in Requests \ {r} : dirty'[q] = dirty[q] /\ changed'[q] = changed[q]
<1> USE DEF TypeOK, txVars
<1>1. CASE Write(r) \/ Update(r) BY <1>1 DEF Write, Update
<1>2. CASE LockOrg(r) \/ RecordLock(r) \/ RecordRead(r) \/ RecordInsert(r)
  BY <1>2 DEF LockOrg, RecordLock, RecordRead, RecordInsert
<1>3. CASE Commit(r)
  <2>1. \A e \in pending[r] : e.by = r
    BY DEF LogInv, LogIsSound
  <2> QED
    BY <1>3, <2>1 DEF Commit, EndTransaction
<1>4. CASE RollBack(r) BY <1>4 DEF RollBack, EndTransaction
<1> QED BY <1>1, <1>2, <1>3, <1>4 DEF Step

(* What is seen of the logs, and who is in all of them, stays so.           *)
LEMMA LoggedStays ==
  ASSUME NEW q \in Requests, events \subseteq events', InEveryLog(q)
  PROVE  InEveryLog(q)'
BY DEF InEveryLog, RowsOf

LEMMA SightOfOthers ==
  ASSUME TypeOK, LogInv, NEW r \in Requests, Step(r) \/ RollBack(r), NEW q \in Requests \ {r}
  PROVE  LogIsSound(q)'
<1>1. /\ pc'[q] = pc[q] /\ status'[q] = status[q] /\ pending'[q] = pending[q]
      /\ dirty'[q] = dirty[q] /\ changed'[q] = changed[q] /\ events \subseteq events'
  BY OnlyMine, LogGrows
<1>2. LogIsSound(q)
  BY DEF LogInv
<1>3. \A o \in Orgs : Sees(q, o) \subseteq Sees(q, o)'
  BY <1>1 DEF Sees
<1>4. ASSUME status[q] = "running", NEW n \in 1..(pc[q] - 1), Program[q][n].op = "record"
      PROVE  \E e \in Sees(q, Program[q][n].org)' : e.by = q
  <2>1. n \in 1..Len(Program[q])
    BY ProgramAssumption DEF TypeOK
  <2>2. Program[q][n].org \in Orgs
    BY <2>1, ProgramStep
  <2> QED
    BY <1>2, <1>3, <1>4, <2>2 DEF LogIsSound
<1>5. InEveryLog(q) => InEveryLog(q)'
  BY <1>1, LoggedStays
<1> QED
  BY <1>1, <1>2, <1>4, <1>5 DEF LogIsSound, ChangeIs

(* The request that moves: one case for each thing it may do to the log.    *)
LEMMA MoverKeepsLog ==
  ASSUME AuditsAfterChange, OnlySeparateRecordApart, TypeOK, LogInv,
         NEW r \in Requests, Step(r) \/ RollBack(r)
  PROVE  LogIsSound(r)'
<1> DEFINE n == pc[r]
           o == Program[r][n].op
           HasChanged == \E j \in 1..(n - 1) : ChangeIs(r, j)
           Logged == \A j \in 1..(n - 1) :
             Program[r][j].op = "record" => \E e \in Sees(r, Program[r][j].org) : e.by = r
<1>0. /\ n \in 1..Len(Program[r]) /\ n \in Nat \ {0} /\ Len(Program[r]) \in Nat
      /\ DOMAIN Program[r] = 1..Len(Program[r])
      /\ Program[r][Len(Program[r])].op = "commit"
  <2>1. Program[r] \in Seq([op : Ops, org : Orgs]) /\ Program[r][Len(Program[r])].op = "commit"
    BY ProgramAssumption
  <2>2. Len(Program[r]) \in Nat /\ DOMAIN Program[r] = 1..Len(Program[r])
    BY <2>1, LenProperties
  <2> QED
    BY <2>1, <2>2 DEF TypeOK
<1>1. /\ \A e \in pending[r] : e.by = r
      /\ status[r] = "running" =>
           /\ dirty[r] => HasChanged
           /\ HasChanged => dirty[r] \/ changed[r]
           /\ pending[r] # {} => dirty[r] \/ changed[r]
           /\ Logged
      /\ status[r] = "done" => InEveryLog(r)
      /\ r \notin Separate /\ changed[r] => InEveryLog(r)
  BY DEF LogInv, LogIsSound
<1>2. events \subseteq events' /\ (InEveryLog(r) => InEveryLog(r)')
  BY LogGrows, LoggedStays
<1>3. ASSUME Write(r) \/ Update(r) PROVE LogIsSound(r)'
  <2>1. /\ status[r] = "running" /\ o \in {"write", "update"} /\ pc'[r] = n + 1 /\ dirty'[r] = TRUE
        /\ UNCHANGED <<status, pending, events, changed>>
    BY <1>3 DEF Write, Update, AtStep, Advance, TypeOK
  <2>2. n \in 1..(pc'[r] - 1) /\ ChangeIs(r, n) /\ \A j \in 1..(pc'[r] - 1) : j \in 1..(n - 1) \/ j = n
    BY <1>0, <2>1 DEF ChangeIs
  <2>3. \A j \in 1..(pc'[r] - 1) :
          Program[r][j].op = "record" => \E e \in Sees(r, Program[r][j].org)' : e.by = r
    BY <1>1, <2>1, <2>2 DEF Sees
  <2> QED
    BY <1>1, <1>2, <2>1, <2>2, <2>3 DEF LogIsSound, ChangeIs
<1>4. ASSUME LockOrg(r) PROVE LogIsSound(r)'
  <2>1. /\ status[r] = "running" /\ o = "lock" /\ pc'[r] = n + 1
        /\ UNCHANGED <<status, pending, dirty, events, changed>>
    BY <1>4 DEF LockOrg, AtStep, Advance, TypeOK, txVars
  <2>2. \A j \in 1..(pc'[r] - 1) : j \in 1..(n - 1) \/ j = n
    BY <1>0, <2>1
  <2>3. ~ChangeIs(r, n) /\ 1..(n - 1) \subseteq 1..(pc'[r] - 1)
    BY <1>0, <2>1 DEF ChangeIs
  <2>4. \A j \in 1..(pc'[r] - 1) :
          Program[r][j].op = "record" => \E e \in Sees(r, Program[r][j].org)' : e.by = r
    BY <1>1, <2>1, <2>2 DEF Sees
  <2> QED
    BY <1>1, <1>2, <2>1, <2>2, <2>3, <2>4 DEF LogIsSound, ChangeIs
<1>5. ASSUME RecordLock(r) \/ RecordRead(r) PROVE LogIsSound(r)'
  <2>1. UNCHANGED <<pc, status, pending, dirty, events, changed>>
    BY <1>5 DEF RecordLock, RecordRead, txVars
  <2> QED
    BY <1>1, <1>2, <2>1 DEF LogIsSound, Sees, ChangeIs
<1>6. ASSUME RecordInsert(r) PROVE LogIsSound(r)'
  <2>1. /\ status[r] = "running" /\ o = "record" /\ pc'[r] = n + 1
        /\ pending'[r] = pending[r] \cup {NewEvent(r)}
        /\ UNCHANGED <<status, dirty, events, changed>>
    BY <1>6 DEF RecordInsert, AtStep, Advance, TypeOK
  <2>2. NewEvent(r).by = r /\ NewEvent(r).org = Program[r][n].org
    BY DEF NewEvent, Event, Org
  <2>3. \A j \in 1..(pc'[r] - 1) : j \in 1..(n - 1) \/ j = n
    BY <1>0, <2>1
  <2>4. HasChanged
    BY <1>0, <2>1 DEF AuditsAfterChange
  <2>5. ~ChangeIs(r, n) /\ 1..(n - 1) \subseteq 1..(pc'[r] - 1)
    BY <1>0, <2>1 DEF ChangeIs
  <2>6. ASSUME NEW j \in 1..(pc'[r] - 1), Program[r][j].op = "record"
        PROVE  \E e \in Sees(r, Program[r][j].org)' : e.by = r
    <3>1. CASE j = n
      BY <2>1, <2>2, <3>1 DEF Sees
    <3>2. CASE j \in 1..(n - 1)
      BY <1>1, <2>1, <2>6, <3>2 DEF Sees
    <3> QED
      BY <2>3, <3>1, <3>2
  <2>7. (\E j \in 1..(pc'[r] - 1) : ChangeIs(r, j)) => HasChanged
    BY <2>3, <2>5
  <2>8. \A e \in pending'[r] : e.by = r
    BY <1>1, <2>1, <2>2
  <2> QED
    BY <1>1, <1>2, <2>1, <2>4, <2>5, <2>6, <2>7, <2>8 DEF LogIsSound, ChangeIs
<1>7. ASSUME Commit(r) PROVE LogIsSound(r)'
  <2>1. /\ status[r] = "running" /\ o = "commit" /\ pending'[r] = {} /\ dirty'[r] = FALSE
        /\ events' = events \cup pending[r]
        /\ changed'[r] <=> changed[r] \/ dirty[r]
        /\ status'[r] = "running" => pc'[r] = n + 1
        /\ status'[r] # "running" => n = Len(Program[r])
    BY <1>7 DEF Commit, EndTransaction, AtStep, Advance, TypeOK, LastStep
  <2>2. \A j \in 1..(n - 1) :
          Program[r][j].op = "record" => \E e \in RowsOf(Program[r][j].org)' : e.by = r
    BY <1>1, <2>1 DEF Sees, RowsOf
  <2>3. status'[r] # "running" => InEveryLog(r)'
    BY <1>0, <2>1, <2>2 DEF InEveryLog
  <2>4. ASSUME r \notin Separate, dirty[r] PROVE InEveryLog(r)'
    <3>1. PICK i \in 1..(n - 1) : ChangeIs(r, i)
      BY <1>1, <2>1, <2>4
    <3>2. ~RecordsApart(r)
      BY <2>4 DEF OnlySeparateRecordApart
    <3>3. ASSUME NEW j \in DOMAIN Program[r], Program[r][j].op = "record" PROVE j \in 1..(n - 1)
      <4>1. i \in DOMAIN Program[r] /\ n \in DOMAIN Program[r] /\ i < n /\ j # n
        BY <1>0, <2>1, <3>3
      <4>2. ~(n < j)
        BY <2>1, <3>1, <3>2, <3>3, <4>1 DEF RecordsApart
      <4> QED
        BY <1>0, <4>1, <4>2
    <3> QED
      BY <2>2, <3>3 DEF InEveryLog
  <2>5. status'[r] = "running" =>
          \A j \in 1..(pc'[r] - 1) : j \in 1..(n - 1) \/ (j = n /\ Program[r][j].op = "commit")
    BY <1>0, <2>1
  <2>6. status'[r] = "running" => \A j \in 1..(pc'[r] - 1) :
          Program[r][j].op = "record" => \E e \in Sees(r, Program[r][j].org)' : e.by = r
    BY <2>2, <2>5 DEF Sees, RowsOf
  <2>7. status'[r] = "running" /\ (\E j \in 1..(pc'[r] - 1) : ChangeIs(r, j)) => changed'[r]
    BY <1>1, <2>1, <2>5 DEF ChangeIs
  <2>8. r \notin Separate /\ changed'[r] => InEveryLog(r)'
    BY <1>1, <1>2, <2>1, <2>4
  <2> QED
    BY <2>1, <2>3, <2>6, <2>7, <2>8 DEF LogIsSound, ChangeIs
<1>8. ASSUME RollBack(r) PROVE LogIsSound(r)'
  <2>1. status'[r] = "failed" /\ pending'[r] = {} /\ UNCHANGED <<events, changed>>
    BY <1>8 DEF RollBack, EndTransaction, TypeOK
  <2> QED
    BY <1>1, <1>2, <2>1 DEF LogIsSound
<1> QED
  BY <1>3, <1>4, <1>5, <1>6, <1>7, <1>8 DEF Step

(* An event comes with the commit of its change, or after it.               *)
LEMMA TruthStays ==
  ASSUME TypeOK, LogInv, NEW r \in Requests, Step(r) \/ RollBack(r)
  PROVE  AuditTellsTheTruth'
<1>1. \A q \in Requests : changed[q] => changed'[q]
  <2>1. \A q \in Requests \ {r} : changed'[q] = changed[q]
    BY LogGrows
  <2>2. changed[r] => changed'[r]
    BY DEF Step, RollBack, Write, Update, LockOrg, RecordLock, RecordRead, RecordInsert, Commit,
           TypeOK, txVars
  <2> QED
    BY <2>1, <2>2
<1>2. ASSUME NEW e \in events' \ events PROVE changed'[e.by]
  <2>1. Commit(r) /\ e \in pending[r] /\ e.by = r
    BY <1>2, LogGrows
  <2>2. dirty[r] \/ changed[r]
    BY <2>1 DEF Commit, AtStep, LogInv, LogIsSound
  <2> QED
    BY <2>1, <2>2 DEF Commit, TypeOK
<1>3. \A e \in events : e.by \in Requests /\ changed[e.by]
  BY DEF LogInv, AuditTellsTheTruth, TypeOK
<1> QED
  BY <1>1, <1>2, <1>3 DEF AuditTellsTheTruth

(* Services that record what they have changed, and, but for a few, in the  *)
(* transaction that changes it: whatever fails, deadlocks or is rolled back,*)
(* each committed change is in the log of every org it concerns, unless one *)
(* of the few did not succeed, and no event describes a change that was not *)
(* committed.                                                               *)
THEOREM LogIsComplete ==
  ASSUME AuditsAfterChange, OnlySeparateRecordApart
  PROVE  Spec => []LogTellsAll
<1>1. TypeOK /\ LogInv /\ [Next]_vars => LogInv'
  <2> SUFFICES ASSUME TypeOK, LogInv, [Next]_vars PROVE LogInv'
    OBVIOUS
  <2>1. ASSUME NEW r \in Requests, Step(r) \/ Abort(r) \/ DeadlockAbort(r) PROVE LogInv'
    <3>1. Step(r) \/ RollBack(r)
      BY <2>1 DEF Abort, DeadlockAbort
    <3>2. \A q \in Requests : LogIsSound(q)'
      BY <3>1, SightOfOthers, MoverKeepsLog
    <3> QED
      BY <3>1, <3>2, TruthStays DEF LogInv
  <2>2. CASE UNCHANGED vars
    BY <2>2 DEF vars, requestVars, txVars, LogInv, LogIsSound, AuditTellsTheTruth, InEveryLog,
                RowsOf, Sees, ChangeIs
  <2> QED
    BY <2>1, <2>2 DEF Next, AllAnswered
<1>2. TypeOK /\ LogInv => LogTellsAll
  <2> SUFFICES ASSUME TypeOK, LogInv, NEW r \in Requests, changed[r], r \in Separate => status[r] = "done"
               PROVE  InEveryLog(r)
    BY DEF LogInv, LogTellsAll, ChangeIsAudited
  <2> QED
    BY DEF LogInv, LogIsSound
<1> QED
  BY InitLogInv, <1>1, <1>2, TypeCorrect, PTL DEF Spec

-----------------------------------------------------------------------------
(* Who locks first.                                                         *)

(* A step that is no commit joins the transaction; a commit ends it.        *)
LEMMA Joined ==
  ASSUME TypeOK, NEW r \in Requests, NEW ops \in SUBSET (Ops \ {"commit"})
  PROVE  /\ Program[r][pc[r]].op # "commit" =>
              (InTransaction(r, pc[r] + 1, ops) <=>
                 InTransaction(r, pc[r], ops) \/ Program[r][pc[r]].op \in ops)
         /\ Program[r][pc[r]].op = "commit" => ~InTransaction(r, pc[r] + 1, ops)
<1> DEFINE n == pc[r]
<1>0. n \in Nat \ {0}
  BY DEF TypeOK
<1>1. ASSUME Program[r][n].op = "commit" PROVE ~InTransaction(r, n + 1, ops)
  <2> SUFFICES ASSUME NEW j \in 1..n, Program[r][j].op \in ops,
                      \A k \in j..n : Program[r][k].op # "commit"
               PROVE  FALSE
    BY <1>0 DEF InTransaction
  <2> QED
    BY <1>0, <1>1
<1>2. ASSUME Program[r][n].op # "commit", InTransaction(r, n + 1, ops)
      PROVE  InTransaction(r, n, ops) \/ Program[r][n].op \in ops
  <2>1. PICK j \in 1..n : Program[r][j].op \in ops /\ \A k \in j..n : Program[r][k].op # "commit"
    BY <1>0, <1>2 DEF InTransaction
  <2> QED
    BY <1>0, <2>1 DEF InTransaction
<1>3. ASSUME Program[r][n].op # "commit", InTransaction(r, n, ops) PROVE InTransaction(r, n + 1, ops)
  <2>1. PICK j \in 1..(n - 1) : /\ Program[r][j].op \in ops
                                /\ \A k \in j..(n - 1) : Program[r][k].op # "commit"
    BY <1>3 DEF InTransaction
  <2>2. j \in 1..n /\ \A k \in j..n : Program[r][k].op # "commit"
    BY <1>0, <1>3, <2>1
  <2> QED
    BY <1>0, <2>1, <2>2 DEF InTransaction
<1>4. ASSUME Program[r][n].op # "commit", Program[r][n].op \in ops PROVE InTransaction(r, n + 1, ops)
  <2>1. n \in 1..n /\ \A k \in n..n : Program[r][k].op # "commit"
    BY <1>0, <1>4
  <2> QED
    BY <1>0, <1>4, <2>1 DEF InTransaction
<1> QED
  BY <1>1, <1>2, <1>3, <1>4


LEMMA InitLocksInv == Init => LocksInv
BY KindsAssumption DEF Init, LocksInv, InTransaction

(* What a step does to the rows' holders.                                   *)
LEMMA HoldersOf ==
  ASSUME TypeOK, NEW r \in Requests, Step(r) \/ RollBack(r), NEW o \in Orgs
  PROVE  /\ \A q \in Requests \ {r} : q \in share'[o] <=> q \in share[o]
         /\ r \in share'[o] => r \in share[o] \/ (Write(r) /\ o = Org(r))
         /\ r \in excl'[o] => \/ r \in excl[o]
                              \/ (LockOrg(r) \/ RecordLock(r)) /\ o = Org(r)
         /\ Commit(r) \/ RollBack(r) => r \notin share'[o] /\ r \notin excl'[o]
<1> USE DEF TypeOK, lockVars
<1>1. CASE Write(r)
  <2>1. excl' = excl /\ share' = [share EXCEPT ![Org(r)] = @ \cup {r}] /\ AtStep(r, "write")
    BY <1>1 DEF Write, LockRow
  <2>2. ~Commit(r) /\ ~RollBack(r)
    BY <1>1 DEF Write, AtStep, Commit, RollBack
  <2> QED
    BY <1>1, <2>1, <2>2
<1>2. CASE LockOrg(r) \/ RecordLock(r)
  <2>1. share' = share /\ excl' = [excl EXCEPT ![Org(r)] = @ \cup {r}]
    BY <1>2 DEF LockOrg, RecordLock, LockRow
  <2>2. ~Commit(r) /\ ~RollBack(r)
    BY <1>2 DEF LockOrg, RecordLock, AtStep, Commit, RollBack
  <2> QED
    BY <1>2, <2>1, <2>2
<1>3. CASE Update(r) \/ RecordRead(r) \/ RecordInsert(r)
  <2>1. share' = share /\ excl' = excl
    BY <1>3 DEF Update, RecordRead, RecordInsert
  <2>2. ~Commit(r) /\ ~RollBack(r)
    BY <1>3 DEF Update, RecordRead, RecordInsert, AtStep, Commit, RollBack
  <2> QED
    BY <2>1, <2>2
<1>4. CASE Commit(r) \/ RollBack(r)
  <2>1. share' = Unlock(r, share) /\ excl' = Unlock(r, excl)
    BY <1>4 DEF Commit, RollBack, EndTransaction
  <2> QED
    BY <2>1 DEF Unlock
<1> QED
  BY <1>1, <1>2, <1>3, <1>4 DEF Step

(* A key share and an update lock of one row are never held by two.         *)
LEMMA NoShareBesideUpdate ==
  ASSUME TypeOK, TypeOK', LocksInv, NEW r \in Requests, Step(r) \/ RollBack(r),
         NEW o \in Orgs, NEW q \in excl'[o], NEW p \in share'[o]
  PROVE  p = q
<1>0. q \in Requests /\ p \in Requests
  BY DEF TypeOK
<1>1. CASE q \in excl[o] /\ p \in share[o]
  BY <1>1 DEF LocksInv
<1>2. CASE p \notin share[o]
  <2>1. p = r /\ Write(r) /\ o = Org(r)
    BY <1>0, <1>2, HoldersOf
  <2>2. excl' = excl /\ WaitsFor(r) = {} /\ WantsShare(r) /\ ~WantsUpdate(r)
    BY <2>1 DEF Write, WantsShare, WantsUpdate, AtStep
  <2>3. excl[Org(r)] \ {r} = {}
    BY <2>2 DEF WaitsFor
  <2> QED
    BY <2>1, <2>2, <2>3
<1>3. CASE q \notin excl[o]
  <2>1. q = r /\ (LockOrg(r) \/ RecordLock(r)) /\ o = Org(r)
    BY <1>0, <1>3, HoldersOf, ExclOfOthers
  <2>2. share' = share /\ WaitsFor(r) = {} /\ WantsUpdate(r) /\ ~WantsShare(r)
    BY <2>1 DEF LockOrg, RecordLock, WantsUpdate, WantsShare, AtStep
  <2>3. (excl[o] \cup share[o]) \ {r} = {}
    BY <2>1, <2>2 DEF WaitsFor, OwnLocks
  <2> QED
    BY <2>1, <2>2, <2>3
<1> QED
  BY <1>1, <1>2, <1>3

(* Whoever locks first holds its org's row from then on, and nothing before.*)
LEMMA StepLocksInv ==
  ASSUME SerialisedLockFirst, TypeOK, TypeOK', OneHolder, LocksInv,
         NEW r \in Requests, Step(r) \/ RollBack(r)
  PROVE  LocksInv'
<1>1. \A o \in Orgs : \A q \in excl'[o] : share'[o] \subseteq {q}
  BY NoShareBesideUpdate
<1>2. ASSUME NEW q \in Serialised, q # r, status'[q] = "running"
      PROVE  IF InTransaction(q, pc'[q], {"lock"})
               THEN q \in excl'[Org(q)']
               ELSE \A o \in Orgs : q \notin excl'[o] \cup share'[o]
  <2>0. q \in Requests \ {r}
    BY <1>2, KindsAssumption
  <2>1. pc'[q] = pc[q] /\ status'[q] = status[q] /\ Org(q)' = Org(q) /\ Org(q) \in Orgs
    BY <2>0, OnlyMine, OrgIsOrg DEF Org
  <2>2. \A o \in Orgs : (q \in excl'[o] <=> q \in excl[o]) /\ (q \in share'[o] <=> q \in share[o])
    BY <2>0, ExclOfOthers, HoldersOf
  <2> QED
    BY <1>2, <2>1, <2>2 DEF LocksInv
<1>3. ASSUME r \in Serialised, status'[r] = "running"
      PROVE  IF InTransaction(r, pc'[r], {"lock"})
               THEN r \in excl'[Org(r)']
               ELSE \A o \in Orgs : r \notin excl'[o] \cup share'[o]
  <2> DEFINE n == pc[r]
             o == Program[r][n].op
  <2>0. /\ n \in 1..Len(Program[r]) /\ n \in Nat \ {0} /\ Len(Program[r]) \in Nat
        /\ DOMAIN Program[r] = 1..Len(Program[r]) /\ pc'[r] \in 1..Len(Program[r])
    <3>1. Program[r] \in Seq([op : Ops, org : Orgs])
      BY ProgramAssumption
    <3>2. Len(Program[r]) \in Nat /\ DOMAIN Program[r] = 1..Len(Program[r])
      BY <3>1, LenProperties
    <3> QED
      BY <3>2 DEF TypeOK
  <2>1. status[r] = "running" /\ ~RollBack(r)
    BY <1>3 DEF RollBack, TypeOK, Step, Write, Update, LockOrg, RecordLock, RecordRead, RecordInsert,
       Commit, AtStep
  <2>2. Org(r)' = Org(r) /\ Org(r) \in Orgs
    BY <1>3, <2>0, OrgIsOrg DEF SerialisedLockFirst, LocksFirst, Org
  <2>3. /\ o # "commit" => (InTransaction(r, n + 1, {"lock"}) <=>
                              InTransaction(r, n, {"lock"}) \/ o = "lock")
        /\ o = "commit" => ~InTransaction(r, n + 1, {"lock"})
    <3>1. {"lock"} \in SUBSET (Ops \ {"commit"})
      BY DEF Ops
    <3> QED
      BY <3>1, Joined
  <2>4. o \in {"write", "record"} => InTransaction(r, n, {"lock"})
    BY <1>3, <2>0 DEF SerialisedLockFirst, LocksFirst
  <2>5. IF InTransaction(r, n, {"lock"})
          THEN r \in excl[Org(r)]
          ELSE \A p \in Orgs : r \notin excl[p] \cup share[p]
    BY <1>3, <2>1 DEF LocksInv
  <2>6. CASE Commit(r)
    <3>1. o = "commit" /\ pc'[r] = n + 1
      BY <1>3, <2>6 DEF Commit, AtStep, Advance, TypeOK
    <3>2. \A p \in Orgs : r \notin excl'[p] \cup share'[p]
      BY <2>6, HoldersOf
    <3> QED
      BY <2>3, <3>1, <3>2
  <2>7. CASE LockOrg(r)
    <3>1. o = "lock" /\ pc'[r] = n + 1 /\ r \in excl'[Org(r)]
      BY <2>2, <2>7 DEF LockOrg, AtStep, Advance, LockRow, TypeOK
    <3> QED
      BY <2>2, <2>3, <3>1
  <2>8. CASE Update(r)
    <3>1. o = "update" /\ pc'[r] = n + 1 /\ UNCHANGED <<excl, share>>
      BY <2>8 DEF Update, AtStep, Advance, TypeOK, lockVars
    <3> QED
      BY <2>2, <2>3, <2>5, <3>1
  <2>9. CASE Write(r) \/ RecordInsert(r)
    <3>1. o \in {"write", "record"} /\ pc'[r] = n + 1
      BY <2>9 DEF Write, RecordInsert, AtStep, Advance, TypeOK
    <3>2. r \in excl'[Org(r)]
      BY <2>2, <2>4, <2>5, <2>9, <3>1 DEF Write, RecordInsert, lockVars
    <3> QED
      BY <2>2, <2>3, <2>4, <3>1, <3>2
  <2>10. CASE RecordLock(r) \/ RecordRead(r)
    <3>1. o = "record" /\ pc'[r] = n
      BY <2>10 DEF RecordLock, RecordRead, AtStep
    <3>2. r \in excl'[Org(r)]
      BY <2>2, <2>4, <2>5, <2>10, <3>1, ExclOfOthers
      DEF RecordLock, RecordRead, lockVars, LockRow, TypeOK
    <3> QED
      BY <2>2, <2>4, <3>1, <3>2
  <2> QED
    BY <2>1, <2>6, <2>7, <2>8, <2>9, <2>10 DEF Step
<1> QED
  BY <1>1, <1>2, <1>3 DEF LocksInv

(* A service that locks its org's row before anything else waits for nobody *)
(* while somebody waits for it, so it is in no cycle, whatever the others   *)
(* are doing.                                                               *)
THEOREM FirstLockersAreSpared ==
  ASSUME SerialisedLockFirst
  PROVE  Spec => []SerialisedAreSpared
<1>1. TypeOK /\ TypeOK' /\ OneHolder /\ LocksInv /\ [Next]_vars => LocksInv'
  <2> SUFFICES ASSUME TypeOK, TypeOK', OneHolder, LocksInv, [Next]_vars PROVE LocksInv'
    OBVIOUS
  <2>1. ASSUME NEW r \in Requests, Step(r) \/ Abort(r) \/ DeadlockAbort(r) PROVE LocksInv'
    BY <2>1, StepLocksInv DEF Abort, DeadlockAbort
  <2>2. CASE UNCHANGED vars
    BY <2>2 DEF vars, requestVars, lockVars, LocksInv, InTransaction, Org
  <2> QED
    BY <2>1, <2>2 DEF Next, AllAnswered
<1>2. TypeOK /\ OneHolder /\ LocksInv => SerialisedAreSpared
  <2> SUFFICES ASSUME TypeOK, OneHolder, LocksInv, NEW D \in SUBSET Waiting, Cycle(D),
                      NEW r \in D, r \in Serialised
               PROVE  FALSE
    BY DEF SerialisedAreSpared
  <2>0. r \in Requests
    BY KindsAssumption
  <2>1. PICK x \in D \ {r} : x \in WaitsFor(r)
    BY DEF Cycle
  <2>2. PICK y \in D \ {r} : r \in WaitsFor(y)
    BY DEF Cycle
  <2>3. y \in Requests
    BY DEF Waiting
  <2>4. \E o \in Orgs : r \in excl[o] \cup share[o]
    BY <2>2, <2>3, OrgIsOrg DEF WaitsFor
  <2>5. status[r] = "running" /\ (WantsShare(r) \/ WantsUpdate(r))
    BY <2>1 DEF WaitsFor, WantsShare, WantsUpdate, AtStep
  <2>6. r \in excl[Org(r)]
    BY <2>4, <2>5 DEF LocksInv
  <2>7. excl[Org(r)] \subseteq {r} /\ share[Org(r)] \subseteq {r}
    BY <2>0, <2>6, OrgIsOrg DEF OneHolder, LocksInv
  <2> QED
    BY <2>1, <2>7 DEF WaitsFor, OwnLocks
<1>3. Spec => [](TypeOK /\ OneHolder)
  BY ChainInvariant, PTL DEF ChainInv
<1> QED
  BY InitLocksInv, <1>1, <1>2, <1>3, PTL DEF Spec

=============================================================================
