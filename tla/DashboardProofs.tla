------------------------------ MODULE DashboardProofs ------------------------------
(***************************************************************************)
(* Proofs about the pages of the dashboard, for every set of members,      *)
(* names, files and subjects and every bound on what users do.  Each page  *)
(* has its own invariant, stated at the end of its module; the tab's part  *)
(* says which one is at work, and no step changes it.  That the invariants *)
(* of the pages about the org itself hold is proved in OrgPagesProofs.     *)
(***************************************************************************)
EXTENDS MCDashboard, OrgPagesProofs, TLAPS

All == <<part, x1, x2, x3, x4, x5, x6, x7, x8, x9, x10, x11, x12, x13, x14, x15, x16, x17, x18, x19, x20>>

(* No step leaves the part for another.                                     *)
LEMMA PartStays == [DashboardNext]_All => part' = part
BY DEF DashboardNext, All, Rest8, Rest11, Rest13, Rest14, Rest15, Rest16, Rest17, Rest18, Rest19, Rest20

-----------------------------------------------------------------------------
(* The queue of alerts (AlertQueue).                                        *)

QueueHolds == part = "alerts" => Queue!QueueInv

(* Only the queue moves while it is explored.                               *)
LEMMA QueueSteps ==
  ASSUME part = "alerts", [DashboardNext]_All
  PROVE  part' = part /\ [Queue!Next]_(Queue!vars)
<1>1. CASE DashboardNext
  BY <1>1 DEF DashboardNext, Rest18, Rest19, Rest20
<1>2. CASE UNCHANGED All
  BY <1>2 DEF All, Queue!vars, Queue!Api
<1> QED
  BY <1>1, <1>2

LEMMA QueueInit == Queue!Init => Queue!QueueInv
<1> SUFFICES ASSUME Queue!Init PROVE Queue!QueueInv
  OBVIOUS
<1>1. MaxNotes \in Nat
  BY BoundsAreNumbers
<1>2. /\ x2 \in [Queue!Range(<<a1, a2, a3>>) -> Queue!Statuses] /\ x12 \in 0..MaxNotes
      /\ x3 \in [Queue!Range(<<a1, a2, a3>>) -> SUBSET Queue!Note]
  BY <1>1 DEF Queue!Init, Queue!Statuses
<1>3. DOMAIN x15 = Queue!Note /\ DOMAIN x9 = {"of", "note"} /\ Queue!NoteFor(x9.note, x9.of)
  BY DEF Queue!Init, Queue!NoForm, Queue!NoteFor
<1>4. \A a \in Queue!Range(<<a1, a2, a3>>) : Queue!Kept(a)
  BY DEF Queue!Init, Queue!Kept
<1> QED
  BY <1>2, <1>3, <1>4 DEF Queue!Init, Queue!QueueInv

(* What was written and pressed stays so.                                   *)
HistoriesGrow ==
  /\ x12' \in 0..MaxNotes /\ x12 <= x12' /\ DOMAIN x15' = Queue!Note
  /\ \A n \in 1..x12 : x15'[n] = x15[n]
  /\ x16 \subseteq x16' /\ x17 \subseteq x17'

LEMMA NotesStayFor ==
  ASSUME Queue!QueueInv, HistoriesGrow, NEW n, NEW a, Queue!NoteFor(n, a)
  PROVE  Queue!NoteFor(n, a)'
BY BoundsAreNumbers DEF Queue!QueueInv, HistoriesGrow, Queue!NoteFor

LEMMA RequestsStayOwn ==
  ASSUME Queue!QueueInv, HistoriesGrow, NEW s, Queue!CarriesItsOwn(s)
  PROVE  Queue!CarriesItsOwn(s)'
BY NotesStayFor DEF Queue!CarriesItsOwn, HistoriesGrow

(* So an alert keeps the reason for its status.                             *)
LEMMA ReasonsStay ==
  ASSUME Queue!QueueInv, HistoriesGrow, NEW a, Queue!Kept(a), x2'[a] = x2[a], x2'[a] # "open"
  PROVE  \/ <<a, x2'[a]>> \in x17'
         \/ \E n \in 0..x12' : /\ Queue!NoteFor(n, a)' /\ <<a, x2'[a], n>> \in x16'
                               /\ x2'[a] = "closed" => n # 0
<1>1. CASE <<a, x2[a]>> \in x17
  BY <1>1 DEF HistoriesGrow
<1>2. CASE <<a, x2[a]>> \notin x17
  <2>1. PICK n \in 0..x12 : /\ Queue!NoteFor(n, a) /\ <<a, x2[a], n>> \in x16
                            /\ x2[a] = "closed" => n # 0
    BY <1>2 DEF Queue!Kept
  <2>2. Queue!NoteFor(n, a)'
    BY <2>1, NotesStayFor
  <2>3. n \in 0..x12'
    BY <2>2 DEF Queue!NoteFor
  <2> QED
    BY <2>1, <2>2, <2>3 DEF HistoriesGrow
<1> QED
  BY <1>1, <1>2

LEMMA AlertsStayKept ==
  ASSUME Queue!QueueInv, HistoriesGrow, NEW a, Queue!Kept(a), x2'[a] = x2[a], x3'[a] = x3[a]
  PROVE  Queue!Kept(a)'
<1>1. \A n \in 1..x12 : n \in 1..x12' /\ x15'[n] = x15[n]
  BY BoundsAreNumbers DEF Queue!QueueInv, HistoriesGrow
<1>2. \A n \in x3'[a] : n \in 1..x12' /\ x15'[n] = a
  BY <1>1 DEF Queue!Kept
<1> QED
  BY <1>2, ReasonsStay DEF Queue!Kept

(* A step that leaves the API's alerts alone and gives each request and     *)
(* form their own note keeps all of it.                                     *)
LEMMA PageMoves ==
  ASSUME Queue!QueueInv, HistoriesGrow, UNCHANGED <<x2, x3>>,
         DOMAIN x9' = {"of", "note"}, Queue!NoteFor(x9.note, x9.of)',
         \A s \in x11' : s \in x11 \/ Queue!CarriesItsOwn(s)'
  PROVE  Queue!QueueInv'
<1>1. \A s \in x11' : Queue!CarriesItsOwn(s)'
  BY RequestsStayOwn DEF Queue!QueueInv
<1>2. \A a \in Queue!Range(<<a1, a2, a3>>) : Queue!Kept(a)'
  BY AlertsStayKept DEF Queue!QueueInv
<1> QED
  BY <1>1, <1>2 DEF Queue!QueueInv, HistoriesGrow

LEMMA QueueStep == Queue!QueueInv /\ [Queue!Next]_(Queue!vars) => Queue!QueueInv'
<1> SUFFICES ASSUME Queue!QueueInv, [Queue!Next]_(Queue!vars) PROVE Queue!QueueInv'
  OBVIOUS
<1>1. /\ x12 \in 0..MaxNotes /\ DOMAIN x15 = Queue!Note /\ MaxNotes \in Nat /\ x12 \in Nat
      /\ DOMAIN x9 = {"of", "note"} /\ Queue!NoteFor(x9.note, x9.of)
      /\ Queue!NoteFor(0, x9.of)
      /\ \A s \in x11 : Queue!CarriesItsOwn(s)
      /\ x2 \in [Queue!Range(<<a1, a2, a3>>) -> Queue!Statuses]
      /\ x3 \in [Queue!Range(<<a1, a2, a3>>) -> SUBSET Queue!Note]
      /\ \A a \in Queue!Range(<<a1, a2, a3>>) : Queue!Kept(a)
  BY BoundsAreNumbers DEF Queue!QueueInv, Queue!NoteFor
<1>2. (UNCHANGED <<x12, x15>> /\ x16 \subseteq x16' /\ x17 \subseteq x17') => HistoriesGrow
  BY <1>1 DEF HistoriesGrow
<1>3. \A n, a : UNCHANGED <<x12, x15>> => Queue!NoteFor(n, a)' = Queue!NoteFor(n, a)
  BY DEF Queue!NoteFor
<1>4. \A a : UNCHANGED <<x12, x15>> => Queue!NoteFor(0, a)'
  BY <1>1 DEF Queue!NoteFor
<1>5. \A s \in Queue!Forsaken : HistoriesGrow => Queue!CarriesItsOwn(s)'
  <2> TAKE s \in Queue!Forsaken
  <2> HAVE HistoriesGrow
  <2>1. PICK t \in x11 : s = [t EXCEPT !.same = FALSE]
    BY DEF Queue!Forsaken
  <2>2. Queue!CarriesItsOwn(t)
    BY <1>1
  <2>3. DOMAIN s = DOMAIN t /\ s.alert = t.alert /\ s.status = t.status /\ s.note = t.note
    BY <2>1, <2>2 DEF Queue!CarriesItsOwn
  <2>4. Queue!CarriesItsOwn(s)
    BY <2>2, <2>3 DEF Queue!CarriesItsOwn
  <2> QED
    BY <2>4, RequestsStayOwn
<1>6. CASE Queue!AlertDetail
  <2>1. DOMAIN x9' = {"of", "note"} /\ x9'.note = 0
    BY <1>6 DEF Queue!AlertDetail, Queue!Remount
  <2>2. x11' = Queue!Forsaken /\ UNCHANGED <<x2, x3, x12, x15, x16, x17>>
    BY <1>6 DEF Queue!AlertDetail, Queue!Remount, Queue!Api
  <2>3. Queue!NoteFor(x9.note, x9.of)'
    BY <1>4, <2>1, <2>2
  <2> QED
    BY <1>2, <1>5, <2>1, <2>2, <2>3, PageMoves
<1>7. CASE Queue!WriteNote
  <2>1. /\ x12' = x12 + 1 /\ x12 < MaxNotes /\ x9' = [x9 EXCEPT !.note = x12']
        /\ x15' = [x15 EXCEPT ![x12'] = x9.of] /\ UNCHANGED <<x2, x3, x11, x16, x17>>
    BY <1>7 DEF Queue!WriteNote, Queue!Api
  <2>2. x12' \in Queue!Note
    BY <1>1, <2>1 DEF Queue!Note
  <2>3. HistoriesGrow
    BY <1>1, <2>1 DEF HistoriesGrow
  <2>4. x15'[x12'] = x9.of
    BY <1>1, <2>1, <2>2
  <2>5. DOMAIN x9' = {"of", "note"} /\ x9'.note = x12' /\ x9'.of = x9.of
    BY <1>1, <2>1
  <2>6. Queue!NoteFor(x9.note, x9.of)'
    BY <1>1, <2>1, <2>4, <2>5 DEF Queue!NoteFor
  <2> QED
    BY <2>1, <2>3, <2>5, <2>6, PageMoves
<1>8. ASSUME UNCHANGED <<x2, x3, x9, x12, x15, x16>>, x17 \subseteq x17', x11' \subseteq x11
      PROVE  Queue!QueueInv'
  BY <1>1, <1>2, <1>3, <1>8, PageMoves
<1>9. CASE Queue!ServeList \/ Queue!ListArrives \/ Queue!TryAgain \/ Queue!Raise
  BY <1>8, <1>9 DEF Queue!ServeList, Queue!ListArrives, Queue!TryAgain, Queue!Raise, Queue!Api, Queue!Page
<1>10. CASE Queue!Leave \/ Queue!ListFails
  <2>1. DOMAIN x9' = {"of", "note"} /\ x9'.note = 0
    BY <1>10 DEF Queue!Leave, Queue!ListFails, Queue!NoForm
  <2>2. x11' = Queue!Forsaken /\ UNCHANGED <<x2, x3, x12, x15, x16, x17>>
    BY <1>10 DEF Queue!Leave, Queue!ListFails, Queue!Api
  <2>3. Queue!NoteFor(x9.note, x9.of)'
    BY <1>4, <2>1, <2>2
  <2> QED
    BY <1>2, <1>5, <2>1, <2>2, <2>3, PageMoves
<1>11. ASSUME NEW s \in Queue!Statuses \cup {"note"}, Queue!send(s)
       PROVE  Queue!QueueInv'
  <2> DEFINE t == [n |-> x13, alert |-> x9.of, status |-> s, note |-> x9.note, answer |-> "awaited",
                   result |-> None, tab |-> Queue!Tab, list |-> Queue!List, same |-> TRUE]
  <2>1. /\ s \in {"closed", "note"} => x9.note # 0
        /\ x11' = x11 \cup {t} /\ x16' = x16 \cup {<<x9.of, s, x9.note>>}
        /\ UNCHANGED <<x2, x3, x9, x12, x15, x17>>
    BY <1>11 DEF Queue!send, Queue!Api
  <2>2. /\ {"alert", "status", "note", "answer", "result"} \subseteq DOMAIN t
        /\ t.alert = x9.of /\ t.status = s /\ t.note = x9.note
    OBVIOUS
  <2>3. Queue!NoteFor(x9.note, x9.of)'
    BY <1>1, <1>3, <2>1
  <2> HIDE DEF t
  <2>4. ASSUME NEW u, u = t PROVE Queue!CarriesItsOwn(u)'
    <3>1. /\ {"alert", "status", "note", "answer", "result"} \subseteq DOMAIN u
          /\ u.alert = x9.of /\ u.status = s /\ u.note = x9.note
      BY <2>2, <2>4
    <3>2. Queue!NoteFor(u.note, u.alert)'
      BY <1>1, <1>3, <2>1, <3>1
    <3> QED
      BY <2>1, <3>1, <3>2 DEF Queue!CarriesItsOwn
  <2>5. HistoriesGrow
    BY <1>2, <2>1
  <2>6. \A u \in x11' : u \in x11 \/ Queue!CarriesItsOwn(u)'
    BY <2>1, <2>4
  <2> QED
    BY <1>1, <2>1, <2>3, <2>5, <2>6, PageMoves
<1>12. ASSUME NEW s \in Queue!Statuses \cup {"note"}, Queue!Unsent(s)
       PROVE  Queue!QueueInv'
  BY <1>8, <1>12 DEF Queue!Unsent, Queue!Api
<1>13. ASSUME NEW s \in x11, Queue!Patch(s)
       PROVE  Queue!QueueInv'
  <2>1. Queue!CarriesItsOwn(s)
    BY <1>1
  <2>2. /\ x2' = IF s.status = "note" THEN x2 ELSE [x2 EXCEPT ![s.alert] = s.status]
        /\ x3' = IF s.note = 0 THEN x3 ELSE [x3 EXCEPT ![s.alert] = @ \cup {s.note}]
        /\ x11' = (x11 \ {s}) \cup {[s EXCEPT !.answer = "ok", !.result = x2'[s.alert]]}
        /\ UNCHANGED <<x9, x12, x15, x16, x17>>
    BY <1>13 DEF Queue!Patch
  <2>3. HistoriesGrow
    BY <1>2, <2>2
  <2>4. s.note \in 0..x12 /\ (s.note # 0 => s.note \in Queue!Note)
    BY <1>1, <2>1 DEF Queue!CarriesItsOwn, Queue!NoteFor, Queue!Note
  <2>5. x2' \in [Queue!Range(<<a1, a2, a3>>) -> Queue!Statuses]
    BY <1>1, <2>1, <2>2 DEF Queue!CarriesItsOwn
  <2>6. x3' \in [Queue!Range(<<a1, a2, a3>>) -> SUBSET Queue!Note]
    BY <1>1, <2>2, <2>4
  <2>7. ASSUME NEW u \in x11' PROVE Queue!CarriesItsOwn(u)'
    <3>1. CASE u \in x11
      BY <1>1, <2>3, <3>1, RequestsStayOwn
    <3>2. CASE u = [s EXCEPT !.answer = "ok", !.result = x2'[s.alert]]
      <4>1. DOMAIN u = DOMAIN s /\ u.alert = s.alert /\ u.status = s.status /\ u.note = s.note
        BY <2>1, <3>2 DEF Queue!CarriesItsOwn
      <4>2. Queue!CarriesItsOwn(u)
        BY <2>1, <4>1 DEF Queue!CarriesItsOwn
      <4> QED
        BY <2>3, <4>2, RequestsStayOwn
    <3> QED
      BY <2>2, <3>1, <3>2
  <2>8. ASSUME NEW a \in Queue!Range(<<a1, a2, a3>>) PROVE Queue!Kept(a)'
    <3>1. Queue!Kept(a)
      BY <1>1
    <3>2. CASE a # s.alert
      <4>1. x2'[a] = x2[a] /\ x3'[a] = x3[a]
        BY <1>1, <2>2, <3>2
      <4> QED
        BY <2>3, <3>1, <4>1, AlertsStayKept
    <3>3. CASE a = s.alert
      <4>1. x3'[a] = (IF s.note = 0 THEN x3[a] ELSE x3[a] \cup {s.note})
        BY <1>1, <2>2, <3>3
      <4>2. s.note # 0 => s.note \in 1..x12 /\ x15[s.note] = a
        BY <1>1, <2>1, <3>3 DEF Queue!CarriesItsOwn, Queue!NoteFor
      <4>3. \A n \in x3'[a] : n \in 1..x12' /\ x15'[n] = a
        BY <2>2, <3>1, <4>1, <4>2 DEF Queue!Kept
      <4>4. CASE s.status = "note"
        <5>1. x2'[a] = x2[a]
          BY <2>2, <4>4
        <5> QED
          BY <2>3, <3>1, <4>3, <5>1, ReasonsStay DEF Queue!Kept
      <4>5. CASE s.status # "note"
        <5>1. x2'[a] = s.status
          BY <1>1, <2>2, <3>3, <4>5
        <5>2. /\ s.note \in 0..x12' /\ Queue!NoteFor(s.note, a)' /\ <<a, x2'[a], s.note>> \in x16'
              /\ x2'[a] = "closed" => s.note # 0
          BY <1>3, <2>1, <2>2, <2>4, <3>3, <5>1 DEF Queue!CarriesItsOwn
        <5> QED
          BY <4>3, <5>2 DEF Queue!Kept
      <4> QED
        BY <4>4, <4>5
    <3> QED
      BY <3>2, <3>3
  <2>9. Queue!NoteFor(x9.note, x9.of)' /\ DOMAIN x9' = {"of", "note"}
    BY <1>1, <1>3, <2>2
  <2>10. x12' \in 0..MaxNotes /\ DOMAIN x15' = Queue!Note
    BY <2>3 DEF HistoriesGrow
  <2> QED
    BY <2>5, <2>6, <2>7, <2>8, <2>9, <2>10 DEF Queue!QueueInv
<1>14. ASSUME NEW s \in x11, Queue!SendFails(s)
       PROVE  Queue!QueueInv'
  BY <1>8, <1>14 DEF Queue!SendFails, Queue!Api
<1>15. ASSUME NEW s \in x11, Queue!Updated(s)
       PROVE  Queue!QueueInv'
  <2>1. /\ x11' = x11 \ {s} /\ UNCHANGED <<x2, x3, x12, x15, x16, x17>>
        /\ x9' = IF s.same THEN [x9 EXCEPT !.note = 0] ELSE x9
    BY <1>15 DEF Queue!Updated, Queue!Api
  <2>2. DOMAIN x9' = {"of", "note"} /\ x9'.of = x9.of /\ x9'.note \in {0, x9.note}
    BY <1>1, <2>1
  <2>3. Queue!NoteFor(x9.note, x9.of)'
    BY <1>1, <1>3, <1>4, <2>1, <2>2
  <2> QED
    BY <1>2, <2>1, <2>2, <2>3, PageMoves
<1>16. ASSUME NEW a \in Queue!Range(<<a1, a2, a3>>), Queue!Pick(a) \/ Queue!Return(a)
       PROVE  Queue!QueueInv'
  BY <1>8, <1>16 DEF Queue!Pick, Queue!Return, Queue!Api
<1>17. ASSUME NEW a \in Queue!Range(<<a1, a2, a3>>), NEW s \in Queue!Statuses, Queue!Colleague(a, s)
       PROVE  Queue!QueueInv'
  <2>1. /\ x2' = [x2 EXCEPT ![a] = s] /\ x17' = x17 \cup {<<a, s>>}
        /\ UNCHANGED <<x3, x9, x11, x12, x15, x16>>
    BY <1>17 DEF Queue!Colleague
  <2>2. HistoriesGrow
    BY <1>2, <2>1
  <2>3. x2' \in [Queue!Range(<<a1, a2, a3>>) -> Queue!Statuses]
    BY <1>1, <2>1
  <2>4. ASSUME NEW b \in Queue!Range(<<a1, a2, a3>>) PROVE Queue!Kept(b)'
    <3>1. Queue!Kept(b)
      BY <1>1
    <3>2. CASE b # a
      BY <1>1, <2>1, <2>2, <3>1, <3>2, AlertsStayKept
    <3>3. CASE b = a
      <4>1. <<b, x2'[b]>> \in x17'
        BY <1>1, <2>1, <3>3
      <4>2. \A n \in x3'[b] : n \in 1..x12' /\ x15'[n] = b
        BY <2>1, <3>1 DEF Queue!Kept
      <4> QED
        BY <4>1, <4>2 DEF Queue!Kept
    <3> QED
      BY <3>2, <3>3
  <2>5. \A t \in x11' : Queue!CarriesItsOwn(t)'
    BY <1>1, <2>1, <2>2, RequestsStayOwn
  <2> QED
    BY <1>1, <1>3, <2>1, <2>3, <2>4, <2>5 DEF Queue!QueueInv
<1>18. ASSUME NEW s \in Queue!Statuses, Queue!PickTab(s)
       PROVE  Queue!QueueInv'
  BY <1>8, <1>18 DEF Queue!PickTab, Queue!Api
<1>19. CASE UNCHANGED Queue!vars
  BY <1>8, <1>19 DEF Queue!vars, Queue!Api
<1> QED
  BY <1>6, <1>7, <1>9, <1>10, <1>11, <1>12, <1>13, <1>14, <1>15, <1>16, <1>17, <1>18, <1>19 DEF Queue!Next

(* Notes and decisions go to the alert they were made on, whatever opens,   *)
(* overtakes or fails on the way: DecisionsGoWhereMade, for every number of *)
(* notes, decisions and turns.                                              *)
THEOREM DecisionsArrive == DashboardSpec => []DecisionsGoWhereMade
<1>1. DashboardInit => QueueHolds
  BY QueueInit DEF DashboardInit, QueueHolds
<1>2. QueueHolds /\ [DashboardNext]_All => QueueHolds'
  <2> SUFFICES ASSUME QueueHolds, [DashboardNext]_All, part' = "alerts" PROVE Queue!QueueInv'
    BY DEF QueueHolds
  <2>1. part = "alerts"
    BY PartStays
  <2> QED
    BY <2>1, QueueSteps, QueueStep DEF QueueHolds
<1>3. QueueHolds => DecisionsGoWhereMade
  <2> SUFFICES ASSUME Queue!QueueInv PROVE Queue!NotesGoWhereWritten /\ Queue!DecidedAsChosen
    BY DEF QueueHolds, DecisionsGoWhereMade
  <2>1. Queue!NotesGoWhereWritten
    BY DEF Queue!QueueInv, Queue!Kept, Queue!NotesGoWhereWritten
  <2>2. \A n \in 0..x12 : n \in 0..MaxNotes
    BY BoundsAreNumbers DEF Queue!QueueInv
  <2>3. Queue!DecidedAsChosen
    BY <2>2 DEF Queue!QueueInv, Queue!Kept, Queue!NoteFor, Queue!DecidedAsChosen
  <2> QED
    BY <2>1, <2>3
<1> QED
  BY <1>1, <1>2, <1>3, PTL DEF DashboardSpec, All

-----------------------------------------------------------------------------
(* The page that checks reports (VerifyPage).                               *)

LEMMA VerifySteps ==
  ASSUME part = "verify", [DashboardNext]_All
  PROVE  [Verify!Next]_(Verify!vars)
<1>1. CASE DashboardNext
  BY <1>1 DEF DashboardNext
<1>2. CASE UNCHANGED All
  BY <1>2 DEF All, Verify!vars
<1> QED
  BY <1>1, <1>2

LEMMA VerifyInit == Verify!Init => Verify!VerifyInv
<1> SUFFICES ASSUME Verify!Init PROVE Verify!VerifyInv
  OBVIOUS
<1>1. Verify!NewestIsFollowed
  BY DEF Verify!Init, Verify!NewestIsFollowed
<1>2. Verify!LastIsAwaited
  BY DEF Verify!Init, Verify!Nothing, Verify!LastIsAwaited
<1> QED
  BY <1>1, <1>2 DEF Verify!Init, Verify!VerifyInv

(* A new request becomes the one the panel follows.                         *)
LEMMA RequestsAreFollowed ==
  ASSUME Verify!NewestIsFollowed, NEW hash, Verify!mutate(hash), UNCHANGED x1
  PROVE  Verify!NewestIsFollowed' /\ x8'.hash = hash
<1> DEFINE q == [n |-> x8.n + 1, hash |-> hash]
<1>1. x8' = [n |-> x8.n + 1, hash |-> hash, status |-> "pending"] /\ x9' = x9 \cup {q}
  BY DEF Verify!mutate
<1>2. q.n = x8.n + 1 /\ q.hash = hash
  OBVIOUS
<1> HIDE DEF q
<1>3. /\ DOMAIN x8' = {"n", "hash", "status"} /\ x8'.n = x8.n + 1 /\ x8'.hash = hash
      /\ x8'.status = "pending" /\ x8.n \in Nat
  BY <1>1 DEF Verify!NewestIsFollowed
<1>4. \A p \in x9' : p.n \in 0..x8'.n /\ (p.n = x8'.n => p.hash = x8'.hash)
  <2> TAKE p \in x9'
  <2>1. CASE p = q
    BY <1>2, <1>3, <2>1
  <2>2. CASE p \in x9
    <3>1. p.n \in 0..x8.n
      BY <2>2 DEF Verify!NewestIsFollowed
    <3> QED
      BY <1>3, <3>1
  <2> QED
    BY <1>1, <2>1, <2>2
<1>5. \E p \in x9' : p.n = x8'.n
  BY <1>1, <1>2, <1>3
<1>6. x8'.n \in Nat /\ x8'.status \notin {"genuine", "no match"}
  BY <1>3
<1> QED
  BY <1>3, <1>4, <1>5, <1>6 DEF Verify!NewestIsFollowed

LEMMA VerifyStep == Verify!VerifyInv /\ [Verify!Next]_(Verify!vars) => Verify!VerifyInv'
<1> SUFFICES ASSUME Verify!VerifyInv, [Verify!Next]_(Verify!vars) PROVE Verify!VerifyInv'
  OBVIOUS
<1>1. x4 \in {None, x8.hash} /\ Verify!NewestIsFollowed /\ Verify!LastIsAwaited
  BY DEF Verify!VerifyInv
<1>2. /\ x10 \in Nat /\ x11.check \in 0..x10 /\ DOMAIN x11 = {"check", "hash", "overtaken"}
      /\ x11.overtaken \in BOOLEAN /\ (x3 # None => x2 # {})
      /\ \A r \in x2 : r.check \in 1..x10
      /\ \A r \in x2 : x11.hash # None /\ r.check = x11.check => r.file = x11.hash
      /\ x11.hash # None /\ ~x11.overtaken => x8.hash = x11.hash \/ \E r \in x2 : r.check = x11.check
  BY <1>1 DEF Verify!LastIsAwaited
<1>3. UNCHANGED <<x1, x8, x9>> => Verify!NewestIsFollowed'
  BY <1>1 DEF Verify!NewestIsFollowed
<1>4. ASSUME NEW file \in Subjects, Verify!Pick(file)
      PROVE  Verify!VerifyInv'
  <2>1. UNCHANGED <<x1, x4, x8, x9>> /\ x10' = x10 + 1
    BY <1>4 DEF Verify!Pick, Verify!Counted
  <2>2. CASE UNCHANGED <<x2, x3, x11>>
    <3>1. Verify!LastIsAwaited'
      BY <1>2, <2>1, <2>2 DEF Verify!LastIsAwaited
    <3> QED
      BY <1>1, <1>3, <2>1, <3>1 DEF Verify!VerifyInv
  <2>3. CASE /\ x2' = x2 \cup {[check |-> x10', file |-> file]}
             /\ x11' = [check |-> x10', hash |-> file, overtaken |-> FALSE]
    <3> DEFINE t == [check |-> x10 + 1, file |-> file]
    <3>1. t.check = x10 + 1 /\ t.file = file /\ x2' = x2 \cup {t}
      BY <2>1, <2>3
    <3>2. /\ DOMAIN x11' = {"check", "hash", "overtaken"} /\ x11'.check = x10 + 1 /\ x11'.hash = file
          /\ x11'.overtaken = FALSE
      BY <2>1, <2>3
    <3> HIDE DEF t
    <3>3. \A r \in x2' : r.check \in 1..x10' /\ (r.check = x11'.check => r.file = x11'.hash)
      <4> TAKE r \in x2'
      <4>1. CASE r = t
        BY <1>2, <2>1, <3>1, <3>2, <4>1
      <4>2. CASE r \in x2
        <5>1. r.check \in 1..x10
          BY <1>2, <4>2
        <5> QED
          BY <1>2, <2>1, <3>2, <5>1
      <4> QED
        BY <3>1, <4>1, <4>2
    <3>4. \E r \in x2' : r.check = x11'.check
      BY <3>1, <3>2
    <3>5. x10' \in Nat /\ x11'.check \in 0..x10'
      BY <1>2, <2>1, <3>2
    <3>6. x2' # {} /\ x11'.overtaken \in BOOLEAN
      BY <3>2, <3>4, Zenon
    <3>7. Verify!LastIsAwaited'
      BY <3>2, <3>3, <3>4, <3>5, <3>6 DEF Verify!LastIsAwaited
    <3> QED
      BY <1>1, <1>3, <2>1, <3>7 DEF Verify!VerifyInv
  <2> QED
    BY <1>4, <2>2, <2>3 DEF Verify!Pick
<1>5. ASSUME NEW r \in x2, Verify!Hashed(r)
      PROVE  Verify!VerifyInv'
  <2>1. /\ x2' = x2 \ {r} /\ x3' = None /\ x4' = r.file /\ Verify!mutate(r.file)
        /\ x11' = [x11 EXCEPT !.overtaken = x11.check # r.check] /\ UNCHANGED <<x1, x10>>
    BY <1>5 DEF Verify!Hashed, Verify!check
  <2>2. Verify!NewestIsFollowed' /\ x8'.hash = r.file
    BY <1>1, <2>1, RequestsAreFollowed
  <2>3. /\ DOMAIN x11' = {"check", "hash", "overtaken"} /\ x11'.check = x11.check /\ x11'.hash = x11.hash
        /\ x11'.overtaken = (x11.check # r.check)
    BY <1>2, <2>1
  <2>4. x11'.hash # None /\ ~x11'.overtaken => x8'.hash = x11'.hash
    BY <1>2, <2>2, <2>3
  <2>5. Verify!LastIsAwaited'
    BY <1>2, <2>1, <2>3, <2>4 DEF Verify!LastIsAwaited
  <2> QED
    BY <2>1, <2>2, <2>5 DEF Verify!VerifyInv
<1>6. ASSUME NEW r \in x2, Verify!Unreadable(r)
      PROVE  Verify!VerifyInv'
  <2>1. /\ x2' = x2 \ {r} /\ x3' = None /\ UNCHANGED <<x1, x4, x8, x9, x10>>
        /\ x11' = IF x11.check = r.check THEN [x11 EXCEPT !.hash = None] ELSE x11
    BY <1>6 DEF Verify!Unreadable
  <2>2. /\ DOMAIN x11' = {"check", "hash", "overtaken"} /\ x11'.check = x11.check
        /\ x11'.overtaken = x11.overtaken
        /\ x11'.hash = IF x11.check = r.check THEN None ELSE x11.hash
    BY <1>2, <2>1
  <2>3. x11'.hash # None /\ ~x11'.overtaken => x8'.hash = x11'.hash \/ \E p \in x2' : p.check = x11'.check
    BY <1>2, <2>1, <2>2
  <2>4. Verify!LastIsAwaited'
    BY <1>2, <2>1, <2>2, <2>3 DEF Verify!LastIsAwaited
  <2> QED
    BY <1>1, <1>3, <2>1, <2>4 DEF Verify!VerifyInv
<1>7. ASSUME UNCHANGED <<x1, x2, x3, x4, x8, x9, x10, x11>>
      PROVE  Verify!VerifyInv'
  <2>1. Verify!LastIsAwaited'
    BY <1>1, <1>7 DEF Verify!LastIsAwaited
  <2> QED
    BY <1>1, <1>3, <1>7, <2>1 DEF Verify!VerifyInv
<1>8. ASSUME NEW input, Verify!Type(input)
      PROVE  Verify!VerifyInv'
  BY <1>7, <1>8 DEF Verify!Type
<1>9. CASE Verify!Submit
  <2> DEFINE of == Verify!normalizeHash(x7).of
  <2>1. CASE UNCHANGED <<x4, x8, x9, x10, x11>>
    BY <1>7, <1>9, <2>1 DEF Verify!Submit
  <2>2. CASE /\ x10' = x10 + 1 /\ x4' = None /\ Verify!mutate(of)
             /\ x11' = [check |-> x10', hash |-> of, overtaken |-> FALSE]
    <3>1. UNCHANGED <<x1, x2, x3>>
      BY <1>9 DEF Verify!Submit
    <3>2. Verify!NewestIsFollowed' /\ x8'.hash = of
      BY <1>1, <2>2, <3>1, RequestsAreFollowed
    <3>3. /\ DOMAIN x11' = {"check", "hash", "overtaken"} /\ x11'.check = x10 + 1 /\ x11'.hash = of
          /\ x11'.overtaken = FALSE
      BY <2>2
    <3>4. \A r \in x2' : r.check \in 1..x10' /\ r.check # x11'.check
      BY <1>2, <2>2, <3>1, <3>3
    <3>5. Verify!LastIsAwaited'
      BY <1>2, <2>2, <3>1, <3>2, <3>3, <3>4 DEF Verify!LastIsAwaited
    <3> QED
      BY <2>2, <3>2, <3>5 DEF Verify!VerifyInv
  <2> QED
    BY <1>9, <2>1, <2>2 DEF Verify!Submit, Verify!Counted, Verify!check, Verify!NamePasted
<1>10. CASE Verify!Retry
  <2>1. /\ x10' = x10 + 1 /\ Verify!mutate(x8.hash) /\ UNCHANGED <<x1, x2, x3, x4, x11>>
    BY <1>10 DEF Verify!Retry, Verify!Counted
  <2>2. Verify!NewestIsFollowed' /\ x8'.hash = x8.hash
    BY <1>1, <2>1, RequestsAreFollowed
  <2>3. Verify!LastIsAwaited'
    BY <1>2, <2>1, <2>2 DEF Verify!LastIsAwaited
  <2> QED
    BY <1>1, <2>1, <2>2, <2>3 DEF Verify!VerifyInv
<1>11. ASSUME NEW q \in x9, Verify!Answer(q)
       PROVE  Verify!VerifyInv'
  <2>1. PICK status \in {"error", IF q.hash \in x1 THEN "genuine" ELSE "no match"} :
          x8' = IF x8.n = q.n THEN [x8 EXCEPT !.status = status] ELSE x8
    BY <1>11 DEF Verify!Answer, Verify!Newest
  <2>2. x9' = x9 \ {q} /\ UNCHANGED <<x1, x2, x3, x4, x10, x11>>
    BY <1>11 DEF Verify!Answer
  <2>3. /\ DOMAIN x8 = {"n", "hash", "status"} /\ q.n = x8.n => q.hash = x8.hash
        /\ \A p \in x9 : p.n \in 0..x8.n /\ (p.n = x8.n => p.hash = x8.hash)
    BY <1>1 DEF Verify!NewestIsFollowed
  <2>4. /\ DOMAIN x8' = {"n", "hash", "status"} /\ x8'.n = x8.n /\ x8'.hash = x8.hash
        /\ x8'.status = IF x8.n = q.n THEN status ELSE x8.status
    BY <1>1, <2>1 DEF Verify!NewestIsFollowed
  <2>5. x8'.status = "pending" => \E p \in x9' : p.n = x8'.n
    BY <1>1, <2>1, <2>2, <2>4 DEF Verify!NewestIsFollowed
  <2>6. x8'.status \in {"genuine", "no match"} =>
          x8'.status = (IF x8'.hash \in x1' THEN "genuine" ELSE "no match")
    BY <1>1, <2>1, <2>2, <2>3, <2>4 DEF Verify!NewestIsFollowed
  <2>7. Verify!NewestIsFollowed'
    BY <1>1, <2>2, <2>3, <2>4, <2>5, <2>6 DEF Verify!NewestIsFollowed
  <2>8. Verify!LastIsAwaited'
    BY <1>2, <2>2, <2>4 DEF Verify!LastIsAwaited
  <2> QED
    BY <1>1, <2>2, <2>4, <2>7, <2>8 DEF Verify!VerifyInv
<1>12. CASE UNCHANGED Verify!vars
  BY <1>7, <1>12 DEF Verify!vars
<1> QED
  BY <1>4, <1>5, <1>6, <1>8, <1>9, <1>10, <1>11, <1>12 DEF Verify!Next

LEMMA VerifyShows == Verify!VerifyInv => Verify!VerdictIsOfWhatIsNamed /\ Verify!ShowsTheLastAsked
<1> SUFFICES ASSUME Verify!VerifyInv PROVE Verify!VerdictIsOfWhatIsNamed /\ Verify!ShowsTheLastAsked
  OBVIOUS
<1>1. Verify!VerdictIsOfWhatIsNamed
  BY DEF Verify!VerdictIsOfWhatIsNamed, Verify!VerifyInv, Verify!NewestIsFollowed, Verify!Panel, Verify!Named
<1>2. Verify!ShowsTheLastAsked
  BY DEF Verify!ShowsTheLastAsked, Verify!VerifyInv, Verify!NewestIsFollowed, Verify!LastIsAwaited, Verify!Panel
<1> QED
  BY <1>1, <1>2

-----------------------------------------------------------------------------
(* The page that screens an address (ScreenPage).                           *)

LEMMA ScreenSteps ==
  ASSUME part = "screen", [DashboardNext]_All
  PROVE  [Screen!Next]_(Screen!vars)
<1>1. CASE DashboardNext
  BY <1>1 DEF DashboardNext
<1>2. CASE UNCHANGED All
  BY <1>2 DEF All, Screen!vars
<1> QED
  BY <1>1, <1>2

LEMMA ScreenInit == Screen!Init => Screen!ScreenInv
<1> SUFFICES ASSUME Screen!Init PROVE Screen!ScreenInv
  OBVIOUS
<1>1. x1 \in Seq(Subjects)
  <2>1. PICK s \in Subjects \ Malformed : x1 = <<s>>
    BY DEF Screen!Init
  <2> QED
    BY <2>1
<1>2. Screen!NumbersName
  BY <1>1 DEF Screen!Init, Screen!NumbersName, Screen!Nowhere, Screen!Stored
<1>3. Screen!ScreenSound
  BY DEF Screen!Init, Screen!ScreenSound, Screen!NoRun
<1>4. Screen!FormSound
  BY DEF Screen!Init, Screen!FormSound
<1> QED
  BY <1>2, <1>3, <1>4 DEF Screen!Init, Screen!ScreenInv

(* Screenings are added behind those there are.                             *)
ScreeningsStay ==
  /\ x1' \in Seq(Subjects) /\ DOMAIN x1 \subseteq DOMAIN x1'
  /\ \A n \in DOMAIN x1 : x1'[n] = x1[n]

LEMMA ScreenedAppended ==
  ASSUME x1 \in Seq(Subjects), NEW s \in Subjects, x1' = Append(x1, s)
  PROVE  ScreeningsStay /\ Len(x1') \in DOMAIN x1' /\ x1'[Len(x1')] = s
BY DEF ScreeningsStay

(* What the API or the cache come to know leaves the page right.            *)
LEMMA ScreenLearns ==
  ASSUME Screen!ScreenInv, ScreeningsStay, x10 \subseteq x10', x10' \subseteq DOMAIN x1',
         UNCHANGED <<x2, x3, x4, x6, x7, x8, x12, x14, x15, x16>>,
         \A r \in x9' : r \in x9 \/ Screen!RunSound(r)'
  PROVE  Screen!ScreenInv'
<1>1. Screen!NumbersName'
  BY DEF Screen!ScreenInv, Screen!NumbersName, Screen!Stored, ScreeningsStay
<1>2. ASSUME NEW r \in x9, r \in x9' PROVE Screen!RunSound(r)'
  <2>1. Screen!RunSound(r)
    BY DEF Screen!ScreenInv
  <2> QED
    BY <2>1 DEF Screen!RunSound, ScreeningsStay
<1>3. Screen!ScreenSound'
  BY DEF Screen!ScreenInv, Screen!ScreenSound, ScreeningsStay, Screen!NoRun
<1>4. Screen!FormSound'
  BY DEF Screen!ScreenInv, Screen!NumbersName, Screen!Stored, Screen!FormSound, ScreeningsStay
<1> QED
  BY <1>1, <1>2, <1>3, <1>4 DEF Screen!ScreenInv

(* A new run is the one the page follows.                                   *)
LEMMA ScreenRuns ==
  ASSUME Screen!ScreenInv, x2, NEW s \in Subjects, Screen!run(s),
         UNCHANGED <<x1, x2, x3, x6, x10, x15, x16>>, x4' \in Subjects \cup {None},
         UNCHANGED <<x4, x14>> \/ x14' = TRUE
  PROVE  Screen!ScreenInv'
<1> DEFINE t == [run |-> x12 + 1, subject |-> s, answer |-> "awaited", id |-> 0]
<1>1. /\ x12' = x12 + 1 /\ x7' = s /\ x8' = [run |-> x12', status |-> "pending", id |-> 0]
      /\ x9' = x9 \cup {t}
  BY DEF Screen!run
<1>2. /\ DOMAIN t = {"run", "subject", "answer", "id"} /\ t.run = x12 + 1 /\ t.subject = s
      /\ t.answer = "awaited"
  OBVIOUS
<1> HIDE DEF t
<1>3. x12 \in Nat /\ DOMAIN x8' = {"run", "status", "id"} /\ x8'.run = x12 + 1 /\ x8'.status = "pending"
  BY <1>1 DEF Screen!ScreenInv, Screen!ScreenSound
<1>4. Screen!NumbersName'
  BY <1>1 DEF Screen!ScreenInv, Screen!NumbersName, Screen!Stored
<1>5. ASSUME NEW r \in x9' PROVE Screen!RunSound(r)'
  <2>1. CASE r \in x9
    <3>1. Screen!RunSound(r)
      BY <2>1 DEF Screen!ScreenInv
    <3> QED
      BY <1>1, <1>3, <3>1 DEF Screen!RunSound
  <2>2. CASE r = t
    <3>1. r.run \in 1..x12' /\ r.answer # "success"
      BY <1>1, <1>2, <1>3, <2>2
    <3>2. DOMAIN r = {"run", "subject", "answer", "id"} /\ r.subject = s
      BY <1>2, <2>2
    <3> QED
      BY <1>1, <3>1, <3>2 DEF Screen!RunSound
  <2> QED
    BY <1>1, <2>1, <2>2
<1>6. {x2', x16', x14', x15'} \subseteq BOOLEAN
  BY DEF Screen!ScreenInv, Screen!ScreenSound
<1>7. Screen!ScreenSound'
  BY <1>1, <1>3, <1>6 DEF Screen!ScreenSound
<1>8. Screen!FormSound'
  BY DEF Screen!ScreenInv, Screen!FormSound
<1> QED
  BY <1>4, <1>5, <1>7, <1>8 DEF Screen!ScreenInv

(* Going elsewhere, a page newly made starts with nothing.                  *)
LEMMA ScreenArrives ==
  ASSUME Screen!ScreenInv, NEW to, Screen!Arrive(to), UNCHANGED x10,
         DOMAIN to = {"address", "id"}, to.id \in Screen!Stored, to.address \in Subjects \cup {None}
  PROVE  Screen!ScreenInv'
<1>1. UNCHANGED <<x1, x9, x10, x12>> /\ x3' = to /\ x2' = TRUE /\ x16' = TRUE
  BY DEF Screen!Arrive
<1>2. CASE x2
  <2>1. UNCHANGED <<x4, x6, x7, x8, x14, x15>>
    BY <1>2 DEF Screen!Arrive
  <2>2. Screen!NumbersName'
    BY <1>1, <2>1 DEF Screen!ScreenInv, Screen!NumbersName, Screen!Stored
  <2>3. \A r \in x9' : Screen!RunSound(r)'
    BY <1>1, <1>2, <2>1 DEF Screen!ScreenInv, Screen!RunSound
  <2>4. Screen!ScreenSound'
    BY <1>1, <2>1 DEF Screen!ScreenInv, Screen!ScreenSound
  <2>5. Screen!FormSound'
    BY <1>1, <1>2, <2>1 DEF Screen!ScreenInv, Screen!FormSound
  <2> QED
    BY <2>2, <2>3, <2>4, <2>5 DEF Screen!ScreenInv
<1>3. CASE ~x2
  <2>1. /\ x4' = to.address /\ x6' = 0 /\ x7' = None /\ x8' = Screen!NoRun /\ x14' = FALSE /\ x15' = FALSE
    BY <1>3 DEF Screen!Arrive
  <2>2. DOMAIN x8' = {"run", "status", "id"} /\ x8'.run = 0 /\ x8'.status = "idle"
    BY <2>1 DEF Screen!NoRun
  <2>3. Screen!NumbersName'
    BY <1>1, <2>1 DEF Screen!ScreenInv, Screen!NumbersName, Screen!Stored
  <2>4. ASSUME NEW r \in x9' PROVE Screen!RunSound(r)'
    <3>1. Screen!RunSound(r)
      BY <1>1 DEF Screen!ScreenInv
    <3>2. r.run # x8'.run
      BY <2>2, <3>1 DEF Screen!ScreenInv, Screen!ScreenSound, Screen!RunSound
    <3> QED
      BY <1>1, <3>1, <3>2 DEF Screen!RunSound
  <2>5. {x2', x16', x14', x15'} \subseteq BOOLEAN
    BY <1>1, <2>1
  <2>6. Screen!ScreenSound'
    BY <1>1, <2>2, <2>5 DEF Screen!ScreenInv, Screen!ScreenSound
  <2>7. Screen!FormSound'
    BY <2>1 DEF Screen!FormSound
  <2> QED
    BY <2>3, <2>4, <2>6, <2>7 DEF Screen!ScreenInv
<1> QED
  BY <1>2, <1>3

LEMMA ScreenStep == Screen!ScreenInv /\ [Screen!Next]_(Screen!vars) => Screen!ScreenInv'
<1> SUFFICES ASSUME Screen!ScreenInv, [Screen!Next]_(Screen!vars) PROVE Screen!ScreenInv'
  OBVIOUS
<1>1. /\ x1 \in Seq(Subjects) /\ x10 \subseteq DOMAIN x1 /\ x6 \in {0} \cup DOMAIN x1
      /\ DOMAIN x3 = {"address", "id"} /\ x3.id \in {0} \cup DOMAIN x1
      /\ x3.address \in Subjects \cup {None} /\ x4 \in Subjects \cup {None} /\ x7 \in Subjects \cup {None}
  BY DEF Screen!ScreenInv, Screen!NumbersName, Screen!Stored
<1>2. \A r \in x9 : Screen!RunSound(r)
  BY DEF Screen!ScreenInv
<1>3. /\ DOMAIN x8 = {"run", "status", "id"} /\ x12 \in Nat /\ {x2, x16, x14, x15} \subseteq BOOLEAN
      /\ ~x2 => x8 = Screen!NoRun
      /\ x8.status = "success" =>
           /\ x8.id \in DOMAIN x1 /\ x1[x8.id] = x7
           /\ ~x16 => x3.id = x8.id /\ x8.id \in x10
  BY DEF Screen!ScreenInv, Screen!ScreenSound
<1>4. x2 /\ x6 # 0 => x4 = x1[x6] \/ x14 \/ x15
  BY DEF Screen!ScreenInv, Screen!FormSound
<1>5. Screen!Past \in {0} \cup x10
  BY DEF Screen!Past
<1>6. x1' = x1 => ScreeningsStay
  BY <1>1 DEF ScreeningsStay
<1>7. ASSUME NEW r \in x9, Screen!Serve(r)
      PROVE  Screen!ScreenInv'
  <2>1. UNCHANGED <<x2, x3, x4, x6, x7, x8, x10, x12, x14, x15, x16>>
    BY <1>7 DEF Screen!Serve
  <2>2. Screen!RunSound(r)
    BY <1>2
  <2>3. CASE /\ x1' = Append(x1, r.subject)
             /\ \/ x9' = (x9 \ {r}) \cup {[r EXCEPT !.answer = "success", !.id = Len(x1')]}
                \/ x9' = (x9 \ {r}) \cup {[r EXCEPT !.answer = "card"]}
    <3>1. ScreeningsStay /\ Len(x1') \in DOMAIN x1' /\ x1'[Len(x1')] = r.subject
      BY <1>1, <2>2, <2>3, ScreenedAppended DEF Screen!RunSound
    <3>2. ASSUME NEW u \in x9', u \notin x9 PROVE Screen!RunSound(u)'
      <4>1. /\ DOMAIN u = DOMAIN r /\ u.run = r.run /\ u.subject = r.subject
            /\ u.answer = "success" => u.id = Len(x1')
        <5>1. DOMAIN r = {"run", "subject", "answer", "id"}
          BY <2>2 DEF Screen!RunSound
        <5>2. CASE u = [r EXCEPT !.answer = "success", !.id = Len(x1')]
          BY <5>1, <5>2
        <5>3. CASE u = [r EXCEPT !.answer = "card"]
          BY <5>1, <5>3
        <5> QED
          BY <2>3, <3>2, <5>2, <5>3
      <4> QED
        BY <2>1, <2>2, <3>1, <4>1 DEF Screen!RunSound
    <3>3. x10' \subseteq DOMAIN x1'
      BY <1>1, <2>1, <3>1 DEF ScreeningsStay
    <3> QED
      BY <2>1, <3>1, <3>2, <3>3, ScreenLearns
  <2>4. CASE /\ \E a \in Screen!classifyScreenError : x9' = (x9 \ {r}) \cup {[r EXCEPT !.answer = a]}
             /\ UNCHANGED x1
    <3>1. ASSUME NEW u \in x9', u \notin x9 PROVE Screen!RunSound(u)'
      <4>1. /\ DOMAIN u = DOMAIN r /\ u.run = r.run /\ u.subject = r.subject
            /\ u.answer # "success"
        BY <2>2, <2>4, <3>1 DEF Screen!RunSound, Screen!classifyScreenError
      <4> QED
        BY <2>1, <2>2, <4>1 DEF Screen!RunSound
    <3> QED
      BY <1>1, <1>6, <2>1, <2>4, <3>1, ScreenLearns
  <2> QED
    BY <1>7, <2>3, <2>4 DEF Screen!Serve
<1>8. ASSUME NEW r \in x9, Screen!Answered(r)
      PROVE  Screen!ScreenInv'
  <2>1. /\ x9' = x9 \ {r} /\ x10' = (IF r.answer = "success" THEN x10 \cup {r.id} ELSE x10)
        /\ UNCHANGED <<x1, x2, x4, x6, x7, x12, x14, x15>>
    BY <1>8 DEF Screen!Answered
  <2>2. Screen!RunSound(r) /\ (r.answer = "success" => r.id \in DOMAIN x1 /\ x1[r.id] = r.subject)
    BY <1>2 DEF Screen!RunSound
  <2>3. x10 \subseteq x10' /\ x10' \subseteq DOMAIN x1'
    BY <1>1, <2>1, <2>2
  <2>4. CASE ~Screen!LatestRun(r)
    <3>1. UNCHANGED <<x3, x8, x16>>
      BY <1>8, <2>4 DEF Screen!Answered
    <3> QED
      BY <1>6, <2>1, <2>3, <3>1, ScreenLearns
  <2>5. CASE Screen!LatestRun(r)
    <3>1. /\ x2 /\ x8.run = r.run /\ x8' = [run |-> r.run, status |-> r.answer, id |-> r.id]
          /\ x3' = (IF r.answer = "success" THEN [address |-> None, id |-> r.id] ELSE x3)
          /\ x16' = (IF x8' # x8 THEN FALSE ELSE x16)
      BY <1>8, <2>5 DEF Screen!Answered, Screen!LatestRun
    <3>2. /\ DOMAIN x8' = {"run", "status", "id"} /\ x8'.run = x8.run /\ x8'.status = r.answer /\ x8'.id = r.id
      BY <3>1
    <3>3. r.subject = x7
      BY <2>2, <3>1 DEF Screen!RunSound
    <3>4. /\ DOMAIN x3' = {"address", "id"} /\ x3'.id \in {0} \cup DOMAIN x1 /\ x3'.address \in Subjects \cup {None}
          /\ r.answer = "success" => x3'.id = r.id
      BY <1>1, <2>2, <3>1
    <3>5. Screen!NumbersName'
      BY <1>1, <2>1, <2>3, <3>4 DEF Screen!NumbersName, Screen!Stored
    <3>6. ASSUME NEW p \in x9' PROVE Screen!RunSound(p)'
      BY <1>2, <2>1, <3>2 DEF Screen!RunSound
    <3>7. {x2', x16', x14', x15'} \subseteq BOOLEAN
      BY <1>3, <2>1, <3>1
    <3>8. x8'.status = "success" => /\ x8'.id \in DOMAIN x1' /\ x1'[x8'.id] = x7'
                                    /\ x3'.id = x8'.id /\ x8'.id \in x10'
      BY <2>1, <2>2, <3>2, <3>3, <3>4
    <3>9. Screen!ScreenSound'
      BY <1>3, <2>1, <3>1, <3>2, <3>7, <3>8 DEF Screen!ScreenSound
    <3>10. Screen!FormSound'
      BY <1>4, <2>1 DEF Screen!FormSound
    <3> QED
      BY <3>5, <3>6, <3>9, <3>10 DEF Screen!ScreenInv
  <2> QED
    BY <2>4, <2>5
<1>9. ASSUME UNCHANGED <<x1, x2, x3, x4, x6, x7, x8, x9, x12, x14, x15, x16>>, x10 \subseteq x10', x10' \subseteq DOMAIN x1
      PROVE  Screen!ScreenInv'
  BY <1>6, <1>9, ScreenLearns
<1>10. CASE Screen!AutoRun
  <2>1. x2 /\ UNCHANGED <<x1, x2, x3, x6, x10, x15, x16>>
    BY <1>10 DEF Screen!AutoRun, Screen!AutoRunDue
  <2>2. CASE x3.address = None
    BY <1>1, <1>9, <1>10, <2>1, <2>2 DEF Screen!AutoRun
  <2>3. CASE x3.address # None
    <3>1. x4' = x3.address /\ Screen!run(x3.address) /\ x14' = TRUE
      BY <1>10, <2>3 DEF Screen!AutoRun
    <3>2. x3.address \in Subjects
      BY <1>1, <2>3
    <3> QED
      BY <2>1, <3>1, <3>2, ScreenRuns
  <2> QED
    BY <2>2, <2>3
<1>11. CASE Screen!Fill
  <2> DEFINE fills == Screen!Past # 0 /\ ~Screen!Pending
  <2>1. /\ x2 /\ x6' = Screen!Past /\ UNCHANGED <<x1, x2, x3, x7, x8, x9, x10, x12, x16>>
        /\ x4' = (IF fills THEN x1[Screen!Past] ELSE x4)
        /\ x14' = (x14 /\ ~fills)
        /\ x15' = (IF fills THEN FALSE ELSE (x15 \/ Screen!Past # 0))
    BY <1>11 DEF Screen!Fill, Screen!FillDue
  <2>2. {x14', x15'} \subseteq BOOLEAN
    BY <1>3, <2>1
  <2>3. Screen!Past # 0 => Screen!Past \in DOMAIN x1
    BY <1>1, <1>5
  <2>4. x4' \in Subjects \cup {None}
    BY <1>1, <2>1, <2>3
  <2>5. Screen!NumbersName'
    BY <1>1, <2>1, <2>3, <2>4 DEF Screen!NumbersName, Screen!Stored
  <2>6. \A r \in x9' : Screen!RunSound(r)'
    BY <1>2, <2>1 DEF Screen!RunSound
  <2>7. Screen!ScreenSound'
    BY <1>3, <2>1, <2>2 DEF Screen!ScreenSound
  <2>8. Screen!FormSound'
    BY <2>1 DEF Screen!FormSound
  <2> QED
    BY <2>5, <2>6, <2>7, <2>8 DEF Screen!ScreenInv
<1>12. CASE Screen!LoadPast
  <2>1. /\ x10' \in {x10, x10 \cup {x3.id}} /\ x3.id # 0
        /\ UNCHANGED <<x1, x2, x3, x4, x6, x7, x8, x9, x12, x14, x15, x16>>
    BY <1>12 DEF Screen!LoadPast
  <2>2. x10 \subseteq x10' /\ x10' \subseteq DOMAIN x1
    BY <1>1, <2>1
  <2> QED
    BY <1>9, <2>1, <2>2
<1>13. ASSUME NEW s \in Subjects, Screen!ScreenSearch(s)
       PROVE  Screen!ScreenInv'
  <2> DEFINE to == [address |-> s, id |-> 0]
  <2>1. DOMAIN to = {"address", "id"} /\ to.id \in Screen!Stored /\ to.address \in Subjects \cup {None}
    BY DEF Screen!Stored
  <2>2. Screen!Arrive(to) /\ UNCHANGED x10
    BY <1>13 DEF Screen!ScreenSearch, Screen!Arrive
  <2> QED
    BY <2>1, <2>2, ScreenArrives
<1>14. ASSUME NEW s \in Subjects, Screen!Type(s)
       PROVE  Screen!ScreenInv'
  <2>1. /\ x4' = s /\ x14' = TRUE /\ UNCHANGED <<x1, x2, x3, x6, x7, x9, x10, x12, x15, x16>>
        /\ x8' \in {Screen!NoRun, x8}
    BY <1>14 DEF Screen!Type
  <2>2. Screen!NumbersName'
    BY <1>1, <2>1 DEF Screen!NumbersName, Screen!Stored
  <2>3. DOMAIN Screen!NoRun = {"run", "status", "id"} /\ Screen!NoRun.run = 0 /\ Screen!NoRun.status = "idle"
    BY DEF Screen!NoRun
  <2>4. ASSUME NEW r \in x9' PROVE Screen!RunSound(r)'
    <3>1. Screen!RunSound(r)
      BY <1>2, <2>1
    <3>2. x8' = Screen!NoRun => x8'.run # r.run
      BY <2>3, <3>1, <1>3 DEF Screen!RunSound
    <3> QED
      BY <2>1, <3>1, <3>2 DEF Screen!RunSound
  <2>5. {x2', x16', x14', x15'} \subseteq BOOLEAN
    BY <1>3, <2>1
  <2>6. Screen!ScreenSound'
    BY <1>3, <2>1, <2>3, <2>5 DEF Screen!ScreenSound
  <2>7. Screen!FormSound'
    BY <2>1 DEF Screen!FormSound
  <2> QED
    BY <2>2, <2>4, <2>6, <2>7 DEF Screen!ScreenInv
<1>15. ASSUME NEW n \in DOMAIN x1, Screen!Open(n)
       PROVE  Screen!ScreenInv'
  <2> DEFINE to == [address |-> None, id |-> n]
  <2>1. DOMAIN to = {"address", "id"} /\ to.id \in Screen!Stored /\ to.address \in Subjects \cup {None}
    BY DEF Screen!Stored
  <2>2. Screen!Arrive(to) /\ UNCHANGED x10
    BY <1>15 DEF Screen!Open, Screen!Arrive
  <2> QED
    BY <2>1, <2>2, ScreenArrives
<1>16. CASE Screen!Menu
  <2>1. /\ DOMAIN Screen!Nowhere = {"address", "id"} /\ Screen!Nowhere.id \in Screen!Stored
        /\ Screen!Nowhere.address \in Subjects \cup {None}
    BY DEF Screen!Stored, Screen!Nowhere
  <2>2. Screen!Arrive(Screen!Nowhere) /\ UNCHANGED x10
    BY <1>16 DEF Screen!Menu, Screen!Arrive
  <2> QED
    BY <2>1, <2>2, ScreenArrives
<1>17. CASE Screen!Leave
  <2>1. /\ x2' = FALSE /\ x3' = Screen!Nowhere /\ x8' = Screen!NoRun
        /\ UNCHANGED <<x1, x4, x6, x7, x9, x10, x12, x14, x15, x16>>
    BY <1>17 DEF Screen!Leave
  <2>2. Screen!NumbersName'
    BY <1>1, <2>1 DEF Screen!NumbersName, Screen!Stored, Screen!Nowhere
  <2>3. \A r \in x9' : Screen!RunSound(r)'
    BY <1>2, <2>1 DEF Screen!RunSound
  <2>4. {x2', x16', x14', x15'} \subseteq BOOLEAN
    BY <1>3, <2>1
  <2>5. Screen!ScreenSound'
    BY <1>3, <2>1, <2>4 DEF Screen!ScreenSound, Screen!NoRun
  <2>6. Screen!FormSound'
    BY <2>1 DEF Screen!FormSound
  <2> QED
    BY <2>2, <2>3, <2>5, <2>6 DEF Screen!ScreenInv
<1>18. CASE Screen!Submit
  <2>1. x4 # None
    BY <1>18 DEF Screen!Submit, Screen!checkSubject
  <2>2. x4 \in Subjects
    BY <1>1, <2>1
  <2>3. x2 /\ Screen!run(x4) /\ UNCHANGED <<x1, x2, x3, x4, x6, x10, x14, x15, x16>>
    BY <1>18 DEF Screen!Submit, Screen!Unmoved
  <2> QED
    BY <1>1, <2>2, <2>3, ScreenRuns
<1>19. CASE Screen!TryAgain
  <2>1. x2 /\ x7 # None /\ Screen!run(x7) /\ UNCHANGED <<x1, x2, x3, x4, x6, x10, x14, x15, x16>>
    BY <1>19 DEF Screen!TryAgain, Screen!Unmoved
  <2> QED
    BY <1>1, <2>1, ScreenRuns
<1>20. ASSUME NEW s \in Subjects \ Malformed, Screen!Pick(s)
       PROVE  Screen!ScreenInv'
  <2>1. x2 /\ x4' = s /\ x14' = TRUE /\ Screen!run(s) /\ UNCHANGED <<x1, x2, x3, x6, x10, x15, x16>>
    BY <1>20 DEF Screen!Pick, Screen!Unmoved
  <2> QED
    BY <2>1, ScreenRuns
<1>21. CASE UNCHANGED Screen!vars
  BY <1>1, <1>9, <1>21 DEF Screen!vars
<1> QED
  BY <1>7, <1>8, <1>10, <1>11, <1>12, <1>13, <1>14, <1>15, <1>16, <1>17, <1>18, <1>19, <1>20, <1>21
  DEF Screen!Next

LEMMA ScreenShows == Screen!ScreenInv => Screen!LatestRunShown /\ Screen!FormFitsResult
<1> SUFFICES ASSUME Screen!ScreenInv PROVE Screen!LatestRunShown /\ Screen!FormFitsResult
  OBVIOUS
<1>1. ASSUME x8.status = "success", ~x16 PROVE Screen!Result = x8.id /\ x1[x8.id] = x7
  <2>1. /\ x8.id \in DOMAIN x1 /\ x1[x8.id] = x7 /\ x3.id = x8.id /\ x8.id \in x10 /\ x1 \in Seq(Subjects)
        /\ x2
    BY <1>1 DEF Screen!ScreenInv, Screen!ScreenSound, Screen!NumbersName, Screen!NoRun
  <2>2. x3.id # 0
    BY <2>1
  <2> QED
    BY <1>1, <2>1, <2>2 DEF Screen!Result, Screen!Past, Screen!Pending
<1>2. ASSUME Screen!Settled, x3.id # 0, Screen!Result = x3.id PROVE x4 = x1[x3.id] \/ x14 \/ x15
  <2>1. x2 /\ Screen!Past = x3.id
    BY <1>2 DEF Screen!Result
  <2>2. x6 = x3.id
    BY <1>2, <2>1 DEF Screen!Settled, Screen!FillDue
  <2> QED
    BY <1>2, <2>1, <2>2 DEF Screen!ScreenInv, Screen!FormSound
<1> QED
  BY <1>1, <1>2 DEF Screen!LatestRunShown, Screen!FormFitsResult

(* Whatever overtakes, is picked, left or opened meanwhile, a verdict is of *)
(* the hash and the file it stands beside, and a result of the subject last *)
(* asked for: ScreenShowsWhatWasAsked, for every set of subjects and files  *)
(* and every number of runs.                                                *)
ScreensHold == (part = "screen" => Screen!ScreenInv) /\ (part = "verify" => Verify!VerifyInv)

THEOREM AskedIsShown == DashboardSpec => []ScreenShowsWhatWasAsked
<1>1. DashboardInit => ScreensHold
  BY ScreenInit, VerifyInit DEF DashboardInit, ScreensHold
<1>2. ScreensHold /\ [DashboardNext]_All => ScreensHold'
  <2> SUFFICES ASSUME ScreensHold, [DashboardNext]_All PROVE ScreensHold'
    OBVIOUS
  <2>1. part' = part
    BY PartStays
  <2>2. part = "screen" => Screen!ScreenInv'
    BY ScreenSteps, ScreenStep DEF ScreensHold
  <2>3. part = "verify" => Verify!VerifyInv'
    BY VerifySteps, VerifyStep DEF ScreensHold
  <2> QED
    BY <2>1, <2>2, <2>3 DEF ScreensHold
<1>3. ScreensHold => ScreenShowsWhatWasAsked
  BY ScreenShows, VerifyShows DEF ScreensHold, ScreenShowsWhatWasAsked
<1> QED
  BY <1>1, <1>2, <1>3, PTL DEF DashboardSpec, All

-----------------------------------------------------------------------------
(* The members on the team page.                                            *)

LEMMA TeamSteps ==
  ASSUME part = "team", [DashboardNext]_All
  PROVE  [Team!Next]_(Team!vars)
<1>1. CASE DashboardNext
  BY <1>1 DEF DashboardNext
<1>2. CASE UNCHANGED All
  BY <1>2 DEF All, Team!vars
<1> QED
  BY <1>1, <1>2

(* What the page offers and the API allows is the same, by caches that know *)
(* of the user's own changes: TeamPageAgrees, for every team and every      *)
(* number of changes by the user and by colleagues.                         *)
TeamHolds == part = "team" => Team!TeamInv

THEOREM TeamIsAgreed == DashboardSpec => []TeamPageAgrees
<1>1. DashboardInit => TeamHolds
  BY TeamInit DEF DashboardInit, TeamHolds
<1>2. TeamHolds /\ [DashboardNext]_All => TeamHolds'
  BY PartStays, TeamSteps, TeamStep DEF TeamHolds
<1>3. TeamHolds => TeamPageAgrees
  <2> SUFFICES ASSUME Team!TeamInv
               PROVE  Team!OfferedIsAllowed /\ Team!AllowedIsOffered /\ Team!OwnChangesShow
    BY DEF TeamHolds, TeamPageAgrees
  <2>1. Team!OfferedIsAllowed
    BY DEF Team!TeamInv, Team!ActSound, Team!OfferedIsAllowed
  <2> QED
    BY <2>1, AllowedAreOffered, UpToDate DEF Team!OwnChangesShow
<1> QED
  BY <1>1, <1>2, <1>3, PTL DEF DashboardSpec, All

-----------------------------------------------------------------------------
(* The form for a new transfer.                                             *)

LEMMA WizardSteps ==
  ASSUME part = "wizard", [DashboardNext]_All
  PROVE  [Wizard!Next]_(Wizard!vars)
<1>1. CASE DashboardNext
  BY <1>1 DEF DashboardNext
<1>2. CASE UNCHANGED All
  BY <1>2 DEF All, Wizard!vars
<1> QED
  BY <1>1, <1>2

-----------------------------------------------------------------------------
(* The page of one transfer.                                                *)

LEMMA TransferSteps ==
  ASSUME part = "transfer", [DashboardNext]_All
  PROVE  [Transfer!Next]_(Transfer!vars)
<1>1. CASE DashboardNext
  BY <1>1 DEF DashboardNext
<1>2. CASE UNCHANGED All
  BY <1>2 DEF All, Transfer!vars
<1> QED
  BY <1>1, <1>2

(* A form makes one transfer, complete and with its own amount, and its page *)
(* catches up with what happened to it, tells its history and shows the hash *)
(* of its settlement: TransfersAreKept, for every set of hashes and every    *)
(* number of submits and of changes of status.                               *)
TransfersHold ==
  /\ part = "wizard" => Wizard!WizardInv
  /\ part = "transfer" => Transfer!TransferInv

THEOREM FormsAndPagesAgree == DashboardSpec => []TransfersAreKept
<1>1. DashboardInit => TransfersHold
  BY WizardInit, TransferInit DEF DashboardInit, TransfersHold
<1>2. TransfersHold /\ [DashboardNext]_All => TransfersHold'
  BY PartStays, WizardSteps, WizardStep, TransferSteps, TransferStep DEF TransfersHold
<1>3. TransfersHold => TransfersAreKept
  BY WizardShows, TransferShows DEF TransfersHold, TransfersAreKept
<1> QED
  BY <1>1, <1>2, <1>3, PTL DEF DashboardSpec, All

-----------------------------------------------------------------------------
(* Signing in and out.                                                      *)

LEMMA AuthSteps ==
  ASSUME part = "auth", [DashboardNext]_All
  PROVE  [Auth!Next]_(Auth!vars)
<1>1. CASE DashboardNext
  BY <1>1 DEF DashboardNext
<1>2. CASE UNCHANGED All
  BY <1>2 DEF All, Auth!vars
<1> QED
  BY <1>1, <1>2

(* The guard leaves nobody on its skeleton but a browser that kept its      *)
(* cookie, and with a live session only after a logout that failed or an    *)
(* answer that came late: SignInHolds, for every set of orgs and every      *)
(* number of forms sent.                                                    *)
AuthHolds == part = "auth" => Auth!AuthInv

THEOREM GuardLetsIn == DashboardSpec => []SignInHolds
<1>1. DashboardInit => AuthHolds
  BY AuthInit DEF DashboardInit, AuthHolds
<1>2. AuthHolds /\ [DashboardNext]_All => AuthHolds'
  BY PartStays, AuthSteps, AuthStep DEF AuthHolds
<1>3. AuthHolds => SignInHolds
  <2> SUFFICES ASSUME Auth!AuthInv PROVE Auth!StuckOnlyWithCookie /\ Auth!NotThrownOut
    BY DEF AuthHolds, SignInHolds
  <2>1. Auth!AppShell = "skeleton" => x5 \in Auth!Dashboard
    BY DEF Auth!AppShell
  <2> QED
    BY <2>1 DEF Auth!AuthInv, Auth!LooksSignedOut, Auth!StuckOnlyWithCookie, Auth!NotThrownOut
<1> QED
  BY <1>1, <1>2, <1>3, PTL DEF DashboardSpec, All

-----------------------------------------------------------------------------
(* The cache of a tab.                                                      *)

LEMMA CacheSteps ==
  ASSUME part = "cache", [DashboardNext]_All
  PROVE  [Cache!Next]_(Cache!vars)
<1>1. CASE DashboardNext
  BY <1>1 DEF DashboardNext
<1>2. CASE UNCHANGED All
  BY <1>2 DEF All, Cache!vars, Cache!Queries
<1> QED
  BY <1>1, <1>2

(* The cache shows the rows of one org at a time, and in them the user's    *)
(* acknowledged writes, but for what nothing asks for again: CacheIsHonest, *)
(* for every set of orgs and every number of writes.                        *)
CacheHolds == part = "cache" => Cache!CacheInv

THEOREM CacheIsTrue == DashboardSpec => []CacheIsHonest
<1>1. DashboardInit => CacheHolds
  BY CacheInit DEF DashboardInit, CacheHolds
<1>2. CacheHolds /\ [DashboardNext]_All => CacheHolds'
  BY PartStays, CacheSteps, CacheStep DEF CacheHolds
<1>3. CacheHolds => CacheIsHonest
  <2> SUFFICES ASSUME Cache!CacheInv PROVE Cache!OneOrgOnScreen /\ Cache!OwnWritesShow
    BY DEF CacheHolds, CacheIsHonest
  <2>1. \A k \in Cache!OnScreen : /\ k \in Cache!Keys /\ k \in Cache!Mounted /\ x5[k] # None /\ k \notin x7
                                  /\ "me" \in Cache!Keys /\ x5["me"] # None
    BY DEF Cache!OnScreen, Cache!AppShell, Cache!Keys, Cache!Mounted, Cache!MountedOn, Cache!CacheInv, Cache!Typed
  <2>2. Cache!OneOrgOnScreen
    BY <2>1 DEF Cache!CacheInv, Cache!Typed, Cache!OfTheSession, Cache!OneOrgOnScreen
  <2>3. Cache!OwnWritesShow
    BY <2>1 DEF Cache!CacheInv, Cache!WritesFollow, Cache!Misses, Cache!Shows, Cache!OwnWritesShow
  <2> QED
    BY <2>2, <2>3
<1> QED
  BY <1>1, <1>2, <1>3, PTL DEF DashboardSpec, All

-----------------------------------------------------------------------------
(* The pages that show a secret once.                                       *)

LEMMA SecretSteps ==
  ASSUME part = "secrets", [DashboardNext]_All
  PROVE  [Secrets!Next]_(Secrets!vars)
<1>1. CASE DashboardNext
  BY <1>1 DEF DashboardNext
<1>2. CASE UNCHANGED All
  BY <1>2 DEF All, Secrets!vars
<1> QED
  BY <1>1, <1>2

(* A key's secret leaves the screen only saved or left, and the signing     *)
(* secret on screen after a rotation is the one in force, but for overlaps  *)
(* and lost answers: SecretsAreShown, for every set of endpoints and every  *)
(* number of secrets and requests.                                          *)
SecretsHold == part = "secrets" => Secrets!SecretsInv

THEOREM SecretsStayShown == DashboardSpec => []SecretsAreShown
<1>1. DashboardInit => SecretsHold
  BY SecretInit DEF DashboardInit, SecretsHold
<1>2. SecretsHold /\ [DashboardNext]_All => SecretsHold'
  BY PartStays, SecretSteps, SecretsStep DEF SecretsHold
<1>3. SecretsHold => SecretsAreShown
  <2> SUFFICES ASSUME Secrets!SecretsInv PROVE Secrets!KeySecretsStay /\ Secrets!ShownSecretWorks
    BY DEF SecretsHold, SecretsAreShown
  <2> QED
    BY DEF Secrets!SecretsInv, Secrets!RotationsWork, Secrets!ShownSecretWorks, Secrets!SecretDialog
<1> QED
  BY <1>1, <1>2, <1>3, PTL DEF DashboardSpec, All

-----------------------------------------------------------------------------
(* The settings.                                                            *)

LEMMA SettingsSteps ==
  ASSUME part = "settings", [DashboardNext]_All
  PROVE  [Settings!Next]_(Settings!vars)
<1>1. CASE DashboardNext
  BY <1>1 DEF DashboardNext
<1>2. CASE UNCHANGED All
  BY <1>2 DEF All, Settings!vars
<1> QED
  BY <1>1, <1>2

-----------------------------------------------------------------------------
(* The reports pages (ReportsPage).                                         *)

LEMMA ReportSteps ==
  ASSUME part = "reports", [DashboardNext]_All
  PROVE  [Reports!Next]_(Reports!vars)
<1>1. CASE DashboardNext
  BY <1>1 DEF DashboardNext
<1>2. CASE UNCHANGED All
  BY <1>2 DEF All, Reports!vars
<1> QED
  BY <1>1, <1>2

LEMMA ReportsStart == Reports!Init => Reports!ReportsInv
<1> SUFFICES ASSUME Reports!Init PROVE Reports!ReportsInv
  OBVIOUS
<1>1. /\ x1 \in {<<>>, <<"ready">>} /\ x2 = <<>> /\ x3.state = "asked" /\ x4 = FALSE /\ x5 = "none" /\ x6 = "history"
      /\ x7 = None /\ x8 = None /\ x9.state = "idle" /\ x11 = {} /\ x14 = FALSE
  BY DEF Reports!Init, Reports!Idle, Reports!Ask
<1>2. x1 \in Seq(Reports!Statuses)
  <2>1. "ready" \in Reports!Statuses
    BY DEF Reports!Statuses
  <2>2. <<>> \in Seq(Reports!Statuses) /\ <<"ready">> \in Seq(Reports!Statuses)
    BY <2>1
  <2> QED
    BY <1>1, <2>2
<1>3. Reports!Lists(x2)
  BY <1>1 DEF Reports!Lists
<1> QED
  BY <1>1, <1>2, <1>3 DEF Reports!ReportsInv

(* While the API stays as it is, what was fetched stays as true as it was.  *)
LEMMA ReportsKept ==
  ASSUME Reports!ReportsInv, x1' = x1
  PROVE  /\ \A h : Reports!Lists(h)' <=> Reports!Lists(h)
         /\ \A h : Reports!Follows(h)' <=> Reports!Follows(h)
         /\ \A s : x7' = x7 => (Reports!Tells(s)' <=> Reports!Tells(s))
BY DEF Reports!Lists, Reports!Follows, Reports!Tells, Reports!Newest

(* A report asked for, or one that moves on: an old answer is still one.    *)
LEMMA ReportsGrow ==
  ASSUME Reports!ReportsInv, x7' = x7,
         \/ \E s \in Reports!Statuses : x1' = Append(x1, s)
         \/ \E i \in DOMAIN x1 : \E s \in Reports!Statuses :
              Reports!reportPending(x1[i]) /\ x1' = [x1 EXCEPT ![i] = s]
  PROVE  /\ x1' \in Seq(Reports!Statuses) /\ DOMAIN x1 \subseteq DOMAIN x1'
         /\ \A h : Reports!Lists(h) => Reports!Lists(h)'
         /\ \A s : Reports!Tells(s) => Reports!Tells(s)'
         /\ (\E i \in DOMAIN x1 : x1' = [x1 EXCEPT ![i] = x1'[i]]) => \A h : Reports!Follows(h) => Reports!Follows(h)'
<1>1. x1 \in Seq(Reports!Statuses) /\ (x7 # None => x7 \in DOMAIN x1)
  BY DEF Reports!ReportsInv
<1>2. ASSUME NEW s \in Reports!Statuses, x1' = Append(x1, s)
      PROVE  /\ x1' \in Seq(Reports!Statuses) /\ Len(x1') = Len(x1) + 1
             /\ \A i \in DOMAIN x1 : i \in DOMAIN x1' /\ x1'[i] = x1[i]
  BY <1>1, <1>2
<1>3. ASSUME NEW i \in DOMAIN x1, NEW s \in Reports!Statuses,
             Reports!reportPending(x1[i]), x1' = [x1 EXCEPT ![i] = s]
      PROVE  /\ x1' \in Seq(Reports!Statuses) /\ Len(x1') = Len(x1) /\ DOMAIN x1' = DOMAIN x1
             /\ \A j \in DOMAIN x1 : x1'[j] = x1[j] \/ Reports!reportPending(x1[j])
  BY <1>1, <1>3
<1>4. /\ x1' \in Seq(Reports!Statuses) /\ Len(x1) <= Len(x1') /\ DOMAIN x1 \subseteq DOMAIN x1'
      /\ \A j \in DOMAIN x1 : x1'[j] = x1[j] \/ Reports!reportPending(x1[j])
      /\ DOMAIN x1 = DOMAIN x1' \/ Len(x1') = Len(x1) + 1
  BY <1>1, <1>2, <1>3
<1>5. \A h : Reports!Lists(h) => Reports!Lists(h)'
  BY <1>1, <1>4 DEF Reports!Lists
<1>6. \A s : Reports!Tells(s) => Reports!Tells(s)'
  BY <1>1, <1>4 DEF Reports!Tells
<1>7. (\E i \in DOMAIN x1 : x1' = [x1 EXCEPT ![i] = x1'[i]]) => \A h : Reports!Follows(h) => Reports!Follows(h)'
  <2> SUFFICES ASSUME NEW i \in DOMAIN x1, x1' = [x1 EXCEPT ![i] = x1'[i]], NEW h, Reports!Follows(h)
               PROVE  Reports!Follows(h)'
    OBVIOUS
  <2>1. DOMAIN x1' = DOMAIN x1 /\ Len(x1') = Len(x1)
    BY <1>1, <1>4
  <2>2. DOMAIN Reports!Newest' = DOMAIN Reports!Newest /\ DOMAIN Reports!Newest \subseteq DOMAIN x1
    BY <2>1 DEF Reports!Newest
  <2> QED
    BY <1>4, <2>1, <2>2 DEF Reports!Follows
<1> QED
  BY <1>4, <1>5, <1>6, <1>7

LEMMA ReportsStep ==
  ASSUME Reports!ReportsInv, [Reports!Next]_(Reports!vars)
  PROVE  Reports!ReportsInv'
<1> DEFINE Done == \E q \in x11 : q.answer = "ok"
<1>1. /\ x1 \in Seq(Reports!Statuses) /\ Reports!Lists(x2) /\ (x3.state = "answered" => Reports!Lists(x3.answer))
      /\ x6 \in {"history", "report"} /\ x14 \in BOOLEAN /\ x4 \in BOOLEAN /\ x5 \in {"none", "fresh", "old"}
      /\ \A q \in x11 : Reports!Sound(q)
      /\ x5 = "old" => x6 = "report"
      /\ x5 = "none" => x3.state # "idle" \/ x4
      /\ ~x14 => \/ Done
                 \/ /\ x3.state = "answered" => Reports!Follows(x3.answer)
                    /\ (x3.state = "idle" /\ ~x4 /\ x5 # "old") => Reports!Follows(x2)
      /\ x7 # None => x7 \in DOMAIN x1
      /\ x6 = "report" \/ x9.state # "idle" => x7 # None
      /\ x9.state = "answered" => Reports!Tells(x9.answer)
      /\ x8 # None => Reports!Tells(x8)
  BY DEF Reports!ReportsInv
<1>2. \A a : Reports!Ask(a).state = "asked" /\ Reports!Idle(a).state = "idle"
  BY DEF Reports!Ask, Reports!Idle
<1>3. \A q : Reports!Sound(q) => \A a : Reports!Sound([q EXCEPT !.answer = a]) /\ [q EXCEPT !.answer = a].answer = a
  BY DEF Reports!Sound
\* Steps that leave what is fetched alone.
<1>4. ASSUME UNCHANGED <<x1, x2, x3, x4, x5, x6, x7, x8, x9>>, x14' \in BOOLEAN,
             \A q \in x11' : Reports!Sound(q),
             ~x14' => (~x14 /\ (Done => Done'))
      PROVE  Reports!ReportsInv'
  BY <1>1, <1>4, ReportsKept DEF Reports!ReportsInv, Reports!Sound
<1>5. ASSUME NEW status \in {"queued", "ready"}, Reports!Generate(status) PROVE Reports!ReportsInv'
  <2>1. PICK n : n = [id |-> x12, status |-> status, answer |-> "awaited"]
    OBVIOUS
  <2>2. /\ UNCHANGED <<x1, x2, x3, x4, x5, x6, x7, x8, x9, x14>> /\ x11' = x11 \cup {n}
    BY <1>5, <2>1 DEF Reports!Generate, Reports!List, Reports!Copy
  <2>3. Reports!Sound(n)
    BY <2>1 DEF Reports!Sound, Reports!Statuses
  <2> QED
    BY <1>1, <1>4, <2>2, <2>3
<1>6. CASE UNCHANGED Reports!vars
  BY <1>1, <1>4, <1>6 DEF Reports!vars
<1>7. ASSUME NEW q \in x11, Reports!Serve(q) PROVE Reports!ReportsInv'
  <2>1. UNCHANGED <<x2, x3, x4, x5, x6, x7, x8, x9, x14>> /\ q.answer = "awaited" /\ Reports!Sound(q)
    BY <1>1, <1>7 DEF Reports!Serve, Reports!List, Reports!Copy
  <2>2. CASE x1' = Append(x1, q.status) /\ x11' = (x11 \ {q}) \cup {[q EXCEPT !.answer = "ok"]}
    <3>1. \A p \in x11' : Reports!Sound(p)
      <4>1. \A p \in x11 : Reports!Sound(p)
        BY <1>1
      <4>2. Reports!Sound([q EXCEPT !.answer = "ok"])
        BY <1>3, <2>1
      <4> QED
        BY <2>2, <4>1, <4>2
    <3>2. Done'
      BY <1>3, <2>1, <2>2
    <3>3. q.status \in Reports!Statuses
      BY <2>1 DEF Reports!Sound
    <3>4. /\ x1' \in Seq(Reports!Statuses) /\ DOMAIN x1 \subseteq DOMAIN x1'
          /\ \A h : Reports!Lists(h) => Reports!Lists(h)'
          /\ \A s : Reports!Tells(s) => Reports!Tells(s)'
      BY <2>1, <2>2, <3>3, ReportsGrow
    <3> QED
      BY <1>1, <2>1, <3>1, <3>2, <3>4 DEF Reports!ReportsInv, Reports!Sound
  <2>3. CASE x1' = x1 /\ x11' = (x11 \ {q}) \cup {[q EXCEPT !.answer = "refused"]}
    <3>1. \A p \in x11' : Reports!Sound(p)
      BY <1>1, <1>3, <2>1, <2>3
    <3>2. Done => Done'
      BY <2>1, <2>3
    <3> QED
      BY <1>1, <1>4, <2>1, <2>3, <3>1, <3>2
  <2> QED
    BY <1>7, <2>2, <2>3 DEF Reports!Serve
<1>8. ASSUME NEW q \in x11, Reports!Cut(q) PROVE Reports!ReportsInv'
  <2>1. /\ UNCHANGED <<x1, x2, x3, x4, x5, x6, x7, x8, x9>> /\ x14' = TRUE
        /\ x11' = (x11 \ {q}) \cup {[q EXCEPT !.answer = "refused"]}
    BY <1>8 DEF Reports!Cut, Reports!List, Reports!Copy
  <2>2. \A p \in x11' : Reports!Sound(p)
    BY <1>1, <1>3, <2>1
  <2> QED
    BY <1>4, <2>1, <2>2
<1>9. ASSUME NEW q \in x11, Reports!NotCreated(q) PROVE Reports!ReportsInv'
  <2>1. UNCHANGED <<x1, x2, x3, x4, x5, x6, x7, x8, x9, x14>> /\ x11' = x11 \ {q} /\ q.answer # "ok"
    BY <1>9 DEF Reports!NotCreated, Reports!List, Reports!Copy
  <2> QED
    BY <1>1, <1>4, <2>1
<1>10. ASSUME NEW q \in x11, Reports!Created(q) PROVE Reports!ReportsInv'
  <2>1. /\ UNCHANGED <<x1, x2, x4, x6, x7, x8>> /\ x11' = x11 \ {q}
        /\ x3' = IF x6 = "history" THEN Reports!Again(x3, x5 # "none", x2) ELSE x3
        /\ x5' = IF x6 = "history" THEN x5 ELSE "old"
        /\ x9' = IF x6 = "report" THEN Reports!Again(x9, x8 # None, x8) ELSE x9
        /\ x14' = (x14 \/ x3'.state = "answered")
    BY <1>10 DEF Reports!Created
  <2>2. /\ x5' \in {"none", "fresh", "old"} /\ x14' \in BOOLEAN /\ (x5' = "old" => x6' = "report")
        /\ ~x14' => x3'.state # "answered"
    BY <1>1, <2>1
  <2>3. /\ x6 = "history" => x3'.state # "idle"
        /\ x3'.state = "idle" => x6 = "report" /\ x3' = x3
        /\ x3'.state = "answered" => x3' = x3
        /\ x9'.state = "answered" => x9' = x9
        /\ x9'.state # "idle" => x6 = "report" \/ x9.state # "idle"
    BY <1>1, <1>2, <2>1 DEF Reports!Again
  <2>4. /\ (x3'.state = "idle" /\ x5' # "old") => FALSE
        /\ x5' = "none" => x3'.state # "idle"
    BY <1>1, <2>1, <2>3
  <2> QED
    BY <1>1, <2>1, <2>2, <2>3, <2>4, ReportsKept DEF Reports!ReportsInv, Reports!Sound
<1>11. CASE Reports!Colleague
  <2>1. UNCHANGED <<x2, x3, x4, x5, x6, x7, x8, x9, x11>> /\ x14' = TRUE /\ x1' = Append(x1, "queued")
    BY <1>11 DEF Reports!Colleague, Reports!List, Reports!Copy
  <2>2. "queued" \in Reports!Statuses
    BY DEF Reports!Statuses
  <2>3. /\ x1' \in Seq(Reports!Statuses) /\ DOMAIN x1 \subseteq DOMAIN x1'
        /\ \A h : Reports!Lists(h) => Reports!Lists(h)'
        /\ \A s : Reports!Tells(s) => Reports!Tells(s)'
    BY <2>1, <2>2, ReportsGrow
  <2> QED
    BY <1>1, <2>1, <2>3 DEF Reports!ReportsInv, Reports!Sound
<1>12. ASSUME NEW i \in DOMAIN x1, Reports!Render(i) PROVE Reports!ReportsInv'
  <2>1. PICK s : /\ s \in IF x1[i] = "queued" THEN {"rendering"} ELSE IF x1[i] = "rendering" THEN {"ready", "failed"} ELSE {}
                 /\ x1' = [x1 EXCEPT ![i] = s]
    BY <1>12 DEF Reports!Render
  <2>2. UNCHANGED <<x2, x3, x4, x5, x6, x7, x8, x9, x11, x14>>
    BY <1>12 DEF Reports!Render, Reports!List, Reports!Copy
  <2>3. s \in Reports!Statuses /\ Reports!reportPending(x1[i])
    BY <2>1 DEF Reports!Statuses, Reports!reportPending
  <2>4. x1' = [x1 EXCEPT ![i] = x1'[i]]
    BY <1>1, <2>1
  <2>5. /\ x1' \in Seq(Reports!Statuses) /\ DOMAIN x1 \subseteq DOMAIN x1'
        /\ \A h : Reports!Lists(h) => Reports!Lists(h)'
        /\ \A t : Reports!Tells(t) => Reports!Tells(t)'
        /\ \A h : Reports!Follows(h) => Reports!Follows(h)'
    BY <2>1, <2>2, <2>3, <2>4, ReportsGrow
  <2> QED
    BY <1>1, <2>2, <2>5 DEF Reports!ReportsInv, Reports!Sound
<1>13. ASSUME NEW i \in DOMAIN x2, Reports!OpenReport(i) PROVE Reports!ReportsInv'
  <2>1. /\ UNCHANGED <<x1, x2, x3, x4, x5, x8, x11, x14>> /\ x6 = "history" /\ x7 \in {None, i}
        /\ x6' = "report" /\ x7' = i
        /\ x9' = IF x8 = None THEN Reports!Ask(x8) ELSE x9
    BY <1>13 DEF Reports!OpenReport, Reports!List
  <2>2. i \in DOMAIN x1 /\ i # None
    BY <1>1, NoneIsNoNumber DEF Reports!Lists
  <2>3. \A s : Reports!Tells(s) => Reports!Tells(s)'
    BY <2>1 DEF Reports!Tells
  <2>4. x9'.state = "answered" => x9' = x9
    BY <1>2, <2>1
  <2> QED
    BY <1>1, <2>1, <2>2, <2>3, <2>4, ReportsKept DEF Reports!ReportsInv, Reports!Sound
<1>14. CASE Reports!Back
  <2>1. /\ UNCHANGED <<x1, x2, x4, x7, x8, x9, x11, x14>> /\ x6' = "history" /\ x5' = "fresh"
        /\ \/ x3'.state = "asked"
           \/ x3' = x3 /\ (x3.state # "idle" \/ x5 # "old")
    BY <1>2, <1>14 DEF Reports!Back, Reports!Copy
  <2>2. /\ x3'.state = "answered" => x3' = x3
        /\ x3'.state = "idle" => x5 # "old" /\ x3' = x3
    BY <1>1, <2>1
  <2> QED
    BY <1>1, <2>1, <2>2, ReportsKept DEF Reports!ReportsInv, Reports!Sound
<1>15. CASE Reports!Poll
  <2>1. UNCHANGED <<x1, x2, x4, x5, x6, x7, x8, x9, x11, x14>> /\ x3'.state = "asked"
    BY <1>2, <1>15 DEF Reports!Poll, Reports!Copy
  <2> QED
    BY <1>1, <2>1, ReportsKept DEF Reports!ReportsInv, Reports!Sound
<1>16. CASE Reports!PollReport
  <2>1. UNCHANGED <<x1, x2, x3, x4, x5, x6, x7, x8, x11, x14>> /\ x9'.state = "asked" /\ x6 = "report"
    BY <1>2, <1>16 DEF Reports!PollReport, Reports!List
  <2> QED
    BY <1>1, <2>1, ReportsKept DEF Reports!ReportsInv, Reports!Sound
<1>17. CASE Reports!ServeList
  <2>1. /\ UNCHANGED <<x1, x2, x4, x5, x6, x7, x8, x9, x11>> /\ x14' = FALSE
        /\ x3' = [state |-> "answered", answer |-> Reports!Newest]
    BY <1>17 DEF Reports!ServeList, Reports!Copy
  <2>2. x3'.state = "answered" /\ x3'.answer = Reports!Newest
    BY <2>1
  <2>3. Reports!Lists(Reports!Newest) /\ Reports!Follows(Reports!Newest)
    BY <1>1 DEF Reports!Lists, Reports!Follows, Reports!Newest
  <2> QED
    BY <1>1, <2>1, <2>2, <2>3, ReportsKept DEF Reports!ReportsInv, Reports!Sound
<1>18. CASE Reports!ListArrives
  <2>1. /\ UNCHANGED <<x1, x6, x7, x8, x9, x11, x14>> /\ x3.state = "answered" /\ x2' = x3.answer
        /\ x3'.state = "idle" /\ x4' = FALSE /\ x5' = "fresh"
    BY <1>2, <1>18 DEF Reports!ListArrives, Reports!Copy
  <2> QED
    BY <1>1, <2>1, ReportsKept DEF Reports!ReportsInv, Reports!Sound
<1>19. CASE Reports!ListFails
  <2>1. /\ UNCHANGED <<x1, x2, x5, x6, x7, x8, x9, x11, x14>> /\ x3'.state = "idle" /\ x4' = TRUE
    BY <1>2, <1>19 DEF Reports!ListFails, Reports!Copy
  <2> QED
    BY <1>1, <2>1, ReportsKept DEF Reports!ReportsInv, Reports!Sound
<1>20. CASE Reports!ServeReport
  <2>1. /\ UNCHANGED <<x1, x2, x3, x4, x5, x6, x7, x8, x11, x14>> /\ x9.state = "asked"
        /\ x9' = [state |-> "answered", answer |-> x1[x7]]
    BY <1>20 DEF Reports!ServeReport, Reports!List
  <2>2. x9'.state = "answered" /\ x9'.answer = x1[x7] /\ x7 # None
    BY <1>1, <2>1
  <2>3. Reports!Tells(x1[x7])
    BY <2>2 DEF Reports!Tells
  <2> QED
    BY <1>1, <2>1, <2>2, <2>3, ReportsKept DEF Reports!ReportsInv, Reports!Sound
<1>21. CASE Reports!ReportArrives
  <2>1. /\ UNCHANGED <<x1, x2, x3, x4, x5, x6, x7, x11, x14>> /\ x9.state = "answered"
        /\ x8' = x9.answer /\ x9'.state = "idle"
    BY <1>2, <1>21 DEF Reports!ReportArrives, Reports!List
  <2> QED
    BY <1>1, <2>1, ReportsKept DEF Reports!ReportsInv, Reports!Sound
<1> QED
  BY <1>5, <1>6, <1>7, <1>8, <1>9, <1>10, <1>11, <1>12, <1>13, <1>14, <1>15, <1>16, <1>17, <1>18, <1>19, <1>20, <1>21
  DEF Reports!Next

LEMMA ReportsShow == Reports!ReportsInv => Reports!PollsToTheEnd
<1> SUFFICES ASSUME Reports!ReportsInv PROVE Reports!PollsToTheEnd
  OBVIOUS
<1>1. ASSUME x6 = "history", x3.state = "idle", x11 = {}, ~x4, ~Reports!Unfinished, ~x14 PROVE x2 = Reports!Newest
  <2>1. Reports!Follows(x2) /\ Reports!Lists(x2)
    BY <1>1 DEF Reports!ReportsInv
  <2>2. DOMAIN x2 = DOMAIN Reports!Newest /\ \A i \in DOMAIN x2 : x2[i] = x1[i]
    BY <1>1, <2>1 DEF Reports!Follows, Reports!Unfinished
  <2>3. Reports!Newest = [i \in DOMAIN Reports!Newest |-> x1[i]]
    BY DEF Reports!Newest
  <2> QED
    BY <2>1, <2>2, <2>3 DEF Reports!Lists
<1> QED
  BY <1>1 DEF Reports!ReportsInv, Reports!PollsToTheEnd, Reports!Tells

-----------------------------------------------------------------------------
(* The page of a watched wallet (WalletScreening).                          *)

LEMMA WalletSteps ==
  ASSUME part = "wallet", [DashboardNext]_All
  PROVE  [Wallet!Next]_(Wallet!vars)
<1>1. CASE DashboardNext
  BY <1>1 DEF DashboardNext
<1>2. CASE UNCHANGED All
  BY <1>2 DEF All, Wallet!vars
<1> QED
  BY <1>1, <1>2

LEMMA WalletStarts == Wallet!Init => Wallet!WalletInv
<1> SUFFICES ASSUME Wallet!Init PROVE Wallet!WalletInv
  OBVIOUS
<1>1. /\ x1 \in 0..1 /\ x3 = None /\ x4.state = "asked" /\ x5 = FALSE /\ x7 = TRUE
      /\ x8 = [run |-> 0, state |-> "none", id |-> 0] /\ x9 = {} /\ x10 = {} /\ x13 = 0 /\ x15 = {} /\ x16 = FALSE
  BY DEF Wallet!Init, Wallet!Asked, Wallet!NoRun
<1>2. DOMAIN x8 = {"run", "state", "id"} /\ x8.state # "ok"
  BY <1>1
<1>3. x1 \in Nat /\ x13 \in Nat /\ x15 \in SUBSET (1..x1)
  BY <1>1
<1> QED
  BY <1>1, <1>2, <1>3 DEF Wallet!WalletInv, Wallet!OneByOne, Wallet!ListFollows

(* What the page shows is a screening there is; of its own run, one of its  *)
(* own.                                                                     *)
LEMMA LatestKnown ==
  ASSUME Wallet!WalletInv
  PROVE  Wallet!latest \in 0..x1 /\ (x8.state = "ok" => Wallet!latest \in x15)
<1>1. /\ x1 \in Nat /\ x15 \in SUBSET (1..x1) /\ (x3 = None \/ x3 \in 0..x1)
      /\ x8.state = "ok" => x8.id \in x15
  BY DEF Wallet!WalletInv
<1>2. Wallet!matched \in 0..x1
  BY <1>1 DEF Wallet!matched
<1>3. ASSUME x8.state = "ok" PROVE x8.id \in 0..x1
  <2>1. x8.id \in 1..x1
    BY <1>1, <1>3
  <2> HIDE <1>3
  <2> QED
    BY <1>1, <2>1
<1> QED
  BY <1>1, <1>2, <1>3 DEF Wallet!latest

(* A run asked for, with an export or without.                              *)
LEMMA WalletRun ==
  ASSUME Wallet!WalletInv, NEW flow, Wallet!Run(flow),
         UNCHANGED <<x1, x3, x4, x5, x7, x15>>,
         \/ flow = None /\ x10' = x10 /\ x13' = x13
         \/ flow = x13 /\ x13' = x13 + 1 /\ x10' = x10 \cup {Wallet!Flow("screening", 0)}
  PROVE  Wallet!WalletInv'
<1>1. /\ x1 \in Nat /\ x13 \in Nat /\ x15 \in SUBSET (1..x1) /\ (x3 = None \/ x3 \in 0..x1)
      /\ x4.state = "answered" => x4.answer \in 0..x1
      /\ x7 \in BOOLEAN /\ x5 \in BOOLEAN /\ x16 \in BOOLEAN /\ (x5 => ~x7)
      /\ \A r \in x9 : Wallet!RunSound(r)
      /\ \A f \in x10 : Wallet!FlowSound(f)
      /\ ~x16 => Wallet!OneByOne /\ Wallet!ListFollows
  BY DEF Wallet!WalletInv
<1>2. PICK n : n = [run |-> x12', flow |-> flow, here |-> TRUE, answer |-> 0]
  OBVIOUS
<1>3. DOMAIN n = {"run", "flow", "here", "answer"} /\ n.flow = flow /\ n.answer = 0
  BY <1>2
<1>4. /\ x9' = x9 \cup {n} /\ x8' = [run |-> x12', state |-> "pending", id |-> 0]
      /\ x16' = (x16 \/ x9 # {})
  BY <1>2 DEF Wallet!Run
<1>5. DOMAIN x8' = {"run", "state", "id"} /\ x8'.state = "pending"
  BY <1>4
<1>6. PICK g : g = Wallet!Flow("screening", 0)
  OBVIOUS
<1>7. DOMAIN g = {"id", "stage", "screening", "shown"} /\ g.id = x13 /\ g.stage = "screening" /\ g.shown \in 0..x1
  BY <1>6, LatestKnown DEF Wallet!Flow
<1>8. x13' \in Nat /\ x13' >= x13 /\ (x10' = x10 \/ (x10' = x10 \cup {g} /\ x13' = x13 + 1))
  BY <1>1, <1>6
<1>9. \A f \in x10' : Wallet!FlowSound(f)'
  <2>1. \A f \in x10 : Wallet!FlowSound(f)'
    BY <1>1, <1>8 DEF Wallet!FlowSound
  <2>2. x10' # x10 => Wallet!FlowSound(g)'
    <3>1. x10' # x10 => g.id \in 0..(x13' - 1) /\ g.shown \in 0..x1'
      <4>1. x13 \in 0..((x13 + 1) - 1) /\ x1' = x1
        BY <1>1
      <4> QED
        BY <1>7, <1>8, <4>1
    <3> QED
      BY <1>7, <3>1 DEF Wallet!FlowSound
  <2> QED
    BY <1>8, <2>1, <2>2
<1>10. \A r \in x9' : Wallet!RunSound(r)'
  <2>1. ASSUME NEW r \in x9 PROVE Wallet!RunSound(r)'
    <3>1. /\ DOMAIN r = {"run", "flow", "here", "answer"} /\ r.answer \in -1..x1
          /\ r.flow # None => r.flow \in 0..(x13 - 1)
          /\ r.answer > 0 => \A f \in x10 : f.id = r.flow => r.answer >= f.shown
      BY <1>1 DEF Wallet!RunSound
    <3>2. r.flow # g.id
      BY <1>1, <1>7, <3>1, NoneIsNoNumber
    <3>3. r.flow # None => r.flow \in 0..(x13' - 1)
      BY <1>1, <1>8, <3>1
    <3> QED
      BY <1>8, <3>1, <3>2, <3>3 DEF Wallet!RunSound
  <2>2. Wallet!RunSound(n)'
    <3>1. flow # None => flow \in 0..(x13' - 1)
      BY <1>1
    <3> QED
      BY <1>1, <1>3, <3>1 DEF Wallet!RunSound
  <2> QED
    BY <1>4, <2>1, <2>2
<1>11. ASSUME ~x16' PROVE Wallet!OneByOne' /\ Wallet!ListFollows'
  <2>1. ~x16 /\ x9' = {n}
    BY <1>4, <1>11
  <2> QED
    BY <1>1, <1>3, <1>5, <2>1 DEF Wallet!OneByOne, Wallet!ListFollows
<1>12. x16' \in BOOLEAN
  BY <1>1, <1>4
<1> QED
  BY <1>1, <1>5, <1>8, <1>9, <1>10, <1>11, <1>12 DEF Wallet!WalletInv, Wallet!RunSound, Wallet!FlowSound

(* What a run becomes: the others are what they were.                       *)
LEMMA WalletAnswered ==
  ASSUME Wallet!WalletInv, NEW r \in x9, NEW n, x9' = (x9 \ {r}) \cup {n},
         UNCHANGED <<x3, x4, x5, x7, x8, x10, x13, x15, x16>>,
         x1' \in Nat, x1' >= x1,
         DOMAIN n = {"run", "flow", "here", "answer"}, n.flow = r.flow,
         n.answer = -1 \/ (n.answer = x1' /\ x1' = x1 + 1)
  PROVE  Wallet!WalletInv'
<1>1. /\ x1 \in Nat /\ x13 \in Nat /\ x15 \in SUBSET (1..x1) /\ (x3 = None \/ x3 \in 0..x1)
      /\ x4.state = "answered" => x4.answer \in 0..x1
      /\ x7 \in BOOLEAN /\ x5 \in BOOLEAN /\ x16 \in BOOLEAN /\ (x5 => ~x7)
      /\ DOMAIN x8 = {"run", "state", "id"} /\ (x8.state = "ok" => x8.id \in x15)
      /\ \A q \in x9 : Wallet!RunSound(q)
      /\ \A f \in x10 : Wallet!FlowSound(f)
      /\ ~x16 => Wallet!OneByOne /\ Wallet!ListFollows
  BY DEF Wallet!WalletInv
<1>2. \A f \in x10 : Wallet!FlowSound(f)' /\ f.shown \in 0..x1
  BY <1>1 DEF Wallet!FlowSound
<1>3. \A q \in x9 : Wallet!RunSound(q)'
  BY <1>1 DEF Wallet!RunSound
<1>4. Wallet!RunSound(n)'
  <2>1. r.flow # None => r.flow \in 0..(x13 - 1)
    BY <1>1 DEF Wallet!RunSound
  <2>2. n.answer \in -1..x1'
    BY <1>1
  <2>3. n.answer > 0 => \A f \in x10 : n.answer >= f.shown
    BY <1>1, <1>2
  <2> QED
    BY <2>1, <2>2, <2>3 DEF Wallet!RunSound
<1>5. ASSUME ~x16 PROVE Wallet!OneByOne'
  <2>1. x9 = {r} /\ x9' = {n} /\ x8.state # "ok"
    BY <1>1, <1>5 DEF Wallet!OneByOne
  <2>2. n.answer > 0 => \A m \in x15 : n.answer >= m
    BY <1>1
  <2> QED
    BY <2>1, <2>2 DEF Wallet!OneByOne
<1>6. /\ x15' \in SUBSET (1..x1') /\ (x3' = None \/ x3' \in 0..x1')
      /\ x4'.state = "answered" => x4'.answer \in 0..x1'
  BY <1>1
<1>7. ~x16 => Wallet!ListFollows'
  BY <1>1 DEF Wallet!ListFollows
<1> QED
  BY <1>1, <1>2, <1>3, <1>4, <1>5, <1>6, <1>7 DEF Wallet!WalletInv, Wallet!FlowSound

(* A handler that is told a screening: it is newer than what was there.     *)
LEMMA WalletScreened ==
  ASSUME Wallet!WalletInv, NEW r \in x9, Wallet!Screened(r)
  PROVE  Wallet!WalletInv'
<1>1. /\ x1 \in Nat /\ x13 \in Nat /\ x15 \in SUBSET (1..x1) /\ (x3 = None \/ x3 \in 0..x1)
      /\ x4.state = "answered" => x4.answer \in 0..x1
      /\ x7 \in BOOLEAN /\ x5 \in BOOLEAN /\ x16 \in BOOLEAN /\ (x5 => ~x7)
      /\ DOMAIN x8 = {"run", "state", "id"} /\ (x8.state = "ok" => x8.id \in x15)
      /\ \A q \in x9 : Wallet!RunSound(q)
      /\ \A f \in x10 : Wallet!FlowSound(f)
      /\ ~x16 => Wallet!OneByOne /\ Wallet!ListFollows
  BY DEF Wallet!WalletInv
<1> DEFINE told(f) == IF f.id = r.flow THEN [f EXCEPT !.stage = "asked", !.screening = r.answer] ELSE f
<1>2. /\ r.answer > 0 /\ x9' = x9 \ {r} /\ x15' = x15 \cup {r.answer}
      /\ x4' = IF x7 /\ (x3 # None \/ x4.state = "idle") THEN Wallet!Asked ELSE x4
      /\ x5' = (x5 \/ ~x7)
      /\ x8' = IF x8.run = r.run THEN [x8 EXCEPT !.state = "ok", !.id = r.answer] ELSE x8
      /\ x10' = {told(f) : f \in x10}
      /\ x16' = (x16 \/ (x4.state = "answered" /\ (x3 = None \/ ~x7)))
      /\ UNCHANGED <<x1, x3, x7, x13>>
  BY DEF Wallet!Screened, Wallet!Refetched, Wallet!Api
<1>3. /\ r.answer \in 1..x1
      /\ r.flow # None => r.flow \in 0..(x13 - 1)
      /\ \A f \in x10 : f.id = r.flow => r.answer >= f.shown
  <2>1. Wallet!RunSound(r)
    BY <1>1
  <2>2. /\ r.answer \in -1..x1 /\ r.answer > 0
        /\ r.flow # None => r.flow \in 0..(x13 - 1)
        /\ \A f \in x10 : f.id = r.flow => r.answer >= f.shown
    BY <1>2, <2>1 DEF Wallet!RunSound
  <2>3. r.answer \in 1..x1
    BY <1>1, <2>2
  <2> QED
    BY <2>2, <2>3
<1>4. Wallet!Asked.state = "asked"
  BY DEF Wallet!Asked
<1>5. ASSUME NEW f \in x10
      PROVE  Wallet!FlowSound(told(f))' /\ told(f).id = f.id /\ told(f).shown = f.shown
  <2>1. Wallet!FlowSound(f)
    BY <1>1
  <2>2. CASE f.id = r.flow
    <3>1. PICK g : g = [f EXCEPT !.stage = "asked", !.screening = r.answer]
      OBVIOUS
    <3>2. /\ DOMAIN g = {"id", "stage", "screening", "shown"} /\ g.id = f.id /\ g.shown = f.shown
          /\ g.screening = r.answer
      BY <2>1, <3>1 DEF Wallet!FlowSound
    <3>3. Wallet!FlowSound(g)'
      BY <1>2, <1>3, <2>1, <2>2, <3>2 DEF Wallet!FlowSound
    <3> QED
      BY <2>2, <3>1, <3>2, <3>3
  <2>3. CASE f.id # r.flow
    <3>1. Wallet!FlowSound(f)'
      BY <1>2, <2>1 DEF Wallet!FlowSound
    <3> QED
      BY <2>3, <3>1
  <2> QED
    BY <2>2, <2>3
<1> HIDE DEF told
<1>6. \A f \in x10' : Wallet!FlowSound(f)'
  BY <1>2, <1>5
<1>7. \A q \in x9' : Wallet!RunSound(q)'
  <2> SUFFICES ASSUME NEW q \in x9 PROVE Wallet!RunSound(q)'
    BY <1>2
  <2>1. Wallet!RunSound(q)
    BY <1>1
  <2>2. q.answer > 0 => \A g \in x10' : g.id = q.flow => q.answer >= g.shown
    <3> SUFFICES ASSUME q.answer > 0, NEW f \in x10, told(f).id = q.flow PROVE q.answer >= told(f).shown
      BY <1>2
    <3> QED
      BY <1>5, <2>1 DEF Wallet!RunSound
  <2> QED
    BY <1>2, <2>1, <2>2 DEF Wallet!RunSound
<1>8. /\ x15' \in SUBSET (1..x1) /\ x5' \in BOOLEAN /\ x16' \in BOOLEAN /\ (x5' => ~x7)
      /\ x4'.state = "answered" => x4'.answer \in 0..x1
  BY <1>1, <1>2, <1>3, <1>4
<1>9. DOMAIN x8' = {"run", "state", "id"} /\ (x8'.state = "ok" => x8'.id \in x15')
  BY <1>1, <1>2
<1>10. ASSUME ~x16' PROVE Wallet!OneByOne' /\ Wallet!ListFollows'
  <2>1. ~x16 /\ x9 = {r} /\ x9' = {} /\ x8.state # "ok"
    BY <1>1, <1>2, <1>10 DEF Wallet!OneByOne
  <2>2. \A n \in x15' : r.answer >= n
    BY <1>1, <1>2, <1>3, <2>1 DEF Wallet!OneByOne
  <2>3. x8'.state = "ok" => x8'.id = r.answer
    BY <1>1, <1>2, <2>1
  <2>4. Wallet!OneByOne'
    BY <2>1, <2>2, <2>3 DEF Wallet!OneByOne
  <2>5. x4'.state # "answered" /\ (x4'.state = "idle" => x5')
    BY <1>1, <1>2, <1>4, <1>10
  <2> QED
    BY <2>4, <2>5 DEF Wallet!ListFollows
<1> QED
  BY <1>1, <1>2, <1>6, <1>7, <1>8, <1>9, <1>10 DEF Wallet!WalletInv

LEMMA WalletNotScreened ==
  ASSUME Wallet!WalletInv, NEW r \in x9, Wallet!NotScreened(r)
  PROVE  Wallet!WalletInv'
<1>1. /\ x1 \in Nat /\ x13 \in Nat /\ x15 \in SUBSET (1..x1) /\ (x3 = None \/ x3 \in 0..x1)
      /\ x4.state = "answered" => x4.answer \in 0..x1
      /\ x7 \in BOOLEAN /\ x5 \in BOOLEAN /\ x16 \in BOOLEAN /\ (x5 => ~x7)
      /\ DOMAIN x8 = {"run", "state", "id"} /\ (x8.state = "ok" => x8.id \in x15)
      /\ \A q \in x9 : Wallet!RunSound(q)
      /\ \A f \in x10 : Wallet!FlowSound(f)
      /\ ~x16 => Wallet!OneByOne /\ Wallet!ListFollows
  BY DEF Wallet!WalletInv
<1> DEFINE told(f) == IF f.id = r.flow THEN [f EXCEPT !.stage = "failed"] ELSE f
<1>2. /\ x9' = x9 \ {r}
      /\ x8' = IF x8.run = r.run THEN [x8 EXCEPT !.state = "error"] ELSE x8
      /\ x10' = {told(f) : f \in x10}
      /\ UNCHANGED <<x1, x3, x4, x5, x7, x13, x15, x16>>
  BY DEF Wallet!NotScreened, Wallet!Api, Wallet!List
<1>3. ASSUME NEW f \in x10
      PROVE  Wallet!FlowSound(told(f))' /\ told(f).id = f.id /\ told(f).shown = f.shown
  <2>1. Wallet!FlowSound(f)
    BY <1>1
  <2>2. CASE f.id = r.flow
    <3>1. PICK g : g = [f EXCEPT !.stage = "failed"]
      OBVIOUS
    <3>2. /\ DOMAIN g = {"id", "stage", "screening", "shown"} /\ g.id = f.id /\ g.shown = f.shown
          /\ g.stage = "failed"
      BY <2>1, <3>1 DEF Wallet!FlowSound
    <3>3. Wallet!FlowSound(g)'
      BY <1>2, <2>1, <3>2 DEF Wallet!FlowSound
    <3> QED
      BY <2>2, <3>1, <3>2, <3>3
  <2>3. CASE f.id # r.flow
    <3>1. Wallet!FlowSound(f)'
      BY <1>2, <2>1 DEF Wallet!FlowSound
    <3> QED
      BY <2>3, <3>1
  <2> QED
    BY <2>2, <2>3
<1> HIDE DEF told
<1>4. \A q \in x9' : Wallet!RunSound(q)'
  <2> SUFFICES ASSUME NEW q \in x9 PROVE Wallet!RunSound(q)'
    BY <1>2
  <2>1. Wallet!RunSound(q)
    BY <1>1
  <2>2. q.answer > 0 => \A g \in x10' : g.id = q.flow => q.answer >= g.shown
    <3> SUFFICES ASSUME q.answer > 0, NEW f \in x10, told(f).id = q.flow PROVE q.answer >= told(f).shown
      BY <1>2
    <3> QED
      BY <1>3, <2>1 DEF Wallet!RunSound
  <2> QED
    BY <1>2, <2>1, <2>2 DEF Wallet!RunSound
<1>5. DOMAIN x8' = {"run", "state", "id"} /\ (x8'.state = "ok" => x8' = x8)
  BY <1>1, <1>2
<1>6. ~x16 => Wallet!OneByOne' /\ Wallet!ListFollows'
  BY <1>1, <1>2, <1>5 DEF Wallet!OneByOne, Wallet!ListFollows
<1>7. \A f \in x10' : Wallet!FlowSound(f)'
  BY <1>2, <1>3
<1> QED
  BY <1>1, <1>2, <1>4, <1>5, <1>6, <1>7 DEF Wallet!WalletInv

LEMMA WalletStep ==
  ASSUME Wallet!WalletInv, [Wallet!Next]_(Wallet!vars)
  PROVE  Wallet!WalletInv'
<1>1. /\ x1 \in Nat /\ x13 \in Nat /\ x15 \in SUBSET (1..x1) /\ (x3 = None \/ x3 \in 0..x1)
      /\ x4.state = "answered" => x4.answer \in 0..x1
      /\ x7 \in BOOLEAN /\ x5 \in BOOLEAN /\ x16 \in BOOLEAN /\ (x5 => ~x7)
      /\ DOMAIN x8 = {"run", "state", "id"} /\ (x8.state = "ok" => x8.id \in x15)
      /\ \A q \in x9 : Wallet!RunSound(q)
      /\ \A f \in x10 : Wallet!FlowSound(f)
      /\ ~x16 => Wallet!OneByOne /\ Wallet!ListFollows
  BY DEF Wallet!WalletInv
<1>2. Wallet!Asked.state = "asked" /\ \A a : Wallet!Idle(a).state = "idle"
  BY DEF Wallet!Asked, Wallet!Idle
\* Steps that concern neither the runs nor what they are told.
<1>3. ASSUME UNCHANGED <<x1, x9, x10, x13, x15>>, x3' = None \/ x3' \in 0..x1,
             x4'.state = "answered" => x4'.answer \in 0..x1,
             x7' \in BOOLEAN, x5' \in BOOLEAN, x16' \in BOOLEAN, x5' => ~x7',
             DOMAIN x8' = {"run", "state", "id"}, x8'.state = "ok" => x8' = x8,
             ~x16' => ~x16 /\ (Wallet!ListFollows => Wallet!ListFollows')
      PROVE  Wallet!WalletInv'
  <2>1. \A q \in x9 : Wallet!RunSound(q)'
    BY <1>1, <1>3 DEF Wallet!RunSound
  <2>2. \A f \in x10 : Wallet!FlowSound(f)'
    BY <1>1, <1>3 DEF Wallet!FlowSound
  <2>3. ~x16' => Wallet!OneByOne'
    BY <1>1, <1>3 DEF Wallet!OneByOne
  <2> QED
    BY <1>1, <1>3, <2>1, <2>2, <2>3 DEF Wallet!WalletInv
<1>4. CASE Wallet!LoadMatched \/ UNCHANGED Wallet!vars
  <2>1. UNCHANGED <<x1, x3, x4, x5, x7, x8, x9, x10, x13, x15, x16>>
    BY <1>4 DEF Wallet!LoadMatched, Wallet!vars, Wallet!Api, Wallet!List
  <2> QED
    BY <1>1, <1>3, <2>1 DEF Wallet!ListFollows
<1>5. CASE Wallet!ShowReasons
  <2>1. Wallet!Run(None) /\ UNCHANGED <<x1, x3, x4, x5, x7, x10, x13, x15>>
    BY <1>5 DEF Wallet!ShowReasons, Wallet!Api, Wallet!List
  <2> QED
    BY <2>1, WalletRun
<1>6. CASE Wallet!exportEvidence
  <2>1. UNCHANGED <<x1, x3, x4, x5, x7, x15>> /\ x13' = x13 + 1
    BY <1>6 DEF Wallet!exportEvidence, Wallet!Api, Wallet!List
  <2>2. CASE Wallet!OfOwnRun /\ x10' = x10 \cup {Wallet!Flow("asked", Wallet!latest)} /\ UNCHANGED <<x8, x9, x16>>
    <3>1. PICK g : g = Wallet!Flow("asked", Wallet!latest)
      OBVIOUS
    <3>2. /\ DOMAIN g = {"id", "stage", "screening", "shown"} /\ g.id = x13 /\ g.screening = g.shown
          /\ g.shown \in 0..x1 /\ g.screening \in x15
      BY <2>2, <3>1, LatestKnown DEF Wallet!Flow, Wallet!OfOwnRun
    <3>3. Wallet!FlowSound(g)'
      <4>1. g.id \in 0..(x13' - 1) /\ g.screening >= g.shown
        BY <1>1, <2>1, <3>2
      <4> QED
        BY <2>1, <3>2, <4>1 DEF Wallet!FlowSound
    <3>4. \A f \in x10' : Wallet!FlowSound(f)'
      <4>1. \A f \in x10 : Wallet!FlowSound(f)'
        BY <1>1, <2>1 DEF Wallet!FlowSound
      <4> QED
        BY <2>2, <3>1, <3>3, <4>1
    <3>5. \A q \in x9 : Wallet!RunSound(q)'
      <4> SUFFICES ASSUME NEW q \in x9 PROVE Wallet!RunSound(q)'
        OBVIOUS
      <4>1. /\ DOMAIN q = {"run", "flow", "here", "answer"} /\ q.answer \in -1..x1
            /\ q.flow # None => q.flow \in 0..(x13 - 1)
            /\ q.answer > 0 => \A f \in x10 : f.id = q.flow => q.answer >= f.shown
        BY <1>1 DEF Wallet!RunSound
      <4>2. q.flow # g.id /\ (q.flow # None => q.flow \in 0..(x13' - 1))
        BY <1>1, <2>1, <3>2, <4>1, NoneIsNoNumber
      <4> QED
        BY <2>1, <2>2, <3>1, <4>1, <4>2 DEF Wallet!RunSound
    <3>6. ~x16 => Wallet!OneByOne' /\ Wallet!ListFollows'
      BY <1>1, <2>1, <2>2 DEF Wallet!OneByOne, Wallet!ListFollows
    <3> QED
      BY <1>1, <2>1, <2>2, <3>4, <3>5, <3>6 DEF Wallet!WalletInv
  <2>3. CASE x10' = x10 \cup {Wallet!Flow("screening", 0)} /\ Wallet!Run(x13)
    <3>1. PICK flow : flow = x13
      OBVIOUS
    <3> QED
      BY <2>1, <2>3, <3>1, WalletRun
  <2> QED
    BY <1>6, <2>2, <2>3 DEF Wallet!exportEvidence
<1>7. ASSUME NEW r \in x9, Wallet!Serve(r) PROVE Wallet!WalletInv'
  <2>1. UNCHANGED <<x3, x4, x5, x7, x8, x10, x13, x15, x16>>
    BY <1>7 DEF Wallet!Serve, Wallet!List
  <2>2. DOMAIN r = {"run", "flow", "here", "answer"}
    BY <1>1 DEF Wallet!RunSound
  <2>3. PICK n : /\ x9' = (x9 \ {r}) \cup {n} /\ DOMAIN n = {"run", "flow", "here", "answer"} /\ n.flow = r.flow
                 /\ (n.answer = x1' /\ x1' = x1 + 1) \/ (n.answer = -1 /\ x1' = x1)
    <3>1. CASE x1' = x1 + 1 /\ x9' = (x9 \ {r}) \cup {[r EXCEPT !.answer = x1']}
      <4>1. PICK n : n = [r EXCEPT !.answer = x1']
        OBVIOUS
      <4> QED
        BY <2>2, <3>1, <4>1
    <3>2. CASE x1' = x1 /\ x9' = (x9 \ {r}) \cup {[r EXCEPT !.answer = -1]}
      <4>1. PICK n : n = [r EXCEPT !.answer = -1]
        OBVIOUS
      <4> QED
        BY <2>2, <3>2, <4>1
    <3> QED
      BY <1>7, <3>1, <3>2 DEF Wallet!Serve
  <2>4. x1' \in Nat /\ x1' >= x1
    BY <1>1, <2>3
  <2> QED
    BY <2>1, <2>3, <2>4, WalletAnswered
<1>8. ASSUME NEW r \in x9, Wallet!Cut(r) PROVE Wallet!WalletInv'
  <2>1. /\ UNCHANGED <<x1, x3, x4, x5, x7, x8, x10, x13, x15, x16>>
        /\ x9' = (x9 \ {r}) \cup {[r EXCEPT !.answer = -1]}
    BY <1>8 DEF Wallet!Cut, Wallet!List, Wallet!Api
  <2>2. DOMAIN r = {"run", "flow", "here", "answer"}
    BY <1>1 DEF Wallet!RunSound
  <2>3. PICK n : n = [r EXCEPT !.answer = -1]
    OBVIOUS
  <2>4. DOMAIN n = {"run", "flow", "here", "answer"} /\ n.flow = r.flow /\ n.answer = -1
    BY <2>2, <2>3
  <2>5. x1' \in Nat /\ x1' >= x1
    BY <1>1, <2>1
  <2> QED
    BY <2>1, <2>3, <2>4, <2>5, WalletAnswered
<1>9. CASE Wallet!Colleague
  <2>1. UNCHANGED <<x3, x4, x5, x7, x8, x9, x10, x13, x15, x16>> /\ (x1' = x1 + 1 \/ x1' = x1)
    BY <1>9 DEF Wallet!Colleague, Wallet!List
  <2>2. /\ x1' \in Nat /\ x15' \in SUBSET (1..x1') /\ (x3' = None \/ x3' \in 0..x1')
        /\ x4'.state = "answered" => x4'.answer \in 0..x1'
    BY <1>1, <2>1
  <2>3. \A q \in x9 : Wallet!RunSound(q)'
    BY <1>1, <2>1 DEF Wallet!RunSound
  <2>4. \A f \in x10 : Wallet!FlowSound(f)'
    BY <1>1, <2>1 DEF Wallet!FlowSound
  <2>5. ~x16 => Wallet!OneByOne' /\ Wallet!ListFollows'
    BY <1>1, <2>1 DEF Wallet!OneByOne, Wallet!ListFollows
  <2> QED
    BY <1>1, <2>1, <2>2, <2>3, <2>4, <2>5 DEF Wallet!WalletInv
<1>10. ASSUME NEW f \in x10, Wallet!RenderEvidence(f) PROVE Wallet!WalletInv'
  <2>1. UNCHANGED <<x1, x3, x4, x5, x7, x8, x9, x13, x15, x16>> /\ f.stage = "asked"
    BY <1>10 DEF Wallet!RenderEvidence, Wallet!List, Wallet!Api
  <2>2. PICK s : x10' = (x10 \ {f}) \cup {[f EXCEPT !.stage = s]}
    BY <1>10 DEF Wallet!RenderEvidence
  <2>3. PICK g : g = [f EXCEPT !.stage = s]
    OBVIOUS
  <2>4. Wallet!FlowSound(f)
    BY <1>1
  <2>5. /\ DOMAIN g = {"id", "stage", "screening", "shown"} /\ g.id = f.id /\ g.shown = f.shown
        /\ g.screening = f.screening
    BY <2>3, <2>4 DEF Wallet!FlowSound
  <2>6. Wallet!FlowSound(g)'
    BY <2>1, <2>4, <2>5 DEF Wallet!FlowSound
  <2>7. \A h \in x10' : Wallet!FlowSound(h)'
    BY <1>1, <2>1, <2>2, <2>3, <2>6 DEF Wallet!FlowSound
  <2>8. \A q \in x9 : Wallet!RunSound(q)'
    BY <1>1, <2>1, <2>2, <2>3, <2>5 DEF Wallet!RunSound
  <2>9. ~x16 => Wallet!OneByOne' /\ Wallet!ListFollows'
    BY <1>1, <2>1 DEF Wallet!OneByOne, Wallet!ListFollows
  <2> QED
    BY <1>1, <2>1, <2>7, <2>8, <2>9 DEF Wallet!WalletInv
<1>11. ASSUME NEW f \in x10, Wallet!Exported(f) PROVE Wallet!WalletInv'
  <2>1. UNCHANGED <<x1, x3, x4, x5, x7, x8, x9, x10, x13, x15, x16>>
    BY <1>11 DEF Wallet!Exported, Wallet!List, Wallet!Api
  <2> QED
    BY <1>1, <1>3, <2>1 DEF Wallet!ListFollows
<1>12. CASE Wallet!Leave
  <2>1. /\ UNCHANGED <<x1, x3, x4, x5, x10, x13, x15, x16>> /\ x7' = FALSE
        /\ x8' = [run |-> 0, state |-> "none", id |-> 0]
        /\ x9' = {[r EXCEPT !.here = FALSE] : r \in x9}
    BY <1>12 DEF Wallet!Leave, Wallet!NoRun, Wallet!List, Wallet!Api
  <2>2. DOMAIN x8' = {"run", "state", "id"} /\ x8'.state # "ok"
    BY <2>1
  <2>3. \A r \in x9' : \E q \in x9 : DOMAIN r = DOMAIN q /\ r = [q EXCEPT !.here = FALSE]
                                    /\ r.flow = q.flow /\ r.answer = q.answer
    <3> SUFFICES ASSUME NEW q \in x9
                 PROVE  LET r == [q EXCEPT !.here = FALSE]
                        IN  DOMAIN r = DOMAIN q /\ r.flow = q.flow /\ r.answer = q.answer
      BY <2>1
    <3>1. DOMAIN q = {"run", "flow", "here", "answer"}
      BY <1>1 DEF Wallet!RunSound
    <3> QED
      BY <3>1
  <2>4. \A r \in x9' : Wallet!RunSound(r)'
    <3> SUFFICES ASSUME NEW r \in x9' PROVE Wallet!RunSound(r)'
      OBVIOUS
    <3>1. PICK q \in x9 : DOMAIN r = DOMAIN q /\ r.flow = q.flow /\ r.answer = q.answer
      BY <2>3
    <3>2. Wallet!RunSound(q)
      BY <1>1
    <3> QED
      BY <2>1, <3>1, <3>2 DEF Wallet!RunSound
  <2>5. \A f \in x10' : Wallet!FlowSound(f)'
    BY <1>1, <2>1 DEF Wallet!FlowSound
  <2>6. Wallet!OneByOne => Wallet!OneByOne'
    <3> SUFFICES ASSUME Wallet!OneByOne PROVE Wallet!OneByOne'
      OBVIOUS
    <3>1. \A q, r \in x9 : q = r
      BY DEF Wallet!OneByOne
    <3>2. \A q, r \in x9' : q = r
      BY <2>1, <3>1, Zenon
    <3>3. \A r \in x9' : r.answer > 0 => \A n \in x15 : r.answer >= n
      BY <2>3 DEF Wallet!OneByOne
    <3> QED
      BY <2>1, <2>2, <3>2, <3>3 DEF Wallet!OneByOne
  <2>7. Wallet!ListFollows => Wallet!ListFollows'
    BY <2>1 DEF Wallet!ListFollows
  <2> QED
    BY <1>1, <2>1, <2>2, <2>4, <2>5, <2>6, <2>7 DEF Wallet!WalletInv
<1>13. CASE Wallet!Visit
  <2>1. /\ UNCHANGED <<x1, x3, x8, x9, x10, x13, x15, x16>> /\ x7' = TRUE /\ x5' = FALSE
        /\ x4' = IF x4.state = "idle" /\ (x5 \/ x3 = None) THEN Wallet!Asked ELSE x4
    BY <1>13 DEF Wallet!Visit, Wallet!Api
  <2>2. Wallet!ListFollows => Wallet!ListFollows'
    BY <1>1, <1>2, <2>1 DEF Wallet!ListFollows
  <2>3. x4'.state = "answered" => x4'.answer \in 0..x1
    BY <1>1, <1>2, <2>1
  <2> QED
    BY <1>1, <1>3, <2>1, <2>2, <2>3
<1>14. CASE Wallet!ServeList
  <2>1. /\ UNCHANGED <<x1, x3, x5, x7, x8, x9, x10, x13, x15, x16>>
        /\ x4' = [state |-> "answered", answer |-> IF x2 THEN x1 ELSE 0]
    BY <1>14 DEF Wallet!ServeList, Wallet!Api
  <2>2. x4'.state = "answered" /\ x4'.answer \in {0, x1}
    BY <2>1
  <2>3. Wallet!ListFollows'
    BY <1>1, <2>1, <2>2 DEF Wallet!ListFollows
  <2>4. x4'.answer \in 0..x1
    BY <1>1, <2>2
  <2> QED
    BY <1>1, <1>3, <2>1, <2>3, <2>4
<1>15. CASE Wallet!ListArrives
  <2>1. /\ UNCHANGED <<x1, x7, x8, x9, x10, x13, x15, x16>> /\ x4.state = "answered"
        /\ x3' = x4.answer /\ x4'.state = "idle" /\ x5' = FALSE
    BY <1>2, <1>15 DEF Wallet!ListArrives, Wallet!Api
  <2>2. Wallet!ListFollows => Wallet!ListFollows'
    BY <1>1, <2>1 DEF Wallet!ListFollows
  <2> QED
    BY <1>1, <1>3, <2>1, <2>2
<1>16. CASE Wallet!ListFails
  <2>1. /\ UNCHANGED <<x1, x3, x5, x7, x8, x9, x10, x13, x15>> /\ x4'.state = "idle" /\ x16' = TRUE
    BY <1>2, <1>16 DEF Wallet!ListFails, Wallet!Api
  <2> QED
    BY <1>1, <1>3, <2>1
<1> QED
  BY <1>4, <1>5, <1>6, <1>7, <1>8, <1>9, <1>10, <1>11, <1>12, <1>13, <1>14, <1>15, <1>16,
     WalletScreened, WalletNotScreened DEF Wallet!Next

LEMMA WalletShows == Wallet!WalletInv => Wallet!ShowsNothingOlder /\ Wallet!EvidenceIsCurrent
<1> SUFFICES ASSUME Wallet!WalletInv PROVE Wallet!ShowsNothingOlder /\ Wallet!EvidenceIsCurrent
  OBVIOUS
<1>1. ASSUME x7, x9 = {}, x4.state = "idle", ~x16 PROVE Wallet!latest = 0 \/ \A n \in x15 : Wallet!latest >= n
  <2>1. Wallet!OneByOne /\ Wallet!ListFollows /\ ~x5
    BY <1>1 DEF Wallet!WalletInv
  <2>2. CASE x8.state = "ok"
    BY <2>1, <2>2 DEF Wallet!OneByOne, Wallet!latest
  <2>3. CASE x8.state # "ok"
    BY <1>1, <2>1, <2>3 DEF Wallet!ListFollows, Wallet!latest, Wallet!matched
  <2> QED
    BY <2>2, <2>3
<1>2. Wallet!EvidenceIsCurrent
  BY DEF Wallet!WalletInv, Wallet!FlowSound, Wallet!EvidenceIsCurrent
<1> QED
  BY <1>1, <1>2 DEF Wallet!ShowsNothingOlder

-----------------------------------------------------------------------------
(* Watching a wallet and stopping (WatchPages).                             *)

LEMMA WatchSteps ==
  ASSUME part = "watch", [DashboardNext]_All
  PROVE  [Watch!Next]_(Watch!vars)
<1>1. CASE DashboardNext
  BY <1>1 DEF DashboardNext
<1>2. CASE UNCHANGED All
  BY <1>2 DEF All, Watch!vars
<1> QED
  BY <1>1, <1>2

LEMMA WatchStarts == Watch!Init => Watch!WatchInv
<1> SUFFICES ASSUME Watch!Init PROVE Watch!WatchInv
  OBVIOUS
<1>1. x4.state = "asked" /\ x5 = FALSE /\ x9 = {} /\ x13 = FALSE
  BY DEF Watch!Init, Watch!Asked
<1> QED
  BY <1>1 DEF Watch!WatchInv, Watch!WillTell

LEMMA WatchStep ==
  ASSUME Watch!WatchInv, [Watch!Next]_(Watch!vars)
  PROVE  Watch!WatchInv'
<1> DEFINE Typed(q) == DOMAIN q = {"id", "kind", "row", "here", "answer"}
<1>1. /\ x13 \in BOOLEAN /\ x5 \in BOOLEAN /\ x4.state \in {"idle", "asked", "answered"}
      /\ \A q \in x9 : Typed(q)
      /\ x5 => x6 = -1
      /\ ~x13 => Watch!WillTell
  BY DEF Watch!WatchInv, Watch!Shown, Watch!Away
<1>2. \A q : Typed(q) => /\ \A a : Typed([q EXCEPT !.answer = a]) /\ [q EXCEPT !.answer = a].answer = a
                         /\ \A a, r : Typed([q EXCEPT !.answer = a, !.row = r]) /\ [q EXCEPT !.answer = a, !.row = r].answer = a
                         /\ Typed([q EXCEPT !.here = FALSE]) /\ [q EXCEPT !.here = FALSE].answer = q.answer
  OBVIOUS
<1> HIDE DEF Typed
\* Steps of the tab: what was under way stays, and the list is as it was.
<1>3. ASSUME UNCHANGED <<x1, x3, x4, x5, x6, x13>>, \A q \in x9' : Typed(q), x9 \subseteq x9'
      PROVE  Watch!WatchInv'
  BY <1>1, <1>3 DEF Watch!WatchInv, Watch!WillTell, Watch!Shown, Watch!Away, Typed
<1>4. CASE Watch!OpenWatch \/ Watch!OpenStop \/ Watch!Close \/ UNCHANGED Watch!vars
  <2>1. UNCHANGED <<x1, x3, x4, x5, x6, x13, x9>>
    BY <1>4 DEF Watch!OpenWatch, Watch!OpenStop, Watch!Close, Watch!Api, Watch!Cache, Watch!Asking, Watch!vars
  <2> QED
    BY <1>1, <1>3, <2>1
<1>5. CASE Watch!submit \/ Watch!stop
  <2>1. PICK kind, row : Watch!Send(kind, row) /\ UNCHANGED <<x1, x3, x4, x5, x6, x13>>
    BY <1>5 DEF Watch!submit, Watch!stop, Watch!Api, Watch!Cache
  <2>2. PICK n : n = [id |-> x10, kind |-> kind, row |-> row, here |-> TRUE, answer |-> "awaited"]
    OBVIOUS
  <2>3. Typed(n) /\ x9' = x9 \cup {n}
    BY <2>1, <2>2 DEF Watch!Send, Typed
  <2> QED
    BY <1>1, <1>3, <2>1, <2>3
<1>6. CASE Watch!Visit
  <2>1. PICK page : /\ Watch!Go(page)
                    /\ x4' = IF page # -1 /\ x4.state = "idle" /\ (x5 \/ x3 = None \/ x13) THEN Watch!Asked ELSE x4
                    /\ x5' = (x5 /\ page = -1)
                    /\ UNCHANGED <<x1, x3, x13>>
    BY <1>6 DEF Watch!Visit, Watch!Away, Watch!Api
  <2>2. x6' = page /\ x9' = {[q EXCEPT !.here = FALSE] : q \in x9}
    BY <2>1 DEF Watch!Go
  <2>3. \A q \in x9' : Typed(q)
    <3> SUFFICES ASSUME NEW q \in x9 PROVE Typed([q EXCEPT !.here = FALSE])
      BY <2>2
    <3> QED
      BY <1>1, <1>2
  <2>4. (\E q \in x9 : q.answer = "done") => \E q \in x9' : q.answer = "done"
    <3> SUFFICES ASSUME NEW q \in x9, q.answer = "done" PROVE [q EXCEPT !.here = FALSE].answer = "done"
      BY <2>2
    <3> QED
      BY <1>1, <1>2
  <2>5. Watch!Asked.state = "asked"
    BY DEF Watch!Asked
  <2>6. x5' \in BOOLEAN /\ (x5' => x6' = -1) /\ x4'.state \in {"idle", "asked", "answered"}
    BY <1>1, <2>1, <2>2, <2>5
  <2>7. ASSUME ~x13 PROVE Watch!WillTell'
    <3>1. CASE x4' = x4 /\ (x4.state = "idle" => x5' = x5 \/ ~x5)
      BY <1>1, <2>1, <2>4, <2>7, <3>1 DEF Watch!WillTell
    <3>2. CASE x4' = Watch!Asked
      BY <2>5, <3>2 DEF Watch!WillTell
    <3>3. x4' = Watch!Asked \/ (x4' = x4 /\ (x4.state = "idle" => x5' = x5 \/ ~x5))
      BY <1>1, <2>1
    <3> QED
      BY <3>1, <3>2, <3>3
  <2> QED
    BY <1>1, <2>1, <2>3, <2>6, <2>7 DEF Watch!WatchInv, Watch!Shown, Watch!Away, Typed
<1>7. CASE Watch!Colleague
  <2>1. x13' = TRUE /\ UNCHANGED <<x4, x5, x6, x9>>
    BY <1>7 DEF Watch!Colleague, Watch!Cache, Watch!Asking
  <2> QED
    BY <1>1, <2>1 DEF Watch!WatchInv, Watch!Shown, Watch!Away, Typed
<1>8. CASE Watch!ServeList
  <2>1. /\ x4' = [state |-> "answered", answer |-> x1] /\ x13' = FALSE
        /\ UNCHANGED <<x1, x5, x6, x9>>
    BY <1>8 DEF Watch!ServeList, Watch!Asking, Watch!Api
  <2>2. x4'.state = "answered" /\ x4'.answer = x1'
    BY <2>1
  <2> QED
    BY <1>1, <2>1, <2>2 DEF Watch!WatchInv, Watch!WillTell, Watch!Shown, Watch!Away, Typed
<1>9. CASE Watch!ListArrives
  <2>1. /\ x4.state = "answered" /\ x3' = x4.answer /\ x4'.state = "idle" /\ x5' = FALSE
        /\ UNCHANGED <<x1, x6, x9, x13>>
    BY <1>9 DEF Watch!ListArrives, Watch!Idle, Watch!Api
  <2> QED
    BY <1>1, <2>1 DEF Watch!WatchInv, Watch!WillTell, Watch!Shown, Watch!Away, Typed
<1>10. CASE Watch!ListFails
  <2>1. x13' = TRUE /\ UNCHANGED <<x5, x6, x9>> /\ x4'.state = "idle"
    BY <1>10 DEF Watch!ListFails, Watch!Idle, Watch!Asking
  <2> QED
    BY <1>1, <2>1 DEF Watch!WatchInv, Watch!Shown, Watch!Away, Typed
<1>11. ASSUME NEW q \in x9, Watch!Serve(q) PROVE Watch!WatchInv'
  <2>1. UNCHANGED <<x3, x4, x5, x6, x13>> /\ q.answer = "awaited"
    BY <1>11 DEF Watch!Serve, Watch!Cache
  <2>2. PICK n : /\ x9' = (x9 \ {q}) \cup {n} /\ Typed(n)
                 /\ n.answer = "done" \/ x1' = x1
    <3>1. CASE x9' = (x9 \ {q}) \cup {[q EXCEPT !.answer = "done", !.row = x2']}
      <4>1. PICK n : n = [q EXCEPT !.answer = "done", !.row = x2']
        OBVIOUS
      <4>2. Typed(q)
        BY <1>1
      <4>3. Typed(n) /\ n.answer = "done"
        BY <4>1, <4>2 DEF Typed
      <4> QED
        BY <1>1, <3>1, <4>1, <4>3
    <3>2. CASE x9' = (x9 \ {q}) \cup {[q EXCEPT !.answer = "done"]}
      <4>1. PICK n : n = [q EXCEPT !.answer = "done"]
        OBVIOUS
      <4>2. Typed(q)
        BY <1>1
      <4>3. Typed(n) /\ n.answer = "done"
        BY <4>1, <4>2 DEF Typed
      <4> QED
        BY <1>1, <3>2, <4>1, <4>3
    <3>3. CASE x9' = (x9 \ {q}) \cup {[q EXCEPT !.answer = "exists"]} /\ x1' = x1
      BY <1>1, <1>2, <3>3
    <3>4. CASE x9' = (x9 \ {q}) \cup {[q EXCEPT !.answer = "error"]} /\ x1' = x1
      BY <1>1, <1>2, <3>4
    <3> QED
      BY <1>11, <3>1, <3>2, <3>3, <3>4 DEF Watch!Serve, Watch!Api
  <2>3. (\E p \in x9 : p.answer = "done") => \E p \in x9' : p.answer = "done"
    BY <2>1, <2>2
  <2>4. ~x13 => Watch!WillTell'
    BY <1>1, <2>1, <2>2, <2>3 DEF Watch!WillTell
  <2> QED
    BY <1>1, <2>1, <2>2, <2>4 DEF Watch!WatchInv, Watch!Shown, Watch!Away, Typed
<1>12. ASSUME NEW q \in x9, Watch!Fail(q) PROVE Watch!WatchInv'
  <2>1. /\ UNCHANGED <<x1, x3, x4, x5, x6>> /\ x13' = (x13 \/ q.answer = "done")
        /\ x9' = (x9 \ {q}) \cup {[q EXCEPT !.answer = "error"]}
    BY <1>12 DEF Watch!Fail, Watch!Api, Watch!Cache
  <2>2. \A p \in x9' : Typed(p)
    <3>1. Typed([q EXCEPT !.answer = "error"])
      BY <1>1, <1>2
    <3> QED
      BY <1>1, <2>1, <3>1
  <2>3. ~x13' => ((\E p \in x9 : p.answer = "done") => \E p \in x9' : p.answer = "done")
    BY <2>1
  <2>4. ~x13' => Watch!WillTell'
    BY <1>1, <2>1, <2>3 DEF Watch!WillTell
  <2>5. x13' \in BOOLEAN
    BY <1>1, <2>1
  <2> QED
    BY <1>1, <2>1, <2>2, <2>4, <2>5 DEF Watch!WatchInv, Watch!Shown, Watch!Away, Typed
\* A handler that asks again, or leaves it to who opens the page, or owns to the gap.
<1>13. ASSUME NEW q \in x9, Watch!Watching(q) PROVE Watch!WatchInv'
  <2>1. /\ UNCHANGED <<x1, x3, x6>> /\ x13' = (x13 \/ (x4'.state = "answered")) /\ x9' = x9 \ {q}
        /\ x4' = IF x6 # -1 /\ (x3 # None \/ x4.state = "idle") THEN Watch!Asked ELSE x4
        /\ x5' = (x5 \/ x6 = -1)
    BY <1>13 DEF Watch!Watching, Watch!Waited, Watch!Refetched, Watch!Missed, Watch!Api, Watch!Shown, Watch!Away
  <2>2. Watch!Asked.state = "asked"
    BY DEF Watch!Asked
  <2>3. x13' \in BOOLEAN /\ x5' \in BOOLEAN /\ (x5' => x6' = -1) /\ x4'.state \in {"idle", "asked", "answered"}
    BY <1>1, <2>1, <2>2
  <2>4. ASSUME ~x13' PROVE Watch!WillTell'
    <3>1. x4'.state # "answered" /\ ~x13
      BY <2>1, <2>4
    <3>2. CASE x4' = Watch!Asked
      BY <2>2, <3>2 DEF Watch!WillTell
    <3>3. CASE x4' = x4 /\ x4.state = "idle"
      BY <2>1, <2>2, <3>3 DEF Watch!WillTell
    <3>4. CASE x4' = x4 /\ x4.state # "idle"
      BY <1>1, <3>1, <3>4 DEF Watch!WillTell
    <3> QED
      BY <2>1, <3>2, <3>3, <3>4
  <2> QED
    BY <1>1, <2>1, <2>3, <2>4 DEF Watch!WatchInv, Watch!Shown, Watch!Away, Typed
<1>14. ASSUME NEW q \in x9, Watch!Stopped(q) PROVE Watch!WatchInv'
  <2>1. /\ UNCHANGED <<x1, x3>> /\ x13' = (x13 \/ (x4'.state = "answered")) /\ x5' = FALSE
        /\ x9' = x9 \ {q} \/ x9' = {[p EXCEPT !.here = FALSE] : p \in x9 \ {q}}
        /\ x4' = Watch!Asked \/ (x4' = x4 /\ x4.state # "idle")
    BY <1>14 DEF Watch!Stopped, Watch!Missed, Watch!Api
  <2>2. Watch!Asked.state = "asked"
    BY DEF Watch!Asked
  <2>3. \A p \in x9' : Typed(p)
    <3>1. \A p \in x9 : Typed([p EXCEPT !.here = FALSE])
      BY <1>1, <1>2
    <3> QED
      BY <1>1, <2>1, <3>1
  <2>4. x13' \in BOOLEAN /\ x4'.state \in {"idle", "asked", "answered"}
    BY <1>1, <2>1, <2>2
  <2>5. ASSUME ~x13' PROVE Watch!WillTell'
    <3>1. x4'.state # "answered" /\ ~x13
      BY <2>1, <2>5
    <3>2. CASE x4' = Watch!Asked
      BY <2>2, <3>2 DEF Watch!WillTell
    <3>3. CASE x4' = x4 /\ x4.state # "idle"
      BY <1>1, <3>1, <3>3 DEF Watch!WillTell
    <3> QED
      BY <2>1, <3>2, <3>3
  <2> QED
    BY <2>1, <2>3, <2>4, <2>5 DEF Watch!WatchInv, Typed
<1>15. ASSUME NEW q \in x9, Watch!NotDone(q) PROVE Watch!WatchInv'
  <2>1. /\ UNCHANGED <<x1, x3, x4, x5, x6, x13>> /\ x9' = x9 \ {q} /\ q.answer # "done"
    BY <1>15 DEF Watch!NotDone, Watch!Waited, Watch!Api, Watch!Cache
  <2>2. (\E p \in x9 : p.answer = "done") => \E p \in x9' : p.answer = "done"
    BY <2>1
  <2>3. ~x13' => Watch!WillTell'
    BY <1>1, <2>1, <2>2 DEF Watch!WillTell
  <2> QED
    BY <1>1, <2>1, <2>3 DEF Watch!WatchInv, Watch!Shown, Watch!Away, Typed
<1> QED
  BY <1>4, <1>5, <1>6, <1>7, <1>8, <1>9, <1>10, <1>11, <1>12, <1>13, <1>14, <1>15 DEF Watch!Next

LEMMA WatchShows == Watch!WatchInv => Watch!ListTells
BY DEF Watch!WatchInv, Watch!WillTell, Watch!ListTells

(* Once nothing is under way, the switch and the forms of the settings tell  *)
(* what is stored, the reports and the watched wallets are as the API has    *)
(* them, and a wallet's reasons and evidence are of the newest screening the *)
(* tab knows: PagesCatchUp, for every set of names and every number of       *)
(* sends, reports, runs and turns of colleagues.                             *)
PagesHold ==
  /\ part = "settings" => Settings!SettingsInv
  /\ part = "reports" => Reports!ReportsInv
  /\ part = "wallet" => Wallet!WalletInv
  /\ part = "watch" => Watch!WatchInv

THEOREM PagesTell == DashboardSpec => []PagesCatchUp
<1>1. DashboardInit => PagesHold
  BY SettingsStart, ReportsStart, WalletStarts, WatchStarts DEF DashboardInit, PagesHold
<1>2. PagesHold /\ [DashboardNext]_All => PagesHold'
  BY PartStays, SettingsSteps, SettingsStep, ReportSteps, ReportsStep, WalletSteps, WalletStep, WatchSteps, WatchStep
     DEF PagesHold
<1>3. PagesHold => PagesCatchUp
  BY SettingsShow, ReportsShow, WalletShows, WatchShows DEF PagesHold, PagesCatchUp
<1> QED
  BY <1>1, <1>2, <1>3, PTL DEF DashboardSpec, All

=============================================================================
