------------------------------ MODULE ServicesProofs ------------------------------
(***************************************************************************)
(* Proofs about what is kept and what is reported, for every number of      *)
(* transfers, workers and alerts and for every period: Travel Rule          *)
(* transfers first, then the audit report, both about histories that grow   *)
(* at one end; and, at last, the watchlist.                                 *)
(***************************************************************************)
EXTENDS MCServices, Watchlist, FiniteSetTheorems, TLAPS

(* Nothing is taken for no status, row or change.                           *)
LEMMA StatusesDiffer ==
  /\ \A s \in AnyStatus : s # Nothing
  /\ \A r \in [status : AnyStatus, reference : References] : r # Nothing
  /\ \A c \in [status : AnyStatus, at : Nat] : c # Nothing
  /\ Rule!Statuses \subseteq AnyStatus /\ Audit!AlertStatuses \subseteq AnyStatus
BY NothingIsNone DEF AnyStatus

(* What the last event of a longer history is.                              *)
LEMMA Appended ==
  ASSUME NEW S, NEW h \in Seq(S), NEW c \in S
  PROVE  /\ Append(h, c) \in Seq(S) /\ Len(Append(h, c)) = Len(h) + 1
         /\ Len(h) \in Nat /\ DOMAIN h = 1..Len(h) /\ DOMAIN Append(h, c) = 1..(Len(h) + 1)
         /\ Append(h, c)[Len(h) + 1] = c
         /\ \A i \in 1..Len(h) : Append(h, c)[i] = h[i]
         /\ Append(h, c) # <<>>
         /\ h = <<>> <=> Len(h) = 0
OBVIOUS

LEMMA InRange ==
  ASSUME NEW S, NEW h \in Seq(S), NEW i \in DOMAIN h
  PROVE  h[i] \in S
OBVIOUS

-----------------------------------------------------------------------------
(* Travel Rule transfers: TransfersInv, one lemma for the steps that need   *)
(* one.                                                                     *)

LEMMA RuleInit == Rule!Init => Rule!TransfersInv
<1> SUFFICES ASSUME Rule!Init PROVE Rule!TransfersInv
  OBVIOUS
<1>1. Rule!TypeOK
  BY DEF Rule!Init, Rule!TypeOK, Rule!Idle
<1>2. Rule!CreatorIsAlone /\ Rule!MoverIsAlone
  BY DEF Rule!Init, Rule!CreatorIsAlone, Rule!MoverIsAlone, Rule!Creating, Rule!Moving, Rule!Idle
<1>3. Rule!StampsAreLatest /\ Rule!HistoryIsALegalPath /\ Rule!HistoryInOrder
  BY DEF Rule!Init, Rule!StampsAreLatest, Rule!HistoryIsALegalPath, Rule!HistoryInOrder, Rule!Moving, Rule!Idle
<1> QED
  BY <1>1, <1>2, <1>3 DEF Rule!TransfersInv

(* A step that leaves rows and histories alone leaves what is said of them. *)
LEMMA RowsAlone ==
  ASSUME Rule!TransfersInv, UNCHANGED <<row, moves, op>>, trClock' \in Nat, trClock <= trClock'
  PROVE  Rule!TransfersInv'
<1>1. Rule!TypeOK'
  BY DEF Rule!TransfersInv, Rule!TypeOK
<1>2. Rule!CreatorIsAlone'
  BY DEF Rule!TransfersInv, Rule!CreatorIsAlone, Rule!Creating
<1>3. Rule!MoverIsAlone'
  BY DEF Rule!TransfersInv, Rule!MoverIsAlone, Rule!Moving, Rule!canTransition
<1>4. Rule!StampsAreLatest'
  <2>1. trClock \in Nat /\ \A t \in Transfers : \A i \in DOMAIN moves[t] : moves[t][i].at \in Nat
    <3>1. \A t \in Transfers : moves[t] \in Seq([status : Rule!Statuses, at : Nat])
      BY DEF Rule!TransfersInv, Rule!TypeOK
    <3>2. ASSUME NEW t \in Transfers, NEW i \in DOMAIN moves[t] PROVE moves[t][i].at \in Nat
      <4>1. moves[t][i] \in [status : Rule!Statuses, at : Nat]
        BY <3>1, <3>2, InRange
      <4> QED
        BY <4>1
    <3> QED
      BY <3>2 DEF Rule!TransfersInv, Rule!TypeOK
  <2>2. \A w \in Workers : op[w].pc # "idle" => op[w].at \in Nat
    BY DEF Rule!TransfersInv, Rule!TypeOK, Rule!Idle
  <2>3. \A t \in Transfers : \A i \in DOMAIN moves[t] : moves[t][i].at <= trClock'
    BY <2>1 DEF Rule!TransfersInv, Rule!StampsAreLatest
  <2>4. \A w \in Workers : op[w].pc # "idle" => op[w].at <= trClock'
    BY <2>1, <2>2 DEF Rule!TransfersInv, Rule!StampsAreLatest
  <2>5. \A w \in Workers : Rule!Moving(w) =>
          \A i \in DOMAIN moves[op[w].transfer] : moves[op[w].transfer][i].at <= op[w].at
    BY DEF Rule!TransfersInv, Rule!StampsAreLatest
  <2>6. \A w \in Workers : Rule!Moving(w)' <=> Rule!Moving(w)
    BY DEF Rule!Moving
  <2> QED
    BY <2>3, <2>4, <2>5, <2>6 DEF Rule!StampsAreLatest
<1>5. Rule!HistoryIsALegalPath'
  <2>1. Rule!HistoryIsALegalPath
    BY DEF Rule!TransfersInv
  <2> QED
    BY <2>1 DEF Rule!HistoryIsALegalPath, Rule!canTransition
<1>6. Rule!HistoryInOrder'
  BY DEF Rule!TransfersInv, Rule!HistoryInOrder
<1> QED
  BY <1>1, <1>2, <1>3, <1>4, <1>5, <1>6 DEF Rule!TransfersInv

(* A step of one worker that leaves rows, histories and the time as they    *)
(* were keeps the invariant if the worker's next operation fits.            *)
LEMMA OpKeeps ==
  ASSUME Rule!TransfersInv, NEW w \in Workers, NEW x,
         UNCHANGED <<trClock, row, moves>>, op' = [op EXCEPT ![w] = x],
         \/ x = Rule!Idle
         \/ /\ x \in [pc : {"inserting", "inserted"}, transfer : Transfers, reference : References, attempt : Nat, at : Nat]
            /\ x.at <= trClock /\ row[x.transfer] = Nothing
            /\ \A v \in Workers \ {w} : Rule!Creating(v) => op[v].transfer # x.transfer
         \/ /\ x \in [pc : {"asked"}, transfer : Transfers, to : Rule!Statuses, at : Nat]
            /\ x.at <= trClock /\ row[x.transfer] # Nothing
         \/ /\ x \in [pc : {"moving"}, transfer : Transfers, to : Rule!Statuses, at : Nat]
            /\ x.at = trClock /\ row[x.transfer] # Nothing
            /\ Rule!canTransition(row[x.transfer].status, x.to)
            /\ \A v \in Workers \ {w} : Rule!Moving(v) => op[v].transfer # x.transfer
  PROVE  Rule!TransfersInv'
<1> DEFINE Ops == {Rule!Idle}
             \cup [pc : {"inserting", "inserted"}, transfer : Transfers, reference : References, attempt : Nat, at : Nat]
             \cup [pc : {"asked", "moving"}, transfer : Transfers, to : Rule!Statuses, at : Nat]
<1>0. trClock \in Nat /\ op \in [Workers -> Ops]
  BY DEF Rule!TransfersInv, Rule!TypeOK
<1>1. x \in Ops
  OBVIOUS
<1>2. op'[w] = x /\ \A v \in Workers \ {w} : op'[v] = op[v]
  BY <1>0
<1>3. Rule!TypeOK'
  <2>1. op' \in [Workers -> Ops]
    BY <1>0, <1>1
  <2> QED
    BY <2>1 DEF Rule!TransfersInv, Rule!TypeOK
<1> HIDE DEF Ops
<1>4. /\ Rule!Creating(w)' <=> x.pc \in {"inserting", "inserted"}
      /\ Rule!Moving(w)' <=> x.pc = "moving"
      /\ \A v \in Workers \ {w} : (Rule!Creating(v)' <=> Rule!Creating(v)) /\ (Rule!Moving(v)' <=> Rule!Moving(v))
  BY <1>2 DEF Rule!Creating, Rule!Moving
<1>5. Rule!CreatorIsAlone'
  <2> SUFFICES ASSUME NEW u \in Workers, Rule!Creating(u)'
               PROVE  /\ row[op'[u].transfer] = Nothing
                      /\ \A v \in Workers : Rule!Creating(v)' /\ op'[v].transfer = op'[u].transfer => v = u
    BY DEF Rule!TransfersInv, Rule!CreatorIsAlone, Rule!Creating
  <2>1. CASE u = w
    BY <1>2, <1>4, <2>1 DEF Rule!Idle
  <2>2. CASE u # w
    <3>1. /\ row[op[u].transfer] = Nothing
          /\ \A v \in Workers : Rule!Creating(v) /\ op[v].transfer = op[u].transfer => v = u
      BY <1>2, <1>4, <2>2 DEF Rule!TransfersInv, Rule!CreatorIsAlone
    <3>2. Rule!Creating(w)' => x.transfer # op[u].transfer
      BY <1>4, <2>2 DEF Rule!Idle
    <3> QED
      BY <1>2, <1>4, <2>2, <3>1, <3>2
  <2> QED
    BY <2>1, <2>2
<1>6. Rule!MoverIsAlone'
  <2>1. \A u \in Workers : op'[u].pc \in {"asked", "moving"} => row[op'[u].transfer] # Nothing
    BY <1>2 DEF Rule!TransfersInv, Rule!MoverIsAlone, Rule!Idle
  <2>2. ASSUME NEW u \in Workers, Rule!Moving(u)'
        PROVE  /\ Rule!canTransition(row[op'[u].transfer].status, op'[u].to)
               /\ \A v \in Workers : Rule!Moving(v)' /\ op'[v].transfer = op'[u].transfer => v = u
    <3>1. CASE u = w
      BY <1>2, <1>4, <2>2, <3>1 DEF Rule!Idle
    <3>2. CASE u # w
      <4>1. /\ Rule!canTransition(row[op[u].transfer].status, op[u].to)
            /\ \A v \in Workers : Rule!Moving(v) /\ op[v].transfer = op[u].transfer => v = u
        BY <1>4, <2>2, <3>2 DEF Rule!TransfersInv, Rule!MoverIsAlone
      <4>2. Rule!Moving(w)' => x.transfer # op[u].transfer
        BY <1>4, <2>2, <3>2 DEF Rule!Idle
      <4> QED
        BY <1>2, <1>4, <3>2, <4>1, <4>2
    <3> QED
      BY <3>1, <3>2
  <2> QED
    BY <2>1, <2>2 DEF Rule!MoverIsAlone, Rule!Moving, Rule!canTransition
<1>7. Rule!StampsAreLatest'
  <2>1. \A t \in Transfers : \A i \in DOMAIN moves[t] : moves[t][i].at <= trClock
    BY DEF Rule!TransfersInv, Rule!StampsAreLatest
  <2>2. \A u \in Workers : op'[u].pc # "idle" => op'[u].at <= trClock
    BY <1>0, <1>2 DEF Rule!TransfersInv, Rule!StampsAreLatest, Rule!Idle
  <2>3. ASSUME NEW u \in Workers, Rule!Moving(u)'
        PROVE  \A i \in DOMAIN moves[op'[u].transfer] : moves[op'[u].transfer][i].at <= op'[u].at
    <3>1. CASE u = w
      BY <1>2, <1>4, <2>1, <2>3, <3>1 DEF Rule!Idle
    <3>2. CASE u # w
      BY <1>2, <1>4, <2>3, <3>2 DEF Rule!TransfersInv, Rule!StampsAreLatest
    <3> QED
      BY <3>1, <3>2
  <2> QED
    BY <2>1, <2>2, <2>3 DEF Rule!StampsAreLatest
<1>8. Rule!HistoryIsALegalPath' /\ Rule!HistoryInOrder'
  BY DEF Rule!TransfersInv, Rule!HistoryIsALegalPath, Rule!HistoryInOrder, Rule!canTransition
<1> QED
  BY <1>3, <1>5, <1>6, <1>7, <1>8 DEF Rule!TransfersInv

LEMMA CreateCommits ==
  ASSUME Rule!TransfersInv, NEW w \in Workers, Rule!CommitCreate(w)
  PROVE  Rule!TransfersInv'
<1> DEFINE t == op[w].transfer
           c == [status |-> "draft", at |-> op[w].at]
<1>1. /\ op[w] \in [pc : {"inserting", "inserted"}, transfer : Transfers, reference : References, attempt : Nat, at : Nat]
      /\ Rule!Creating(w) /\ t \in Transfers /\ row[t] = Nothing /\ moves[t] = <<>>
  BY DEF Rule!TransfersInv, Rule!TypeOK, Rule!CreatorIsAlone, Rule!Creating, Rule!CommitCreate, Rule!Idle
<1>2. c \in [status : Rule!Statuses, at : Nat] /\ c.status = "draft" /\ c.at <= trClock
  BY <1>1 DEF Rule!TransfersInv, Rule!StampsAreLatest, Rule!Creating, Rule!Statuses
<1>3. /\ row' = [row EXCEPT ![t] = [status |-> "draft", reference |-> op[w].reference]]
      /\ moves' = [moves EXCEPT ![t] = <<c>>]
      /\ op' = [op EXCEPT ![w] = Rule!Idle] /\ trClock' = trClock
  BY DEF Rule!CommitCreate, Rule!Finish
<1> HIDE DEF t, c
<1>4. Rule!TypeOK'
  BY <1>1, <1>2, <1>3 DEF Rule!TransfersInv, Rule!TypeOK, Rule!Statuses, t
<1>5. /\ row'[t] = [status |-> "draft", reference |-> op[w].reference] /\ row'[t] # Nothing
      /\ moves'[t] = <<c>> /\ Len(moves'[t]) = 1 /\ DOMAIN moves'[t] = {1} /\ moves'[t][1] = c
      /\ \A u \in Transfers \ {t} : row'[u] = row[u] /\ moves'[u] = moves[u]
      /\ op'[w] = Rule!Idle /\ \A v \in Workers \ {w} : op'[v] = op[v]
  <2>1. [status |-> "draft", reference |-> op[w].reference] \in [status : Rule!Statuses, reference : References]
    BY <1>1 DEF Rule!Statuses
  <2>2. row \in [Transfers -> [status : Rule!Statuses, reference : References] \cup {Nothing}]
    BY DEF Rule!TransfersInv, Rule!TypeOK
  <2>3. DOMAIN moves = Transfers /\ DOMAIN op = Workers
    BY DEF Rule!TransfersInv, Rule!TypeOK
  <2> QED
    BY <1>1, <1>3, <2>1, <2>2, <2>3, StatusesDiffer
<1>6. Rule!CreatorIsAlone'
  <2>1. \A v \in Workers \ {w} : Rule!Creating(v) => op[v].transfer # t
    BY <1>1 DEF Rule!TransfersInv, Rule!CreatorIsAlone, t
  <2>2. \A v \in Workers : Rule!Creating(v)' => v # w /\ Rule!Creating(v)
    BY <1>5 DEF Rule!Creating, Rule!Idle
  <2>3. \A v \in Workers : Rule!Creating(v) => op[v].transfer \in Transfers
    BY DEF Rule!TransfersInv, Rule!TypeOK, Rule!Creating, Rule!Idle
  <2>4. \A u \in Transfers : row'[u] = Nothing => moves'[u] = <<>>
    BY <1>5 DEF Rule!TransfersInv, Rule!CreatorIsAlone
  <2> QED
    BY <1>5, <2>1, <2>2, <2>3, <2>4 DEF Rule!TransfersInv, Rule!CreatorIsAlone
<1>7. Rule!MoverIsAlone'
  <2>1. \A v \in Workers : op'[v].pc \in {"asked", "moving"} =>
          v # w /\ op[v].pc \in {"asked", "moving"} /\ op[v].transfer \in Transfers \ {t}
    BY <1>1, <1>5 DEF Rule!TransfersInv, Rule!TypeOK, Rule!MoverIsAlone, Rule!Idle, t
  <2> QED
    BY <1>5, <2>1 DEF Rule!TransfersInv, Rule!MoverIsAlone, Rule!Moving, Rule!canTransition
<1>8. Rule!StampsAreLatest'
  <2>1. \A v \in Workers : op'[v].pc # "idle" => v # w
    BY <1>5 DEF Rule!Idle
  <2>2. \A v \in Workers : Rule!Moving(v)' => v # w /\ Rule!Moving(v) /\ op[v].transfer \in Transfers \ {t}
    BY <1>1, <1>5 DEF Rule!TransfersInv, Rule!TypeOK, Rule!MoverIsAlone, Rule!Moving, Rule!Idle, t
  <2>3. \A u \in Transfers : \A i \in DOMAIN moves'[u] : moves'[u][i].at <= trClock
    BY <1>2, <1>5 DEF Rule!TransfersInv, Rule!StampsAreLatest
  <2>4. \A v \in Workers : op'[v].pc # "idle" => op'[v].at <= trClock
    BY <1>5, <2>1 DEF Rule!TransfersInv, Rule!StampsAreLatest
  <2>5. \A v \in Workers : Rule!Moving(v)' =>
          \A i \in DOMAIN moves'[op'[v].transfer] : moves'[op'[v].transfer][i].at <= op'[v].at
    BY <1>5, <2>2 DEF Rule!TransfersInv, Rule!StampsAreLatest
  <2> QED
    BY <1>3, <2>3, <2>4, <2>5 DEF Rule!StampsAreLatest
<1>9. Rule!HistoryIsALegalPath'
  <2> SUFFICES ASSUME NEW u \in Transfers, row'[u] # Nothing
               PROVE  /\ Len(moves'[u]) > 0
                      /\ moves'[u][1].status = "draft"
                      /\ \A i \in 1..(Len(moves'[u]) - 1) : Rule!canTransition(moves'[u][i].status, moves'[u][i + 1].status)
                      /\ moves'[u][Len(moves'[u])].status = row'[u].status
    BY DEF Rule!HistoryIsALegalPath, Rule!canTransition
  <2>1. CASE u = t
    <3>1. Len(moves'[u]) = 1 /\ moves'[u][1] = c /\ row'[u].status = "draft"
      <4>1. row'[t].status = "draft"
        BY <1>5
      <4> QED
        BY <1>5, <2>1, <4>1
    <3>2. 1..(Len(moves'[u]) - 1) = {}
      BY <3>1
    <3> QED
      BY <1>2, <3>1, <3>2
  <2>2. CASE u # t
    BY <1>5, <2>2 DEF Rule!TransfersInv, Rule!HistoryIsALegalPath
  <2> QED
    BY <2>1, <2>2
<1>10. Rule!HistoryInOrder'
  <2> SUFFICES ASSUME NEW u \in Transfers
               PROVE  \A i, j \in DOMAIN moves'[u] : i < j => moves'[u][i].at <= moves'[u][j].at
    BY DEF Rule!HistoryInOrder
  <2> QED
    BY <1>5 DEF Rule!TransfersInv, Rule!HistoryInOrder
<1> QED
  BY <1>4, <1>6, <1>7, <1>8, <1>9, <1>10 DEF Rule!TransfersInv

LEMMA MoveCommits ==
  ASSUME Rule!TransfersInv, NEW w \in Workers, Rule!CommitMove(w)
  PROVE  Rule!TransfersInv'
<1> DEFINE t == op[w].transfer
           c == [status |-> op[w].to, at |-> op[w].at]
           h == moves[t]
           n == Len(moves[t])
<1>1. /\ op[w] \in [pc : {"asked", "moving"}, transfer : Transfers, to : Rule!Statuses, at : Nat]
      /\ Rule!Moving(w) /\ t \in Transfers /\ row[t] # Nothing
      /\ Rule!canTransition(row[t].status, c.status)
      /\ \A i \in DOMAIN h : h[i].at <= c.at
  <2>1. Rule!Moving(w) /\ op[w].pc = "moving"
    BY DEF Rule!CommitMove, Rule!Moving
  <2>2. op[w] \in [pc : {"asked", "moving"}, transfer : Transfers, to : Rule!Statuses, at : Nat]
    BY <2>1 DEF Rule!TransfersInv, Rule!TypeOK, Rule!Idle
  <2>3. row[t] # Nothing /\ Rule!canTransition(row[t].status, op[w].to)
    BY <2>1 DEF Rule!TransfersInv, Rule!MoverIsAlone
  <2>4. \A i \in DOMAIN h : h[i].at <= op[w].at
    BY <2>1 DEF Rule!TransfersInv, Rule!StampsAreLatest
  <2> QED
    BY <2>1, <2>2, <2>3, <2>4
<1>2. c \in [status : Rule!Statuses, at : Nat] /\ c.status = op[w].to /\ c.at <= trClock
  BY <1>1 DEF Rule!TransfersInv, Rule!StampsAreLatest, Rule!Moving
<1>3. /\ row' = [row EXCEPT ![t].status = c.status]
      /\ moves' = [moves EXCEPT ![t] = Append(h, c)]
      /\ op' = [op EXCEPT ![w] = Rule!Idle] /\ trClock' = trClock
  BY DEF Rule!CommitMove, Rule!Finish
<1>4. /\ h \in Seq([status : Rule!Statuses, at : Nat]) /\ trClock \in Nat
      /\ row \in [Transfers -> [status : Rule!Statuses, reference : References] \cup {Nothing}]
      /\ row[t] \in [status : Rule!Statuses, reference : References]
      /\ moves \in [Transfers -> Seq([status : Rule!Statuses, at : Nat])]
      /\ DOMAIN op = Workers
  BY <1>1 DEF Rule!TransfersInv, Rule!TypeOK
<1>5. /\ n > 0 /\ h[1].status = "draft" /\ h[n].status = row[t].status
      /\ \A i \in 1..(n - 1) : Rule!canTransition(h[i].status, h[i + 1].status)
  BY <1>1 DEF Rule!TransfersInv, Rule!HistoryIsALegalPath
<1> HIDE DEF t, c, h
<1>6. /\ Append(h, c) \in Seq([status : Rule!Statuses, at : Nat]) /\ Len(Append(h, c)) = n + 1
      /\ n \in Nat /\ DOMAIN h = 1..n /\ DOMAIN Append(h, c) = 1..(n + 1)
      /\ Append(h, c)[n + 1] = c /\ \A i \in 1..n : Append(h, c)[i] = h[i]
  <2>1. n = Len(h)
    BY DEF h
  <2> HIDE DEF n
  <2> QED
    BY <1>2, <1>4, <2>1, Appended
<1> HIDE DEF n
<1>7. /\ row'[t] \in [status : Rule!Statuses, reference : References] /\ row'[t].status = c.status
      /\ row'[t] # Nothing
      /\ moves'[t] = Append(h, c)
      /\ \A u \in Transfers \ {t} : row'[u] = row[u] /\ moves'[u] = moves[u]
      /\ op'[w] = Rule!Idle /\ \A v \in Workers \ {w} : op'[v] = op[v]
  <2>1. row'[t] = [row[t] EXCEPT !.status = c.status]
    BY <1>1, <1>3, <1>4
  <2>2. row'[t] \in [status : Rule!Statuses, reference : References] /\ row'[t].status = c.status
    BY <1>2, <1>4, <2>1
  <2> QED
    BY <1>1, <1>3, <1>4, <2>2, StatusesDiffer
<1>8. Rule!TypeOK'
  <2>1. row' \in [Transfers -> [status : Rule!Statuses, reference : References] \cup {Nothing}]
    BY <1>3, <1>4, <1>7
  <2>2. moves' \in [Transfers -> Seq([status : Rule!Statuses, at : Nat])]
    BY <1>3, <1>4, <1>6
  <2> QED
    BY <1>3, <2>1, <2>2 DEF Rule!TransfersInv, Rule!TypeOK
<1>9. Rule!CreatorIsAlone'
  <2>1. \A v \in Workers : Rule!Creating(v)' => v # w /\ Rule!Creating(v) /\ op[v].transfer \in Transfers \ {t}
    BY <1>1, <1>7 DEF Rule!TransfersInv, Rule!TypeOK, Rule!CreatorIsAlone, Rule!Creating, Rule!Idle, t
  <2>2. \A u \in Transfers : row'[u] = Nothing => moves'[u] = <<>>
    BY <1>7 DEF Rule!TransfersInv, Rule!CreatorIsAlone
  <2> QED
    BY <1>7, <2>1, <2>2 DEF Rule!TransfersInv, Rule!CreatorIsAlone
<1>10. Rule!MoverIsAlone'
  <2>1. \A v \in Workers : op'[v].pc \in {"asked", "moving"} =>
          v # w /\ op[v].pc \in {"asked", "moving"} /\ op[v].transfer \in Transfers
    BY <1>7 DEF Rule!TransfersInv, Rule!TypeOK, Rule!Idle
  <2>2. \A v \in Workers : Rule!Moving(v)' => v # w /\ Rule!Moving(v) /\ op[v].transfer \in Transfers \ {t}
    BY <1>1, <1>7, <2>1 DEF Rule!TransfersInv, Rule!MoverIsAlone, Rule!Moving, Rule!Idle, t
  <2> QED
    BY <1>7, <2>1, <2>2 DEF Rule!TransfersInv, Rule!MoverIsAlone, Rule!canTransition
<1>11. Rule!StampsAreLatest'
  <2>1. \A v \in Workers : op'[v].pc # "idle" => v # w
    BY <1>7 DEF Rule!Idle
  <2>2. \A v \in Workers : Rule!Moving(v)' => v # w /\ Rule!Moving(v) /\ op[v].transfer \in Transfers \ {t}
    BY <1>1, <1>7 DEF Rule!TransfersInv, Rule!TypeOK, Rule!MoverIsAlone, Rule!Moving, Rule!Idle, t
  <2>3. ASSUME NEW u \in Transfers, NEW i \in DOMAIN moves'[u] PROVE moves'[u][i].at <= trClock
    <3>1. CASE u = t
      <4>1. i \in 1..(n + 1)
        BY <1>6, <1>7, <2>3, <3>1
      <4>2. CASE i = n + 1
        BY <1>2, <1>6, <1>7, <3>1, <4>2
      <4>3. CASE i # n + 1
        <5>1. i \in 1..n
          BY <1>6, <4>1, <4>3
        <5>2. moves'[u][i] = h[i]
          BY <1>6, <1>7, <3>1, <5>1
        <5>3. i \in DOMAIN h
          BY <1>6, <5>1
        <5> QED
          BY <1>1, <5>2, <5>3 DEF Rule!TransfersInv, Rule!StampsAreLatest, h
      <4> QED
        BY <4>2, <4>3
    <3>2. CASE u # t
      BY <1>7, <2>3, <3>2 DEF Rule!TransfersInv, Rule!StampsAreLatest
    <3> QED
      BY <3>1, <3>2
  <2>4. \A v \in Workers : op'[v].pc # "idle" => op'[v].at <= trClock
    BY <1>7, <2>1 DEF Rule!TransfersInv, Rule!StampsAreLatest
  <2>5. \A v \in Workers : Rule!Moving(v)' =>
          \A i \in DOMAIN moves'[op'[v].transfer] : moves'[op'[v].transfer][i].at <= op'[v].at
    BY <1>7, <2>2 DEF Rule!TransfersInv, Rule!StampsAreLatest
  <2> QED
    BY <1>3, <2>3, <2>4, <2>5 DEF Rule!StampsAreLatest
<1>12. Rule!HistoryIsALegalPath'
  <2> SUFFICES ASSUME NEW u \in Transfers, row'[u] # Nothing
               PROVE  /\ Len(moves'[u]) > 0
                      /\ moves'[u][1].status = "draft"
                      /\ \A i \in 1..(Len(moves'[u]) - 1) : Rule!canTransition(moves'[u][i].status, moves'[u][i + 1].status)
                      /\ moves'[u][Len(moves'[u])].status = row'[u].status
    BY DEF Rule!HistoryIsALegalPath, Rule!canTransition
  <2>1. CASE u = t
    <3>1. ASSUME NEW i \in 1..n
          PROVE  Rule!canTransition(Append(h, c)[i].status, Append(h, c)[i + 1].status)
      <4>1. CASE i = n
        BY <1>1, <1>5, <1>6, <4>1
      <4>2. CASE i # n
        <5>1. i \in 1..(n - 1) /\ i + 1 \in 1..n
          BY <1>6, <4>2
        <5> QED
          BY <1>5, <1>6, <5>1
      <4> QED
        BY <4>1, <4>2
    <3>2. Len(moves'[u]) = n + 1 /\ (n + 1) - 1 = n /\ 1 \in 1..n
      BY <1>5, <1>6, <1>7, <2>1
    <3>3. /\ moves'[u][1].status = "draft" /\ moves'[u][n + 1].status = row'[u].status
          /\ \A i \in 1..n : Rule!canTransition(moves'[u][i].status, moves'[u][i + 1].status)
      BY <1>5, <1>6, <1>7, <2>1, <3>1, <3>2
    <3>4. 1..(Len(moves'[u]) - 1) = 1..n /\ Len(moves'[u]) > 0
      BY <3>2
    <3> QED
      BY <3>2, <3>3, <3>4
  <2>2. CASE u # t
    BY <1>7, <2>2 DEF Rule!TransfersInv, Rule!HistoryIsALegalPath
  <2> QED
    BY <2>1, <2>2
<1>13. Rule!HistoryInOrder'
  <2> SUFFICES ASSUME NEW u \in Transfers, NEW i \in DOMAIN moves'[u], NEW j \in DOMAIN moves'[u], i < j
               PROVE  moves'[u][i].at <= moves'[u][j].at
    BY DEF Rule!HistoryInOrder
  <2>1. CASE u = t
    <3>1. i \in 1..n /\ j \in 1..(n + 1)
      BY <1>6, <1>7, <2>1
    <3>2. CASE j = n + 1
      BY <1>1, <1>6, <1>7, <2>1, <3>1, <3>2
    <3>3. CASE j # n + 1
      <4>1. j \in 1..n
        BY <1>6, <3>1, <3>3
      <4>2. h[i].at <= h[j].at
        BY <1>1, <1>6, <3>1, <4>1 DEF Rule!TransfersInv, Rule!HistoryInOrder, h
      <4> QED
        BY <1>6, <1>7, <2>1, <3>1, <4>1, <4>2
    <3> QED
      BY <3>2, <3>3
  <2>2. CASE u # t
    BY <1>7, <2>2 DEF Rule!TransfersInv, Rule!HistoryInOrder
  <2> QED
    BY <2>1, <2>2
<1> QED
  BY <1>8, <1>9, <1>10, <1>11, <1>12, <1>13 DEF Rule!TransfersInv

LEMMA SameCollision ==
  ASSUME NEW o, NEW w \in DOMAIN o, NEW r, NEW c,
         o[w] \in [pc : {"inserting", "inserted"}, transfer : Transfers, reference : References, attempt : Nat, at : Nat]
  PROVE  [o EXCEPT ![w].reference = r, ![w].attempt = @ + 1, ![w].at = c]
           = [o EXCEPT ![w] = [o[w] EXCEPT !.reference = r, !.attempt = @ + 1, !.at = c]]
<1> DEFINE o1 == [o EXCEPT ![w].reference = r]
           o2 == [o1 EXCEPT ![w].attempt = @ + 1]
           o3 == [o2 EXCEPT ![w].at = c]
<1>1. o1 = [o EXCEPT ![w] = [o[w] EXCEPT !.reference = r]]
  OBVIOUS
<1>2. o2 = [o EXCEPT ![w] = [o[w] EXCEPT !.reference = r, !.attempt = @ + 1]]
  BY <1>1
<1>3. o3 = [o EXCEPT ![w] = [o[w] EXCEPT !.reference = r, !.attempt = @ + 1, !.at = c]]
  BY <1>2
<1> QED
  BY <1>3

LEMMA TransfersStep ==
  ASSUME Rule!TransfersInv, [Rule!Next]_(Rule!trVars)
  PROVE  Rule!TransfersInv'
<1>0. /\ trClock \in Nat /\ Workers = DOMAIN op
      /\ \A w \in Workers : op[w] \in
             {Rule!Idle}
             \cup [pc : {"inserting", "inserted"}, transfer : Transfers, reference : References, attempt : Nat, at : Nat]
             \cup [pc : {"asked", "moving"}, transfer : Transfers, to : Rule!Statuses, at : Nat]
      /\ \A w \in Workers : op[w].pc # "idle" => op[w].at <= trClock
  BY DEF Rule!TransfersInv, Rule!TypeOK, Rule!StampsAreLatest
<1>1. CASE UNCHANGED Rule!trVars
  BY <1>0, <1>1, RowsAlone DEF Rule!trVars
<1>2. CASE Rule!Tick
  BY <1>0, <1>2, RowsAlone DEF Rule!Tick
<1>3. ASSUME NEW w \in Workers, NEW t \in Transfers, NEW required, NEW identified, Rule!Create(w, t, required, identified)
      PROVE  Rule!TransfersInv'
  <2>1. PICK r \in References : op' = [op EXCEPT ![w] = [pc |-> "inserting", transfer |-> t, reference |-> r,
                                                        attempt |-> 1, at |-> trClock]]
    BY <1>3 DEF Rule!Create
  <2>2. /\ UNCHANGED <<trClock, row, moves>> /\ row[t] = Nothing
        /\ \A v \in Workers \ {w} : Rule!Creating(v) => op[v].transfer # t
    BY <1>3 DEF Rule!Create, Rule!Requested, Rule!Creating
  <2> DEFINE x == [pc |-> "inserting", transfer |-> t, reference |-> r, attempt |-> 1, at |-> trClock]
  <2>3. /\ x \in [pc : {"inserting", "inserted"}, transfer : Transfers, reference : References, attempt : Nat, at : Nat]
        /\ x.at = trClock /\ x.transfer = t /\ op' = [op EXCEPT ![w] = x]
    BY <1>0, <2>1
  <2>4. /\ x.at <= trClock /\ row[x.transfer] = Nothing
        /\ \A v \in Workers \ {w} : Rule!Creating(v) => op[v].transfer # x.transfer
    BY <1>0, <2>2, <2>3
  <2> HIDE DEF x
  <2> QED
    BY <2>2, <2>3, <2>4, OpKeeps
<1>4. ASSUME NEW w \in Workers, Rule!Insert(w)
      PROVE  Rule!TransfersInv'
  <2> DEFINE x == [op[w] EXCEPT !.pc = "inserted"]
  <2>1. op' = [op EXCEPT ![w] = x] /\ UNCHANGED <<trClock, row, moves>> /\ op[w].pc = "inserting"
    BY <1>4 DEF Rule!Insert
  <2>2. op[w] \in [pc : {"inserting", "inserted"}, transfer : Transfers, reference : References, attempt : Nat, at : Nat]
    BY <1>0, <2>1 DEF Rule!Idle
  <2>3. /\ x \in [pc : {"inserting", "inserted"}, transfer : Transfers, reference : References, attempt : Nat, at : Nat]
        /\ x.at = op[w].at /\ x.transfer = op[w].transfer
    BY <2>2
  <2>4. /\ row[x.transfer] = Nothing /\ x.at <= trClock
        /\ \A v \in Workers \ {w} : Rule!Creating(v) => op[v].transfer # x.transfer
    BY <1>0, <2>1, <2>3 DEF Rule!TransfersInv, Rule!CreatorIsAlone, Rule!Creating
  <2> HIDE DEF x
  <2> QED
    BY <2>1, <2>3, <2>4, OpKeeps
<1>5. ASSUME NEW w \in Workers, Rule!Collide(w)
      PROVE  Rule!TransfersInv'
  <2>1. UNCHANGED <<trClock, row, moves>> /\ op[w].pc = "inserting"
    BY <1>5 DEF Rule!Collide
  <2>2. CASE Rule!Finish(w)
    BY <2>1, <2>2, OpKeeps DEF Rule!Finish
  <2>3. ASSUME NEW r \in References, op' = [op EXCEPT ![w].reference = r, ![w].attempt = @ + 1, ![w].at = trClock]
        PROVE  Rule!TransfersInv'
    <3>1. op[w] \in [pc : {"inserting", "inserted"}, transfer : Transfers, reference : References, attempt : Nat, at : Nat]
      BY <1>0, <2>1 DEF Rule!Idle
    <3> DEFINE x == [op[w] EXCEPT !.reference = r, !.attempt = @ + 1, !.at = trClock]
    <3>2. /\ x \in [pc : {"inserting", "inserted"}, transfer : Transfers, reference : References, attempt : Nat, at : Nat]
          /\ x.at = trClock /\ x.transfer = op[w].transfer
      <4>1. trClock \in Nat /\ op[w].attempt + 1 \in Nat
        BY <1>0, <3>1
      <4> QED
        BY <3>1, <4>1
    <3>3. op' = [op EXCEPT ![w] = x]
      BY <1>0, <2>3, <3>1, SameCollision
    <3> HIDE DEF x
    <3>4. /\ row[x.transfer] = Nothing /\ x.at <= trClock
          /\ \A v \in Workers \ {w} : Rule!Creating(v) => op[v].transfer # x.transfer
      BY <1>0, <2>1, <3>2 DEF Rule!TransfersInv, Rule!CreatorIsAlone, Rule!Creating
    <3> QED
      BY <2>1, <3>2, <3>3, <3>4, OpKeeps
  <2> QED
    BY <1>5, <2>2, <2>3 DEF Rule!Collide
<1>6. ASSUME NEW w \in Workers, NEW t \in Transfers, NEW to \in Rule!Statuses, Rule!Ask(w, t, to)
      PROVE  Rule!TransfersInv'
  <2> DEFINE x == [pc |-> "asked", transfer |-> t, to |-> to, at |-> trClock]
  <2>1. op' = [op EXCEPT ![w] = x] /\ UNCHANGED <<trClock, row, moves>> /\ row[t] # Nothing
    BY <1>6 DEF Rule!Ask
  <2>2. x \in [pc : {"asked"}, transfer : Transfers, to : Rule!Statuses, at : Nat] /\ x.at <= trClock /\ row[x.transfer] # Nothing
    BY <1>0, <2>1
  <2> HIDE DEF x
  <2> QED
    BY <2>1, <2>2, OpKeeps
<1>7. ASSUME NEW w \in Workers, Rule!Decide(w)
      PROVE  Rule!TransfersInv'
  <2> DEFINE t == op[w].transfer
             x == [pc |-> "moving", transfer |-> t, to |-> op[w].to, at |-> trClock]
  <2>1. /\ UNCHANGED <<trClock, row, moves>> /\ op[w].pc = "asked" /\ Rule!Unlocked(t)
        /\ \/ Rule!canTransition(row[t].status, op[w].to) /\ op' = [op EXCEPT ![w] = x]
           \/ Rule!Finish(w)
    BY <1>7 DEF Rule!Decide, Rule!Stamp
  <2>2. op[w] \in [pc : {"asked", "moving"}, transfer : Transfers, to : Rule!Statuses, at : Nat]
    BY <1>0, <2>1 DEF Rule!Idle
  <2>3. /\ x \in [pc : {"moving"}, transfer : Transfers, to : Rule!Statuses, at : Nat]
        /\ x.at = trClock /\ x.transfer = t /\ x.to = op[w].to
    BY <1>0, <2>2
  <2>4. row[t] # Nothing
    BY <2>1 DEF Rule!TransfersInv, Rule!MoverIsAlone
  <2>5. \A v \in Workers \ {w} : Rule!Moving(v) => op[v].transfer # t
    BY <2>1 DEF Rule!Unlocked, Rule!Moving
  <2>6. CASE Rule!Finish(w)
    BY <2>1, <2>6, OpKeeps DEF Rule!Finish
  <2>7. CASE Rule!canTransition(row[t].status, op[w].to) /\ op' = [op EXCEPT ![w] = x]
    <3> HIDE DEF x, t
    <3> QED
      BY <2>1, <2>3, <2>4, <2>5, <2>7, OpKeeps
  <2> QED
    BY <2>1, <2>6, <2>7
<1>8. ASSUME NEW w \in Workers, Rule!RollBack(w)
      PROVE  Rule!TransfersInv'
  BY <1>8, OpKeeps DEF Rule!RollBack, Rule!Finish
<1> QED
  BY <1>1, <1>2, <1>3, <1>4, <1>5, <1>6, <1>7, <1>8, CreateCommits, MoveCommits DEF Rule!Next, Rule!WorkerStep

-----------------------------------------------------------------------------
(* What a transfer has under way.                                           *)

LEMMA OneUnderWay ==
  ASSUME NEW o, NEW w \in Workers, NEW t,
         LET busy(v) == o[v].pc \in {"inserting", "inserted", "moving"} /\ o[v].transfer = t
         IN  busy(w) /\ \A v \in Workers : busy(v) => v = w
  PROVE  LET under == {v \in Workers : o[v].pc \in {"inserting", "inserted", "moving"} /\ o[v].transfer = t}
         IN  under # {} /\ (CHOOSE v \in under : TRUE) = w
OBVIOUS

LEMMA BusyAlone ==
  ASSUME Rule!TransfersInv, NEW w \in Workers, Rule!Creating(w) \/ Rule!Moving(w)
  PROVE  /\ op[w].transfer \in Transfers
         /\ Rule!Moving(w) => op[w].to \in Rule!Statuses /\ row[op[w].transfer] # Nothing
         /\ Rule!Creating(w) => row[op[w].transfer] = Nothing /\ moves[op[w].transfer] = <<>>
         /\ op[w].at \in Nat
         /\ \A v \in Workers : (Rule!Creating(v) \/ Rule!Moving(v)) /\ op[v].transfer = op[w].transfer => v = w
<1>1. \A v \in Workers : Rule!Creating(v) => ~Rule!Moving(v) /\ row[op[v].transfer] = Nothing
  BY DEF Rule!TransfersInv, Rule!CreatorIsAlone, Rule!Creating, Rule!Moving
<1>2. \A v \in Workers : Rule!Moving(v) => row[op[v].transfer] # Nothing
  BY DEF Rule!TransfersInv, Rule!MoverIsAlone, Rule!Moving
<1>3. op[w] \in [pc : {"inserting", "inserted"}, transfer : Transfers, reference : References, attempt : Nat, at : Nat]
        \cup [pc : {"asked", "moving"}, transfer : Transfers, to : Rule!Statuses, at : Nat]
  BY DEF Rule!TransfersInv, Rule!TypeOK, Rule!Creating, Rule!Moving, Rule!Idle
<1>4. /\ op[w].transfer \in Transfers /\ op[w].at \in Nat
      /\ Rule!Moving(w) => op[w].to \in Rule!Statuses
  BY <1>3 DEF Rule!Moving
<1>5. \A t \in Transfers : row[t] = Nothing => moves[t] = <<>>
  BY DEF Rule!TransfersInv, Rule!CreatorIsAlone
<1> QED
  BY <1>1, <1>2, <1>4, <1>5 DEF Rule!TransfersInv, Rule!CreatorIsAlone, Rule!MoverIsAlone

LEMMA PendingIs ==
  ASSUME Rule!TransfersInv, NEW w \in Workers, Rule!Creating(w) \/ Rule!Moving(w)
  PROVE  Rule!PendingOf(op[w].transfer) = [status |-> IF Rule!Moving(w) THEN op[w].to ELSE "draft", at |-> op[w].at]
<1> DEFINE t == op[w].transfer
           under == {v \in Workers : op[v].pc \in {"inserting", "inserted", "moving"} /\ op[v].transfer = t}
<1>1. under # {} /\ (CHOOSE v \in under : TRUE) = w
  BY BusyAlone, OneUnderWay DEF Rule!Creating, Rule!Moving
<1> HIDE DEF t
<1>2. Rule!PendingOf(t) = [status |-> IF op[w].pc = "moving" THEN op[w].to ELSE "draft", at |-> op[w].at]
  BY <1>1 DEF Rule!PendingOf
<1> QED
  BY <1>2 DEF Rule!Moving, t

LEMMA PendingIsSome ==
  ASSUME Rule!TransfersInv, NEW w \in Workers, Rule!Creating(w) \/ Rule!Moving(w)
  PROVE  Rule!PendingOf(op[w].transfer) # Nothing
<1> DEFINE s == IF Rule!Moving(w) THEN op[w].to ELSE "draft"
<1>1. op[w].at \in Nat /\ s \in Rule!Statuses
  BY BusyAlone DEF Rule!Statuses
<1>2. Rule!PendingOf(op[w].transfer) = [status |-> s, at |-> op[w].at]
  BY PendingIs
<1> HIDE DEF s
<1>3. [status |-> s, at |-> op[w].at] \in [status : AnyStatus, at : Nat]
  BY <1>1, StatusesDiffer
<1> QED
  BY <1>2, <1>3, StatusesDiffer

(* What a step leaves w with is what w's transfer has under way after it,   *)
(* unless another worker has the transfer too.                              *)
LEMMA PendingBecomes ==
  ASSUME Rule!TransfersInv, NEW w \in Workers, NEW x, NEW t, t = x.transfer, op' = [op EXCEPT ![w] = x],
         x.pc \in {"inserting", "inserted", "moving"},
         \A v \in Workers \ {w} : Rule!Creating(v) \/ Rule!Moving(v) => op[v].transfer # t
  PROVE  Rule!PendingOf(t)' = [status |-> IF x.pc = "moving" THEN x.to ELSE "draft", at |-> x.at]
<1> DEFINE under == {v \in Workers : op'[v].pc \in {"inserting", "inserted", "moving"} /\ op'[v].transfer = t}
<1>1. op'[w] = x /\ \A v \in Workers \ {w} : op'[v] = op[v]
  BY DEF Rule!TransfersInv, Rule!TypeOK
<1>2. under # {} /\ (CHOOSE v \in under : TRUE) = w
  BY <1>1, OneUnderWay DEF Rule!Creating, Rule!Moving
<1>3. Rule!PendingOf(t)' = [status |-> IF op'[w].pc = "moving" THEN op'[w].to ELSE "draft", at |-> op'[w].at]
  <2>1. Rule!PendingOf(t)' = LET o == op'[CHOOSE v \in under : TRUE] IN
          IF under = {} THEN Nothing ELSE [status |-> IF o.pc = "moving" THEN o.to ELSE "draft", at |-> o.at]
    BY DEF Rule!PendingOf
  <2> HIDE DEF under
  <2> QED
    BY <1>2, <2>1
<1> QED
  BY <1>1, <1>3

LEMMA NothingPending ==
  ASSUME NEW t \in Transfers, \A v \in Workers : Rule!Creating(v) \/ Rule!Moving(v) => op[v].transfer # t
  PROVE  Rule!PendingOf(t) = Nothing
BY DEF Rule!PendingOf, Rule!Creating, Rule!Moving

(* A step of one worker changes what its own transfers have under way.      *)
LEMMA OthersPending ==
  ASSUME Rule!TransfersInv, NEW w \in Workers, NEW x, op' = [op EXCEPT ![w] = x],
         NEW s \in Transfers,
         (Rule!Creating(w) \/ Rule!Moving(w)) => op[w].transfer # s,
         x.pc \in {"inserting", "inserted", "moving"} => x.transfer # s
  PROVE  Rule!PendingOf(s)' = Rule!PendingOf(s)
<1> DEFINE Busy(v) == op[v].pc \in {"inserting", "inserted", "moving"} /\ op[v].transfer = s
           under == {v \in Workers : Busy(v)}
<1>1. op'[w] = x /\ \A v \in Workers \ {w} : op'[v] = op[v]
  BY DEF Rule!TransfersInv, Rule!TypeOK
<1>2. ~Busy(w) /\ ~Busy(w)'
  BY <1>1 DEF Rule!Creating, Rule!Moving
<1>3. under' = under /\ w \notin under
  BY <1>1, <1>2
<1>4. under # {} => (CHOOSE v \in under : TRUE) \in Workers \ {w}
  BY <1>3
<1>5. under # {} => op'[CHOOSE v \in under : TRUE] = op[CHOOSE v \in under : TRUE]
  BY <1>1, <1>4
<1>6. Rule!PendingOf(s) = LET o == op[CHOOSE v \in under : TRUE] IN
        IF under = {} THEN Nothing ELSE [status |-> IF o.pc = "moving" THEN o.to ELSE "draft", at |-> o.at]
  BY DEF Rule!PendingOf
<1>7. Rule!PendingOf(s)' = LET o == op'[CHOOSE v \in under' : TRUE] IN
        IF under' = {} THEN Nothing ELSE [status |-> IF o.pc = "moving" THEN o.to ELSE "draft", at |-> o.at]
  BY DEF Rule!PendingOf
<1> HIDE DEF under
<1> QED
  BY <1>3, <1>5, <1>6, <1>7

(* The records of RecordHistory that a step of a worker leaves as they are, *)
(* or changes for the one transfer the worker has.                          *)
LEMMA RecordsStep ==
  ASSUME Rule!TransfersInv, Rule!TransfersInv', Rule!Next
  PROVE  [Rule!Records!Next]_(Rule!Records!rhVars)
<1>0. /\ op \in [Workers -> {Rule!Idle}
             \cup [pc : {"inserting", "inserted"}, transfer : Transfers, reference : References, attempt : Nat, at : Nat]
             \cup [pc : {"asked", "moving"}, transfer : Transfers, to : Rule!Statuses, at : Nat]]
      /\ moves \in [Transfers -> Seq([status : Rule!Statuses, at : Nat])]
  BY DEF Rule!TransfersInv, Rule!TypeOK
<1>1. CASE Rule!Tick
  <2>1. Rule!Changing' = Rule!Changing
    BY <1>1 DEF Rule!Tick, Rule!Changing, Rule!PendingOf
  <2> QED
    BY <1>1, <2>1 DEF Rule!Tick, Rule!Records!Next, Rule!Records!Tick
\* A step that changes nothing that is under way.
<1>2. ASSUME UNCHANGED <<trClock, moves>>, \A s \in Transfers : Rule!PendingOf(s)' = Rule!PendingOf(s)
      PROVE  UNCHANGED Rule!Records!rhVars
  BY <1>2 DEF Rule!Changing, Rule!Records!rhVars
<1>3. ASSUME NEW t \in Transfers, \A s \in Transfers \ {t} : Rule!PendingOf(s)' = Rule!PendingOf(s),
             NEW y, Rule!PendingOf(t)' = y
      PROVE  Rule!Changing' = [Rule!Changing EXCEPT ![t] = y]
  BY <1>3 DEF Rule!Changing
<1>4. ASSUME NEW t \in Transfers, NEW to, <<Rule!Records!LastStatus(moves[t]), to>> \in Rule!TransferMoves,
             Rule!PendingOf(t) = Nothing \/ moves[t] = <<>>,
             UNCHANGED <<trClock, moves>>,
             \A s \in Transfers \ {t} : Rule!PendingOf(s)' = Rule!PendingOf(s),
             Rule!PendingOf(t)' = [status |-> to, at |-> trClock]
      PROVE  [Rule!Records!Next]_(Rule!Records!rhVars)
  <2> DEFINE y == [status |-> to, at |-> trClock]
  <2>1. Rule!Changing' = [Rule!Changing EXCEPT ![t] = y]
    BY <1>3, <1>4
  <2>2. Rule!Changing[t] = Rule!PendingOf(t)
    BY DEF Rule!Changing
  <2>3. Rule!Records!Stamped(t, to)
    BY <1>4, <2>1, <2>2 DEF Rule!Records!Stamped
  <2>4. \E m \in Rule!TransferMoves : Rule!Records!Stamped(t, m[2])
    BY <1>4, <2>3
  <2>5. Rule!Changing' = Rule!Changing => UNCHANGED Rule!Records!rhVars
    BY <1>4 DEF Rule!Records!rhVars
  <2> QED
    BY <2>4, <2>5 DEF Rule!Records!Next
<1>5. ASSUME NEW t \in Transfers, Rule!PendingOf(t) # Nothing,
             \A s \in Transfers \ {t} : Rule!PendingOf(s)' = Rule!PendingOf(s),
             Rule!PendingOf(t)' = Nothing, trClock' = trClock,
             moves' = moves \/ moves' = [moves EXCEPT ![t] = Append(@, Rule!PendingOf(t))]
      PROVE  Rule!Records!Next
  <2>1. Rule!Changing' = [Rule!Changing EXCEPT ![t] = Nothing]
    BY <1>3, <1>5
  <2>2. Rule!Changing[t] = Rule!PendingOf(t) /\ Rule!Changing'[t] = Nothing
    BY <1>5 DEF Rule!Changing
  <2>3. Rule!Records!Committed(t) \/ Rule!Records!Abandoned(t)
    BY <1>5, <2>1, <2>2 DEF Rule!Records!Committed, Rule!Records!Abandoned
  <2>4. Rule!Changing' # Rule!Changing
    BY <1>5, <2>2
  <2> QED
    BY <2>3, <2>4 DEF Rule!Records!Next
<1>6. ASSUME NEW w \in Workers, op' = [op EXCEPT ![w] = Rule!Idle], UNCHANGED <<trClock, moves>>
      PROVE  [Rule!Records!Next]_(Rule!Records!rhVars)
  <2>1. op'[w] = Rule!Idle /\ \A v \in Workers \ {w} : op'[v] = op[v]
    BY <1>0, <1>6
  <2>2. \A s \in Transfers : (Rule!Creating(w) \/ Rule!Moving(w) => op[w].transfer # s) =>
                              Rule!PendingOf(s)' = Rule!PendingOf(s)
    <3>1. Rule!Idle.pc \notin {"inserting", "inserted", "moving"}
      BY DEF Rule!Idle
    <3> QED
      BY <1>6, <3>1, OthersPending
  <2>3. CASE Rule!Creating(w) \/ Rule!Moving(w)
    <3> DEFINE t == op[w].transfer
    <3>1. t \in Transfers /\ \A v \in Workers : (Rule!Creating(v) \/ Rule!Moving(v)) /\ op[v].transfer = t => v = w
      BY <2>3, BusyAlone
    <3>2. Rule!PendingOf(t) # Nothing
      BY <2>3, PendingIsSome
    <3>3. PICK u \in Transfers : u = t
      BY <3>1
    <3>4. \A v \in Workers : ~(op'[v].pc \in {"inserting", "inserted", "moving"} /\ op'[v].transfer = u)
      BY <2>1, <3>1, <3>3 DEF Rule!Creating, Rule!Moving, Rule!Idle
    <3>5. Rule!PendingOf(u)' = Nothing
      BY <3>4 DEF Rule!PendingOf
    <3>6. \A s \in Transfers \ {u} : Rule!PendingOf(s)' = Rule!PendingOf(s)
      BY <2>2, <3>3
    <3> QED
      BY <1>5, <1>6, <3>2, <3>3, <3>5, <3>6
  <2>4. CASE ~(Rule!Creating(w) \/ Rule!Moving(w))
    BY <1>2, <1>6, <2>2, <2>4
  <2> QED
    BY <2>3, <2>4
<1>7. ASSUME NEW w \in Workers, NEW t \in Transfers, NEW required, NEW identified, Rule!Create(w, t, required, identified)
      PROVE  [Rule!Records!Next]_(Rule!Records!rhVars)
  <2>1. PICK r \in References : op' = [op EXCEPT ![w] = [pc |-> "inserting", transfer |-> t, reference |-> r,
                                                        attempt |-> 1, at |-> trClock]]
    BY <1>7 DEF Rule!Create
  <2> DEFINE x == [pc |-> "inserting", transfer |-> t, reference |-> r, attempt |-> 1, at |-> trClock]
  <2>2. /\ UNCHANGED <<trClock, row, moves>> /\ row[t] = Nothing /\ op[w].pc = "idle"
        /\ \A v \in Workers : Rule!Creating(v) => op[v].transfer # t
    BY <1>7 DEF Rule!Create, Rule!Requested, Rule!Creating
  <2>3. \A v \in Workers : Rule!Creating(v) \/ Rule!Moving(v) => op[v].transfer # t
    BY <2>2, BusyAlone
  <2>4. /\ op' = [op EXCEPT ![w] = x] /\ x.pc = "inserting" /\ x.transfer = t /\ x.at = trClock
        /\ ~Rule!Creating(w) /\ ~Rule!Moving(w)
    BY <2>1, <2>2 DEF Rule!Creating, Rule!Moving
  <2> HIDE DEF x
  <2>5. \A s \in Transfers \ {t} : Rule!PendingOf(s)' = Rule!PendingOf(s)
    BY <2>4, OthersPending
  <2>6. Rule!PendingOf(t)' = [status |-> "draft", at |-> trClock]
    BY <2>3, <2>4, PendingBecomes
  <2>7. Rule!PendingOf(t) = Nothing
    BY <2>3, NothingPending
  <2>8. <<Rule!Records!LastStatus(moves[t]), "draft">> \in Rule!TransferMoves
    BY <2>2 DEF Rule!TransfersInv, Rule!CreatorIsAlone, Rule!Records!LastStatus, Rule!TransferMoves
  <2> QED
    BY <1>4, <2>2, <2>5, <2>6, <2>7, <2>8
<1>8. ASSUME NEW w \in Workers, Rule!Insert(w)
      PROVE  [Rule!Records!Next]_(Rule!Records!rhVars)
  <2> DEFINE x == [op[w] EXCEPT !.pc = "inserted"]
  <2>1. /\ op' = [op EXCEPT ![w] = x] /\ UNCHANGED <<trClock, row, moves>>
        /\ op[w].pc = "inserting" /\ Rule!Creating(w) /\ ~Rule!Moving(w)
    BY <1>8 DEF Rule!Insert, Rule!Creating, Rule!Moving
  <2>2. op[w] \in [pc : {"inserting", "inserted"}, transfer : Transfers, reference : References, attempt : Nat, at : Nat]
    BY <1>0, <2>1 DEF Rule!Idle
  <2>3. x.pc = "inserted" /\ x.at = op[w].at /\ x.transfer = op[w].transfer
    BY <2>2
  <2> HIDE DEF x
  <2>4. PICK t \in Transfers : t = op[w].transfer
    BY <2>1, BusyAlone
  <2>5. \A s \in Transfers \ {t} : Rule!PendingOf(s)' = Rule!PendingOf(s)
    BY <2>1, <2>3, <2>4, OthersPending
  <2>6. \A v \in Workers \ {w} : Rule!Creating(v) \/ Rule!Moving(v) => op[v].transfer # t
    BY <2>1, <2>4, BusyAlone
  <2>7. Rule!PendingOf(t)' = [status |-> "draft", at |-> op[w].at]
    BY <2>1, <2>3, <2>4, <2>6, PendingBecomes
  <2>8. Rule!PendingOf(t) = [status |-> "draft", at |-> op[w].at]
    BY <2>1, <2>4, PendingIs
  <2> QED
    BY <1>2, <2>1, <2>5, <2>7, <2>8
<1>9. ASSUME NEW w \in Workers, Rule!Collide(w)
      PROVE  [Rule!Records!Next]_(Rule!Records!rhVars)
  <2>1. UNCHANGED <<trClock, row, moves>> /\ op[w].pc = "inserting" /\ Rule!Creating(w)
    BY <1>9 DEF Rule!Collide, Rule!Creating
  <2>2. CASE Rule!Finish(w)
    BY <1>6, <2>1, <2>2 DEF Rule!Finish
  <2>3. ASSUME NEW r \in References, op' = [op EXCEPT ![w].reference = r, ![w].attempt = @ + 1, ![w].at = trClock]
        PROVE  [Rule!Records!Next]_(Rule!Records!rhVars)
    <3>1. op[w] \in [pc : {"inserting", "inserted"}, transfer : Transfers, reference : References, attempt : Nat, at : Nat]
      BY <1>0, <2>1 DEF Rule!Idle
    <3> DEFINE x == [op[w] EXCEPT !.reference = r, !.attempt = @ + 1, !.at = trClock]
    <3>2. x.pc = "inserting" /\ x.at = trClock /\ x.transfer = op[w].transfer
      BY <2>1, <3>1
    <3>3. op' = [op EXCEPT ![w] = x]
      BY <1>0, <2>3, <3>1, SameCollision
    <3> HIDE DEF x
    <3>4. PICK t \in Transfers : t = op[w].transfer
      BY <2>1, BusyAlone
    <3>5. \A s \in Transfers \ {t} : Rule!PendingOf(s)' = Rule!PendingOf(s)
      BY <3>2, <3>3, <3>4, OthersPending
    <3>6. \A v \in Workers \ {w} : Rule!Creating(v) \/ Rule!Moving(v) => op[v].transfer # t
      BY <2>1, <3>4, BusyAlone
    <3>7. Rule!PendingOf(t)' = [status |-> "draft", at |-> trClock]
      BY <3>2, <3>3, <3>4, <3>6, PendingBecomes
    <3>8. moves[t] = <<>>
      BY <2>1, <3>4, BusyAlone
    <3>9. <<Rule!Records!LastStatus(moves[t]), "draft">> \in Rule!TransferMoves
      BY <3>8 DEF Rule!Records!LastStatus, Rule!TransferMoves
    <3> QED
      BY <1>4, <2>1, <3>5, <3>7, <3>8, <3>9
  <2> QED
    BY <1>9, <2>2, <2>3 DEF Rule!Collide
<1>10. ASSUME NEW w \in Workers, NEW t \in Transfers, NEW to \in Rule!Statuses, Rule!Ask(w, t, to)
      PROVE  [Rule!Records!Next]_(Rule!Records!rhVars)
  <2> DEFINE x == [pc |-> "asked", transfer |-> t, to |-> to, at |-> trClock]
  <2>1. /\ op' = [op EXCEPT ![w] = x] /\ UNCHANGED <<trClock, row, moves>> /\ x.pc = "asked"
        /\ ~Rule!Creating(w) /\ ~Rule!Moving(w)
    BY <1>10 DEF Rule!Ask, Rule!Creating, Rule!Moving
  <2> HIDE DEF x
  <2>2. \A s \in Transfers : Rule!PendingOf(s)' = Rule!PendingOf(s)
    BY <2>1, OthersPending
  <2> QED
    BY <1>2, <2>1, <2>2
<1>11. ASSUME NEW w \in Workers, Rule!Decide(w)
      PROVE  [Rule!Records!Next]_(Rule!Records!rhVars)
  <2>1. /\ UNCHANGED <<trClock, row, moves>> /\ op[w].pc = "asked" /\ Rule!Unlocked(op[w].transfer)
        /\ ~Rule!Creating(w) /\ ~Rule!Moving(w)
    BY <1>11 DEF Rule!Decide, Rule!Creating, Rule!Moving
  <2>2. op[w] \in [pc : {"asked", "moving"}, transfer : Transfers, to : Rule!Statuses, at : Nat]
    BY <1>0, <2>1 DEF Rule!Idle
  <2>3. PICK t \in Transfers : t = op[w].transfer
    BY <2>2
  <2>4. CASE Rule!Finish(w)
    BY <1>6, <2>1, <2>4 DEF Rule!Finish
  <2>5. ASSUME Rule!canTransition(row[t].status, op[w].to),
               op' = [op EXCEPT ![w] = [pc |-> "moving", transfer |-> t, to |-> op[w].to, at |-> trClock]]
        PROVE  [Rule!Records!Next]_(Rule!Records!rhVars)
    <3> DEFINE x == [pc |-> "moving", transfer |-> t, to |-> op[w].to, at |-> trClock]
    <3>1. /\ op' = [op EXCEPT ![w] = x] /\ x.pc = "moving" /\ x.transfer = t
          /\ x.to = op[w].to /\ x.at = trClock
      BY <2>5
    <3> HIDE DEF x
    <3>2. row[t] # Nothing
      BY <2>1, <2>3 DEF Rule!TransfersInv, Rule!MoverIsAlone
    <3>3. \A v \in Workers : Rule!Creating(v) \/ Rule!Moving(v) => op[v].transfer # t
      BY <2>1, <2>3, <3>2, BusyAlone DEF Rule!Unlocked, Rule!Moving
    <3>4. \A s \in Transfers \ {t} : Rule!PendingOf(s)' = Rule!PendingOf(s)
      BY <2>1, <3>1, OthersPending
    <3>5. Rule!PendingOf(t)' = [status |-> op[w].to, at |-> trClock]
      BY <3>1, <3>3, PendingBecomes
    <3>6. Rule!PendingOf(t) = Nothing
      BY <3>3, NothingPending
    <3>7. moves[t] # <<>> /\ moves[t][Len(moves[t])].status = row[t].status
      BY <3>2 DEF Rule!TransfersInv, Rule!HistoryIsALegalPath
    <3>8. row[t].status \in Rule!Statuses
      BY <3>2 DEF Rule!TransfersInv, Rule!TypeOK
    <3>9. <<Rule!Records!LastStatus(moves[t]), op[w].to>> \in Rule!TransferMoves
      BY <2>2, <2>5, <3>7, <3>8 DEF Rule!Records!LastStatus, Rule!TransferMoves
    <3> QED
      BY <1>4, <2>1, <3>4, <3>5, <3>6, <3>9
  <2> QED
    BY <1>11, <2>3, <2>4, <2>5 DEF Rule!Decide, Rule!Stamp
<1>12. ASSUME NEW w \in Workers, Rule!CommitCreate(w) \/ Rule!CommitMove(w)
      PROVE  [Rule!Records!Next]_(Rule!Records!rhVars)
  <2>1. /\ op' = [op EXCEPT ![w] = Rule!Idle] /\ trClock' = trClock
        /\ Rule!Creating(w) \/ Rule!Moving(w)
    BY <1>12 DEF Rule!CommitCreate, Rule!CommitMove, Rule!Finish, Rule!Creating, Rule!Moving
  <2>2. PICK t \in Transfers : t = op[w].transfer
    BY <2>1, BusyAlone
  <2>3. moves' = [moves EXCEPT ![t] = Append(@, Rule!PendingOf(t))]
    <3>1. CASE Rule!CommitCreate(w)
      <4>1. moves' = [moves EXCEPT ![t] = <<[status |-> "draft", at |-> op[w].at]>>] /\ Rule!Creating(w) /\ ~Rule!Moving(w)
        BY <2>2, <3>1 DEF Rule!CommitCreate, Rule!Creating, Rule!Moving
      <4>2. Rule!PendingOf(t) = [status |-> "draft", at |-> op[w].at] /\ moves[t] = <<>>
        BY <2>2, <4>1, PendingIs, BusyAlone
      <4>3. Append(moves[t], Rule!PendingOf(t)) = <<[status |-> "draft", at |-> op[w].at]>>
        BY <4>2
      <4> QED
        BY <1>0, <4>1, <4>3
    <3>2. CASE Rule!CommitMove(w)
      <4>1. moves' = [moves EXCEPT ![t] = Append(@, [status |-> op[w].to, at |-> op[w].at])] /\ Rule!Moving(w)
        BY <2>2, <3>2 DEF Rule!CommitMove, Rule!Moving
      <4>2. Rule!PendingOf(t) = [status |-> op[w].to, at |-> op[w].at]
        BY <2>2, <4>1, PendingIs
      <4> QED
        BY <1>0, <4>1, <4>2
    <3> QED
      BY <1>12, <3>1, <3>2
  <2>4. op'[w] = Rule!Idle /\ \A v \in Workers \ {w} : op'[v] = op[v]
    BY <1>0, <2>1
  <2>5. \A v \in Workers : ~(op'[v].pc \in {"inserting", "inserted", "moving"} /\ op'[v].transfer = t)
    BY <2>1, <2>2, <2>4, BusyAlone DEF Rule!Creating, Rule!Moving, Rule!Idle
  <2>6. Rule!PendingOf(t)' = Nothing
    BY <2>5 DEF Rule!PendingOf
  <2>7. \A s \in Transfers \ {t} : Rule!PendingOf(s)' = Rule!PendingOf(s)
    <3>1. Rule!Idle.pc \notin {"inserting", "inserted", "moving"}
      BY DEF Rule!Idle
    <3> QED
      BY <2>1, <2>2, <3>1, OthersPending
  <2>8. Rule!PendingOf(t) # Nothing
    BY <2>1, <2>2, PendingIsSome
  <2> QED
    BY <1>5, <2>1, <2>3, <2>6, <2>7, <2>8
<1>13. ASSUME NEW w \in Workers, Rule!RollBack(w)
      PROVE  [Rule!Records!Next]_(Rule!Records!rhVars)
  BY <1>6, <1>13 DEF Rule!RollBack, Rule!Finish
<1> QED
  BY <1>1, <1>7, <1>8, <1>9, <1>10, <1>11, <1>12, <1>13 DEF Rule!Next, Rule!WorkerStep

LEMMA ServicesTransfers ==
  ServicesNext \/ UNCHANGED allVars => [Rule!Next]_(Rule!trVars)
BY DEF ServicesNext, allVars, transferVars, Rule!trVars

(* The events of a transfer are a legal path to its row's status, in the    *)
(* order of their stamps (create and transition in travel-rule.service.ts,  *)
(* whichever workers race for a transfer or a reference); and every step is *)
(* one RecordHistory allows, a change shown once, as it was stamped.        *)
THEOREM HistoriesAreSound == ServicesSpec => HistoryIsSound
<1>1. ServicesInit => Rule!Init
  BY DEF ServicesInit
<1>2. Rule!Init => Rule!TransfersInv
  BY RuleInit
<1>3. Rule!Init => Rule!Records!Init
  <2> SUFFICES ASSUME Rule!Init PROVE Rule!Records!Init
    OBVIOUS
  <2>1. Rule!Changing = [t \in Transfers |-> Nothing]
    BY DEF Rule!Init, Rule!Changing, Rule!PendingOf, Rule!Idle
  <2> QED
    BY <2>1 DEF Rule!Init, Rule!Records!Init
<1>4. Rule!TransfersInv /\ [ServicesNext]_allVars => Rule!TransfersInv'
  BY ServicesTransfers, TransfersStep
<1>5. Rule!TransfersInv /\ Rule!TransfersInv' /\ [ServicesNext]_allVars => [Rule!Records!Next]_(Rule!Records!rhVars)
  <2> SUFFICES ASSUME Rule!TransfersInv, Rule!TransfersInv', [ServicesNext]_allVars
               PROVE  [Rule!Records!Next]_(Rule!Records!rhVars)
    OBVIOUS
  <2>1. CASE UNCHANGED Rule!trVars
    BY <2>1 DEF Rule!trVars, Rule!Records!rhVars, Rule!Changing, Rule!PendingOf
  <2>2. CASE Rule!Next
    BY <2>2, RecordsStep
  <2> QED
    BY <2>1, <2>2, ServicesTransfers
<1>6. Rule!TransfersInv => (part = "transfers" => Rule!HistoryIsALegalPath /\ Rule!HistoryInOrder)
  BY DEF Rule!TransfersInv
<1> QED
  BY <1>1, <1>2, <1>3, <1>4, <1>5, <1>6, PTL
  DEF ServicesSpec, HistoryIsSound, Rule!KeepsRecords, Rule!Records!Spec

LEMMA SeqGrows ==
  ASSUME NEW S, NEW r, NEW s \in Seq(S)
  PROVE  s \in Seq(S \cup {r})
OBVIOUS

-----------------------------------------------------------------------------
(* The audit report.  First what holds of one history that grows.           *)

LEMMA AuditStatuses ==
  /\ \A c \in Audit!AlertChanges : c # Nothing /\ c.status # Nothing
  /\ \A c \in Audit!TransferChanges : c # Nothing /\ c.status # Nothing
<1>1. Audit!AlertStatuses \subseteq AnyStatus /\ Audit!TransferStatuses \subseteq AnyStatus
  BY DEF AnyStatus, Audit!TransferStatuses, Rule!Statuses
<1>2. /\ Audit!AlertChanges \subseteq [status : AnyStatus, at : Nat]
      /\ Audit!TransferChanges \subseteq [status : AnyStatus, at : Nat]
  BY <1>1 DEF Audit!AlertChanges, Audit!TransferChanges
<1>3. \A c \in [status : AnyStatus, at : Nat] : c.status \in AnyStatus
  OBVIOUS
<1> QED
  BY <1>2, <1>3, StatusesDiffer

LEMMA AuditNothing == Nothing \notin Audit!AlertStatuses \cup Audit!TransferStatuses
<1>1. Audit!AlertStatuses \subseteq AnyStatus /\ Audit!TransferStatuses \subseteq AnyStatus
  BY DEF AnyStatus, Audit!TransferStatuses, Rule!Statuses
<1> QED
  BY <1>1, StatusesDiffer

LEMMA GrowsInOrder ==
  ASSUME NEW S, NEW h \in Seq([status : S, at : Nat]), NEW c \in [status : S, at : Nat],
         NEW first, c # Nothing, Audit!InOrder(h, c, first)
  PROVE  Audit!InOrder(Append(h, c), Nothing, first)
<1> DEFINE g == Append(h, c)
           n == Len(h)
<1>1. /\ n \in Nat /\ DOMAIN h = 1..n /\ DOMAIN g = 1..(n + 1) /\ g[n + 1] = c
      /\ \A i \in 1..n : g[i] = h[i]
      /\ h = <<>> <=> n = 0
  BY Appended
<1>2. /\ \A i \in 1..n : h[i].at <= reportClock /\ h[i].at <= c.at
      /\ \A i, j \in 1..n : i < j => h[i].at <= h[j].at
      /\ h # <<>> => h[1].status = first
      /\ c.at <= reportClock /\ (h = <<>> => c.status = first)
  BY <1>1 DEF Audit!InOrder
<1> HIDE DEF g, n
<1>3. \A i \in DOMAIN g : g[i].at <= reportClock
  <2> SUFFICES ASSUME NEW i \in 1..(n + 1) PROVE g[i].at <= reportClock
    BY <1>1
  <2>1. i = n + 1 \/ i \in 1..n
    BY <1>1
  <2> QED
    BY <1>1, <1>2, <2>1
<1>4. \A i, j \in DOMAIN g : i < j => g[i].at <= g[j].at
  <2> SUFFICES ASSUME NEW i \in 1..(n + 1), NEW j \in 1..(n + 1), i < j PROVE g[i].at <= g[j].at
    BY <1>1
  <2>1. i \in 1..n /\ (j = n + 1 \/ j \in 1..n)
    BY <1>1
  <2> QED
    BY <1>1, <1>2, <2>1
<1>5. g[1].status = first
  <2>1. CASE n = 0
    BY <1>1, <1>2, <2>1
  <2>2. CASE n # 0
    <3>1. 1 \in 1..n /\ h # <<>>
      BY <1>1, <2>2
    <3> QED
      BY <1>1, <1>2, <3>1
  <2> QED
    BY <2>1, <2>2
<1> QED
  BY <1>3, <1>4, <1>5 DEF Audit!InOrder, g

LEMMA GrowsLast ==
  ASSUME NEW S, NEW h \in Seq([status : S, at : Nat]), NEW c \in [status : S, at : Nat],
         NEW s, Audit!LastBeforeEnd(h, s), NEW s2, s2 = IF c.at < PeriodEnd THEN c.status ELSE s
  PROVE  Audit!LastBeforeEnd(Append(h, c), s2)
<1> DEFINE g == Append(h, c)
           n == Len(h)
           old == {k \in DOMAIN h : h[k].at < PeriodEnd}
           new == {k \in DOMAIN g : g[k].at < PeriodEnd}
<1>1. /\ n \in Nat /\ DOMAIN h = 1..n /\ DOMAIN g = 1..(n + 1) /\ g[n + 1] = c
      /\ \A i \in 1..n : g[i] = h[i]
  BY Appended
<1> HIDE DEF g, n
<1>2. \A k \in 1..(n + 1) : k \in 1..n \/ k = n + 1
  BY <1>1
<1>3. \/ old = {} /\ s = Nothing
      \/ \E k \in old : s = h[k].status /\ \A j \in old : j <= k
  BY DEF Audit!LastBeforeEnd
<1>4. CASE c.at < PeriodEnd
  <2>1. n + 1 \in new /\ s2 = g[n + 1].status /\ \A k \in new : k <= n + 1
    BY <1>1, <1>4
  <2> QED
    BY <2>1 DEF Audit!LastBeforeEnd, g
<1>5. CASE ~(c.at < PeriodEnd)
  <2>1. new = old
    BY <1>1, <1>2, <1>5
  <2>2. \A k \in old : g[k].status = h[k].status
    BY <1>1
  <2>3. s2 = s
    BY <1>5
  <2> HIDE DEF old, new
  <2>4. \/ new = {} /\ s2 = Nothing
        \/ \E k \in new : s2 = g[k].status /\ \A j \in new : j <= k
    BY <1>3, <2>1, <2>2, <2>3
  <2> QED
    BY <2>4 DEF Audit!LastBeforeEnd, new, g
<1> QED
  BY <1>4, <1>5

(* The closes of an alert, as its history grows.                            *)
ClosesOf(h) == {n \in {k \in 2..Len(h) : h[k].at < PeriodEnd} :
                  /\ h[n].at >= PeriodStart /\ h[n].status = "closed" /\ h[n - 1].status # "closed"}

LEMMA ClosesGrow ==
  ASSUME NEW h \in Seq(Audit!AlertChanges), NEW c \in Audit!AlertChanges,
         h = <<>> => c.status = "open"
  PROVE  /\ ClosesOf(Append(h, c)) =
               IF /\ PeriodStart <= c.at /\ c.at < PeriodEnd /\ c.status = "closed"
                  /\ (IF h = <<>> THEN Nothing ELSE h[Len(h)].status) # "closed"
               THEN ClosesOf(h) \cup {Len(h) + 1} ELSE ClosesOf(h)
         /\ ClosesOf(h) \subseteq 1..Len(h) /\ Len(h) \in Nat
<1> DEFINE g == Append(h, c)
           n == Len(h)
           counts == /\ PeriodStart <= c.at /\ c.at < PeriodEnd /\ c.status = "closed"
                     /\ (IF h = <<>> THEN Nothing ELSE h[n].status) # "closed"
<1>1. /\ n \in Nat /\ DOMAIN h = 1..n /\ DOMAIN g = 1..(n + 1) /\ g[n + 1] = c /\ Len(g) = n + 1
      /\ \A i \in 1..n : g[i] = h[i]
      /\ h = <<>> <=> n = 0
  BY Appended
<1>2. c.at \in Nat /\ \A i \in 1..n : h[i].at \in Nat
  <2>1. \A i \in 1..n : h[i] \in Audit!AlertChanges
    BY <1>1, InRange
  <2> QED
    BY <2>1 DEF Audit!AlertChanges
<1> HIDE DEF g, n
<1>3. ClosesOf(h) \subseteq 1..n
  BY <1>1 DEF ClosesOf, n
<1>4. \A k \in 2..n : k \in ClosesOf(g) <=> k \in ClosesOf(h)
  <2> SUFFICES ASSUME NEW k \in 2..n PROVE k \in ClosesOf(g) <=> k \in ClosesOf(h)
    OBVIOUS
  <2>1. k \in 1..n /\ k - 1 \in 1..n /\ k \in 2..(n + 1)
    BY <1>1
  <2>2. g[k] = h[k] /\ g[k - 1] = h[k - 1]
    BY <1>1, <2>1
  <2> QED
    BY <1>1, <2>1, <2>2 DEF ClosesOf, n
<1>5. n + 1 \in ClosesOf(g) <=> counts
  <2>1. CASE n = 0
    BY <1>1, <2>1 DEF ClosesOf
  <2>2. CASE n # 0
    <3>1. n + 1 \in 2..(n + 1) /\ (n + 1) - 1 = n /\ n \in 1..n /\ h # <<>>
      BY <1>1, <2>2
    <3>2. g[(n + 1) - 1] = h[n]
      BY <1>1, <3>1
    <3> QED
      BY <1>1, <1>2, <3>1, <3>2, ReportAssumption DEF ClosesOf
  <2> QED
    BY <2>1, <2>2
<1>6. ClosesOf(g) \subseteq 2..(n + 1) /\ ClosesOf(h) \subseteq 2..n
  BY <1>1 DEF ClosesOf, n
<1>7. \A k \in 2..(n + 1) : k \in 2..n \/ k = n + 1
  BY <1>1
<1>8. ClosesOf(g) = IF counts THEN ClosesOf(h) \cup {n + 1} ELSE ClosesOf(h)
  <2>1. n + 1 \notin ClosesOf(h)
    BY <1>1, <1>6
  <2>2. 2..n \subseteq 2..(n + 1)
    BY <1>1
  <2> HIDE DEF counts
  <2> QED
    BY <1>4, <1>5, <1>6, <1>7, <2>1, <2>2
<1> QED
  BY <1>1, <1>3, <1>8 DEF g, n

(* AuditReport counts as FiniteSets does.                                   *)
LEMMA Counting ==
  ASSUME NEW S
  PROVE  (Audit!IsFiniteSet(S) <=> IsFiniteSet(S)) /\ Audit!Cardinality(S) = Cardinality(S)
<1>1. Audit!IsFiniteSet(S) <=> IsFiniteSet(S)
  BY DEF Audit!IsFiniteSet, IsFiniteSet
<1>2. Audit!Cardinality(S) = Cardinality(S)
  BY DEF Audit!Cardinality, Cardinality
<1> QED
  BY <1>1, <1>2

-----------------------------------------------------------------------------
(* ReportInv, one part at a time.                                           *)

LEMMA ReportInit == Audit!Init => Audit!ReportInv
<1> SUFFICES ASSUME Audit!Init PROVE Audit!ReportInv
  OBVIOUS
<1> USE DEF Audit!Init, Audit!A!Init, Audit!T!Init
<1>1. Audit!TypeOK
  BY DEF Audit!TypeOK
<1>2. Audit!HistoriesAreKept
  BY DEF Audit!HistoriesAreKept, Audit!InOrder, Audit!LastBeforeEnd
<1>3. \A a \in Alerts : Audit!Closes(a) = {}
  BY DEF Audit!Closes, Audit!Updates
<1>4. Audit!ClosesAreCounted
  <2> DEFINE closes == UNION {{a} \X Audit!Closes(a) : a \in Alerts}
  <2>1. closes = {}
    <3> SUFFICES ASSUME NEW p \in closes PROVE FALSE
      OBVIOUS
    <3>1. PICK a \in Alerts : p \in {a} \X Audit!Closes(a)
      OBVIOUS
    <3> QED
      BY <1>3, <3>1
  <2>2. IsFiniteSet(closes) /\ Cardinality(closes) = 0
    BY <2>1, FS_EmptySet
  <2>3. Audit!IsFiniteSet(closes) /\ closings = Audit!Cardinality(closes)
    BY <2>2, Counting
  <2> QED
    BY <1>3, <2>3 DEF Audit!ClosesAreCounted
<1>5. Audit!ReportSoFar /\ Audit!ReportsStayTrue
  BY DEF Audit!ReportSoFar, Audit!ReportsStayTrue
<1> QED
  BY <1>1, <1>2, <1>4, <1>5 DEF Audit!ReportInv

(* What a step may do to the histories of the alerts: nothing, or add the   *)
(* change under way of one of them.                                         *)
LEMMA AlertHistories ==
  ASSUME Audit!TypeOK, NEW a \in Alerts, Audit!A!Committed(a)
  PROVE  /\ alertChange[a] \in Audit!AlertChanges /\ alertRows[a] \in Seq(Audit!AlertChanges)
         /\ alertRows' = [alertRows EXCEPT ![a] = Append(alertRows[a], alertChange[a])]
         /\ alertRows'[a] = Append(alertRows[a], alertChange[a])
         /\ \A b \in Alerts \ {a} : alertRows'[b] = alertRows[b] /\ alertChange'[b] = alertChange[b]
         /\ alertChange'[a] = Nothing /\ alertChange[a] # Nothing
         /\ alertRows' \in [Alerts -> Seq(Audit!AlertChanges)]
         /\ alertChange' \in [Alerts -> Audit!AlertChanges \cup {Nothing}]
<1>1. /\ alertRows \in [Alerts -> Seq(Audit!AlertChanges)]
      /\ alertChange \in [Alerts -> Audit!AlertChanges \cup {Nothing}]
      /\ alertChange[a] # Nothing
      /\ alertRows' = [alertRows EXCEPT ![a] = Append(alertRows[a], alertChange[a])]
      /\ alertChange' = [alertChange EXCEPT ![a] = Nothing]
  BY DEF Audit!TypeOK, Audit!A!Committed
<1>2. alertChange[a] \in Audit!AlertChanges
  BY <1>1
<1>3. Append(alertRows[a], alertChange[a]) \in Seq(Audit!AlertChanges)
  BY <1>1, <1>2, Appended
<1> QED
  BY <1>1, <1>2, <1>3

LEMMA TransferHistories ==
  ASSUME Audit!TypeOK, NEW t \in Listed, Audit!T!Committed(t)
  PROVE  /\ transferChange[t] \in Audit!TransferChanges /\ transfers[t] \in Seq(Audit!TransferChanges)
         /\ transfers' = [transfers EXCEPT ![t] = Append(transfers[t], transferChange[t])]
         /\ transfers'[t] = Append(transfers[t], transferChange[t])
         /\ \A b \in Listed \ {t} : transfers'[b] = transfers[b] /\ transferChange'[b] = transferChange[b]
         /\ transferChange'[t] = Nothing /\ transferChange[t] # Nothing
         /\ transfers' \in [Listed -> Seq(Audit!TransferChanges)]
         /\ transferChange' \in [Listed -> Audit!TransferChanges \cup {Nothing}]
<1>1. /\ transfers \in [Listed -> Seq(Audit!TransferChanges)]
      /\ transferChange \in [Listed -> Audit!TransferChanges \cup {Nothing}]
      /\ transferChange[t] # Nothing
      /\ transfers' = [transfers EXCEPT ![t] = Append(transfers[t], transferChange[t])]
      /\ transferChange' = [transferChange EXCEPT ![t] = Nothing]
  BY DEF Audit!TypeOK, Audit!T!Committed
<1>2. transferChange[t] \in Audit!TransferChanges
  BY <1>1
<1>3. Append(transfers[t], transferChange[t]) \in Seq(Audit!TransferChanges)
  BY <1>1, <1>2, Appended
<1> QED
  BY <1>1, <1>2, <1>3

LEMMA ReportTypes ==
  ASSUME Audit!TypeOK, Audit!Next
  PROVE  Audit!TypeOK'
<1>0. /\ reportClock \in Nat /\ closings \in Nat
      /\ alertRows \in [Alerts -> Seq(Audit!AlertChanges)] /\ alertChange \in [Alerts -> Audit!AlertChanges \cup {Nothing}]
      /\ transfers \in [Listed -> Seq(Audit!TransferChanges)]
      /\ transferChange \in [Listed -> Audit!TransferChanges \cup {Nothing}]
      /\ asOf \in [Alerts \cup Listed -> Audit!AlertStatuses \cup Audit!TransferStatuses \cup {Nothing}]
  BY DEF Audit!TypeOK
<1> DEFINE shape(r) == /\ DOMAIN r = {"pc", "sound", "seen", "openAtEnd", "closed", "decidedAfter", "listed"}
                       /\ r.pc \in {"alerts", "trail", "transfers", "events"} /\ r.sound \in BOOLEAN
<1>1. report # Nothing => shape(report)
  BY DEF Audit!TypeOK
<1>2. CASE Audit!Tick
  BY <1>0, <1>1, <1>2 DEF Audit!TypeOK, Audit!Tick, Audit!A!Tick
<1>3. ASSUME NEW a \in Alerts, Audit!ChangeAlert(a) PROVE Audit!TypeOK'
  <2>1. PICK s \in Audit!AlertStatuses : Audit!A!Stamped(a, s)
    BY <1>3 DEF Audit!ChangeAlert
  <2>2. [status |-> s, at |-> reportClock] \in Audit!AlertChanges
    BY <1>0 DEF Audit!AlertChanges
  <2>3. alertChange' \in [Alerts -> Audit!AlertChanges \cup {Nothing}]
    BY <1>0, <2>1, <2>2 DEF Audit!A!Stamped
  <2> QED
    BY <1>0, <1>1, <1>3, <2>1, <2>3
    DEF Audit!TypeOK, Audit!ChangeAlert, Audit!A!Stamped, Audit!transferVars, Audit!reportVars, Audit!ghostVars
<1>4. ASSUME NEW a \in Alerts, Audit!AlertCommits(a) PROVE Audit!TypeOK'
  <2>1. Audit!A!Committed(a) /\ UNCHANGED <<reportClock, transfers, transferChange, report, reports>>
    BY <1>4 DEF Audit!AlertCommits, Audit!A!Committed, Audit!transferVars, Audit!reportVars
  <2>2. /\ alertChange[a] \in Audit!AlertChanges
        /\ alertRows' \in [Alerts -> Seq(Audit!AlertChanges)]
        /\ alertChange' \in [Alerts -> Audit!AlertChanges \cup {Nothing}]
    BY <2>1, AlertHistories
  <2>3. alertChange[a].status \in Audit!AlertStatuses
    BY <2>2 DEF Audit!AlertChanges
  <2>4. asOf' = [asOf EXCEPT ![a] = alertChange[a].status] \/ asOf' = asOf
    BY <1>4 DEF Audit!AlertCommits
  <2>5. asOf' \in [Alerts \cup Listed -> Audit!AlertStatuses \cup Audit!TransferStatuses \cup {Nothing}]
    BY <1>0, <2>3, <2>4
  <2>6. closings' \in Nat
    BY <1>0, <1>4 DEF Audit!AlertCommits
  <2> QED
    BY <1>0, <1>1, <2>1, <2>2, <2>5, <2>6 DEF Audit!TypeOK
<1>5. ASSUME NEW a \in Alerts, Audit!AlertAbandoned(a) PROVE Audit!TypeOK'
  <2>1. alertChange' \in [Alerts -> Audit!AlertChanges \cup {Nothing}]
    BY <1>0, <1>5 DEF Audit!AlertAbandoned, Audit!A!Abandoned
  <2> QED
    BY <1>0, <1>1, <1>5, <2>1
    DEF Audit!TypeOK, Audit!AlertAbandoned, Audit!A!Abandoned, Audit!transferVars, Audit!reportVars, Audit!ghostVars
<1>6. ASSUME NEW t \in Listed, Audit!ChangeTransfer(t) PROVE Audit!TypeOK'
  <2>1. PICK m \in Audit!TransferMoves : Audit!T!Stamped(t, m[2])
    BY <1>6 DEF Audit!ChangeTransfer
  <2>2. m[2] \in Audit!TransferStatuses
    BY DEF Audit!TransferMoves, Audit!TransferStatuses
  <2>3. [status |-> m[2], at |-> reportClock] \in Audit!TransferChanges
    BY <1>0, <2>2 DEF Audit!TransferChanges
  <2>4. transferChange' \in [Listed -> Audit!TransferChanges \cup {Nothing}]
    BY <1>0, <2>1, <2>3 DEF Audit!T!Stamped
  <2> QED
    BY <1>0, <1>1, <1>6, <2>1, <2>4
    DEF Audit!TypeOK, Audit!ChangeTransfer, Audit!T!Stamped, Audit!alertVars, Audit!reportVars, Audit!ghostVars
<1>7. ASSUME NEW t \in Listed, Audit!TransferCommits(t) PROVE Audit!TypeOK'
  <2>1. Audit!T!Committed(t) /\ UNCHANGED <<reportClock, alertRows, alertChange, report, reports, closings>>
    BY <1>7 DEF Audit!TransferCommits, Audit!T!Committed, Audit!alertVars, Audit!reportVars
  <2>2. /\ transferChange[t] \in Audit!TransferChanges
        /\ transfers' \in [Listed -> Seq(Audit!TransferChanges)]
        /\ transferChange' \in [Listed -> Audit!TransferChanges \cup {Nothing}]
    BY <2>1, TransferHistories
  <2>3. transferChange[t].status \in Audit!TransferStatuses
    BY <2>2 DEF Audit!TransferChanges
  <2>4. asOf' = [asOf EXCEPT ![t] = transferChange[t].status] \/ asOf' = asOf
    BY <1>7 DEF Audit!TransferCommits
  <2>5. asOf' \in [Alerts \cup Listed -> Audit!AlertStatuses \cup Audit!TransferStatuses \cup {Nothing}]
    BY <1>0, <2>3, <2>4
  <2> QED
    BY <1>0, <1>1, <2>1, <2>2, <2>5 DEF Audit!TypeOK
<1>8. ASSUME NEW t \in Listed, Audit!TransferAbandoned(t) PROVE Audit!TypeOK'
  <2>1. transferChange' \in [Listed -> Audit!TransferChanges \cup {Nothing}]
    BY <1>0, <1>8 DEF Audit!TransferAbandoned, Audit!T!Abandoned
  <2> QED
    BY <1>0, <1>1, <1>8, <2>1
    DEF Audit!TypeOK, Audit!TransferAbandoned, Audit!T!Abandoned, Audit!alertVars, Audit!reportVars, Audit!ghostVars
<1>9. ASSUME UNCHANGED <<reportClock, alertRows, alertChange, transfers, transferChange, asOf, closings>>,
             report' # Nothing => shape(report')
      PROVE  Audit!TypeOK'
  BY <1>0, <1>9 DEF Audit!TypeOK
<1>10. CASE Audit!Begin
  <2>1. report' # Nothing => shape(report')
    BY <1>10 DEF Audit!Begin
  <2> HIDE DEF shape
  <2> QED
    BY <1>9, <1>10, <2>1 DEF Audit!Begin, Audit!alertVars, Audit!transferVars, Audit!ghostVars
<1>11. CASE Audit!ReadAlerts
  <2>1. shape(report')
    BY <1>1, <1>11 DEF Audit!ReadAlerts
  <2> HIDE DEF shape
  <2> QED
    BY <1>9, <1>11, <2>1 DEF Audit!ReadAlerts, Audit!alertVars, Audit!transferVars, Audit!ghostVars
<1>12. CASE Audit!ReadTrail
  <2>1. shape(report')
    BY <1>1, <1>12 DEF Audit!ReadTrail
  <2> HIDE DEF shape
  <2> QED
    BY <1>9, <1>12, <2>1 DEF Audit!ReadTrail, Audit!alertVars, Audit!transferVars, Audit!ghostVars
<1>13. CASE Audit!ReadTransfers
  <2>1. shape(report')
    BY <1>1, <1>13 DEF Audit!ReadTransfers
  <2> HIDE DEF shape
  <2> QED
    BY <1>9, <1>13, <2>1 DEF Audit!ReadTransfers, Audit!alertVars, Audit!transferVars, Audit!ghostVars
<1>14. CASE Audit!ReadEvents
  BY <1>9, <1>14 DEF Audit!ReadEvents, Audit!alertVars, Audit!transferVars, Audit!ghostVars
<1> QED
  BY <1>2, <1>3, <1>4, <1>5, <1>6, <1>7, <1>8, <1>10, <1>11, <1>12, <1>13, <1>14 DEF Audit!Next

LEMMA HistoriesKept ==
  ASSUME Audit!TypeOK, Audit!HistoriesAreKept, Audit!Next
  PROVE  Audit!HistoriesAreKept'
<1>0. /\ reportClock \in Nat
      /\ alertRows \in [Alerts -> Seq(Audit!AlertChanges)] /\ alertChange \in [Alerts -> Audit!AlertChanges \cup {Nothing}]
      /\ transfers \in [Listed -> Seq(Audit!TransferChanges)]
      /\ transferChange \in [Listed -> Audit!TransferChanges \cup {Nothing}]
      /\ asOf \in [Alerts \cup Listed -> Audit!AlertStatuses \cup Audit!TransferStatuses \cup {Nothing}]
      /\ \A a \in Alerts : a \notin Listed
  BY ReportAssumption DEF Audit!TypeOK
<1>1. /\ \A a \in Alerts : Audit!InOrder(alertRows[a], alertChange[a], "open") /\ Audit!LastBeforeEnd(alertRows[a], asOf[a])
      /\ \A t \in Listed : Audit!InOrder(transfers[t], transferChange[t], "draft") /\ Audit!LastBeforeEnd(transfers[t], asOf[t])
  BY DEF Audit!HistoriesAreKept
\* The order of histories does not depend on whether their change has gone,
\* nor on how much later it is.
<1>2. ASSUME NEW h, NEW c, NEW first, Audit!InOrder(h, c, first)
      PROVE  Audit!InOrder(h, Nothing, first)
  BY <1>2 DEF Audit!InOrder
<1>3. ASSUME NEW h \in Seq(Audit!AlertChanges) \cup Seq(Audit!TransferChanges),
             NEW c \in Audit!AlertChanges \cup Audit!TransferChanges \cup {Nothing}, NEW first,
             Audit!InOrder(h, c, first), reportClock' \in Nat, reportClock <= reportClock'
      PROVE  Audit!InOrder(h, c, first)'
  <2>1. \A n \in DOMAIN h : h[n].at \in Nat
    <3> SUFFICES ASSUME NEW n \in DOMAIN h PROVE h[n].at \in Nat
      OBVIOUS
    <3>1. h[n] \in Audit!AlertChanges \/ h[n] \in Audit!TransferChanges
      BY <1>3, InRange
    <3> QED
      BY <3>1 DEF Audit!AlertChanges, Audit!TransferChanges
  <2>2. c # Nothing => c.at \in Nat
    BY <1>3 DEF Audit!AlertChanges, Audit!TransferChanges
  <2> QED
    BY <1>0, <1>3, <2>1, <2>2 DEF Audit!InOrder
<1>4. ASSUME NEW h, NEW c, NEW first, NEW to, Audit!InOrder(h, Nothing, first), h = <<>> => to = first,
             \A n \in DOMAIN h : h[n].at <= reportClock
      PROVE  Audit!InOrder(h, [status |-> to, at |-> reportClock], first)
  BY <1>0, <1>4 DEF Audit!InOrder
<1>5. ASSUME UNCHANGED <<alertRows, alertChange, transfers, transferChange, asOf>>, reportClock' \in Nat, reportClock <= reportClock'
      PROVE  Audit!HistoriesAreKept'
  <2>1. \A a \in Alerts : Audit!InOrder(alertRows[a], alertChange[a], "open")'
    BY <1>0, <1>1, <1>3, <1>5
  <2>2. \A t \in Listed : Audit!InOrder(transfers[t], transferChange[t], "draft")'
    BY <1>0, <1>1, <1>3, <1>5
  <2>3. /\ \A a \in Alerts : Audit!LastBeforeEnd(alertRows[a], asOf[a])'
        /\ \A t \in Listed : Audit!LastBeforeEnd(transfers[t], asOf[t])'
    BY <1>1, <1>5 DEF Audit!LastBeforeEnd
  <2> QED
    BY <2>1, <2>2, <2>3 DEF Audit!HistoriesAreKept
<1>6. CASE Audit!Tick
  BY <1>0, <1>5, <1>6 DEF Audit!Tick, Audit!A!Tick
<1>7. CASE Audit!Begin \/ Audit!ReadAlerts \/ Audit!ReadTrail \/ Audit!ReadTransfers \/ Audit!ReadEvents
  BY <1>0, <1>5, <1>7 DEF Audit!Begin, Audit!ReadAlerts, Audit!ReadTrail, Audit!ReadTransfers, Audit!ReadEvents,
       Audit!alertVars, Audit!transferVars, Audit!ghostVars
\* A step that concerns one alert.
<1>8. ASSUME NEW a \in Alerts, UNCHANGED <<reportClock, transfers, transferChange>>,
             \A b \in Alerts \ {a} : alertRows'[b] = alertRows[b] /\ alertChange'[b] = alertChange[b],
             \A i \in (Alerts \cup Listed) \ {a} : asOf'[i] = asOf[i],
             Audit!InOrder(alertRows'[a], alertChange'[a], "open"), Audit!LastBeforeEnd(alertRows'[a], asOf'[a])
      PROVE  Audit!HistoriesAreKept'
  <2>1. \A b \in Alerts : Audit!InOrder(alertRows'[b], alertChange'[b], "open") /\ Audit!LastBeforeEnd(alertRows'[b], asOf'[b])
    BY <1>1, <1>8
  <2>2. \A t \in Listed : Audit!InOrder(transfers'[t], transferChange'[t], "draft") /\ Audit!LastBeforeEnd(transfers'[t], asOf'[t])
    BY <1>0, <1>1, <1>8
  <2> QED
    BY <1>8, <2>1, <2>2 DEF Audit!HistoriesAreKept, Audit!InOrder, Audit!LastBeforeEnd
<1>9. ASSUME NEW t \in Listed, UNCHANGED <<reportClock, alertRows, alertChange>>,
             \A b \in Listed \ {t} : transfers'[b] = transfers[b] /\ transferChange'[b] = transferChange[b],
             \A i \in (Alerts \cup Listed) \ {t} : asOf'[i] = asOf[i],
             Audit!InOrder(transfers'[t], transferChange'[t], "draft"), Audit!LastBeforeEnd(transfers'[t], asOf'[t])
      PROVE  Audit!HistoriesAreKept'
  <2>1. \A b \in Listed : Audit!InOrder(transfers'[b], transferChange'[b], "draft") /\ Audit!LastBeforeEnd(transfers'[b], asOf'[b])
    BY <1>1, <1>9
  <2>2. \A a \in Alerts : Audit!InOrder(alertRows'[a], alertChange'[a], "open") /\ Audit!LastBeforeEnd(alertRows'[a], asOf'[a])
    BY <1>0, <1>1, <1>9
  <2> QED
    BY <1>9, <2>1, <2>2 DEF Audit!HistoriesAreKept, Audit!InOrder, Audit!LastBeforeEnd
<1>10. ASSUME NEW a \in Alerts, Audit!ChangeAlert(a) PROVE Audit!HistoriesAreKept'
  <2>1. PICK s \in Audit!AlertStatuses : Audit!A!Stamped(a, s)
    BY <1>10 DEF Audit!ChangeAlert
  <2>2. /\ UNCHANGED <<reportClock, alertRows, transfers, transferChange, asOf>>
        /\ alertChange' = [alertChange EXCEPT ![a] = [status |-> s, at |-> reportClock]]
        /\ <<Audit!A!LastStatus(alertRows[a]), s>> \in Audit!AlertMoves
    BY <1>10, <2>1 DEF Audit!ChangeAlert, Audit!A!Stamped, Audit!transferVars, Audit!ghostVars
  <2>3. alertRows[a] = <<>> => s = "open"
    BY <2>2, AuditNothing DEF Audit!A!LastStatus, Audit!AlertMoves
  <2>4. Audit!InOrder(alertRows[a], Nothing, "open") /\ \A n \in DOMAIN alertRows[a] : alertRows[a][n].at <= reportClock
    BY <1>1, <1>2 DEF Audit!InOrder
  <2>5. Audit!InOrder(alertRows[a], [status |-> s, at |-> reportClock], "open")
    BY <1>4, <2>3, <2>4
  <2>6. alertChange'[a] = [status |-> s, at |-> reportClock] /\ \A b \in Alerts \ {a} : alertChange'[b] = alertChange[b]
    BY <1>0, <2>2
  <2> QED
    BY <1>1, <1>8, <2>2, <2>5, <2>6
<1>11. ASSUME NEW a \in Alerts, Audit!AlertAbandoned(a) PROVE Audit!HistoriesAreKept'
  <2>1. /\ UNCHANGED <<reportClock, alertRows, transfers, transferChange, asOf>>
        /\ alertChange'[a] = Nothing /\ \A b \in Alerts \ {a} : alertChange'[b] = alertChange[b]
    BY <1>0, <1>11 DEF Audit!AlertAbandoned, Audit!A!Abandoned, Audit!transferVars, Audit!ghostVars
  <2>2. Audit!InOrder(alertRows[a], Nothing, "open")
    BY <1>1, <1>2
  <2> QED
    BY <1>1, <1>8, <2>1, <2>2
<1>12. ASSUME NEW a \in Alerts, Audit!AlertCommits(a) PROVE Audit!HistoriesAreKept'
  <2>1. Audit!A!Committed(a) /\ UNCHANGED <<reportClock, transfers, transferChange>>
    BY <1>12 DEF Audit!AlertCommits, Audit!A!Committed, Audit!transferVars
  <2>2. /\ alertChange[a] \in Audit!AlertChanges /\ alertRows[a] \in Seq(Audit!AlertChanges)
        /\ alertRows'[a] = Append(alertRows[a], alertChange[a])
        /\ \A b \in Alerts \ {a} : alertRows'[b] = alertRows[b] /\ alertChange'[b] = alertChange[b]
        /\ alertChange'[a] = Nothing /\ alertChange[a] # Nothing
    BY <2>1, AlertHistories
  <2>3. asOf' = IF alertChange[a].at < PeriodEnd THEN [asOf EXCEPT ![a] = alertChange[a].status] ELSE asOf
    BY <1>12 DEF Audit!AlertCommits
  <2>4. /\ asOf'[a] = IF alertChange[a].at < PeriodEnd THEN alertChange[a].status ELSE asOf[a]
        /\ \A i \in (Alerts \cup Listed) \ {a} : asOf'[i] = asOf[i]
    BY <1>0, <2>3
  <2>5. Audit!InOrder(alertRows'[a], Nothing, "open")
    BY <1>1, <2>2, GrowsInOrder DEF Audit!AlertChanges
  <2>6. Audit!LastBeforeEnd(alertRows'[a], asOf'[a])
    BY <1>1, <2>2, <2>4, GrowsLast DEF Audit!AlertChanges
  <2> QED
    BY <1>8, <2>1, <2>2, <2>4, <2>5, <2>6
<1>13. ASSUME NEW t \in Listed, Audit!ChangeTransfer(t) PROVE Audit!HistoriesAreKept'
  <2>1. PICK m \in Audit!TransferMoves : Audit!T!Stamped(t, m[2])
    BY <1>13 DEF Audit!ChangeTransfer
  <2>2. /\ UNCHANGED <<reportClock, transfers, alertRows, alertChange, asOf>>
        /\ transferChange' = [transferChange EXCEPT ![t] = [status |-> m[2], at |-> reportClock]]
        /\ <<Audit!T!LastStatus(transfers[t]), m[2]>> \in Audit!TransferMoves
    BY <1>13, <2>1 DEF Audit!ChangeTransfer, Audit!T!Stamped, Audit!alertVars, Audit!ghostVars
  <2>3. transfers[t] = <<>> => m[2] = "draft"
    BY <2>2, AuditNothing DEF Audit!T!LastStatus, Audit!TransferMoves, Audit!TransferStatuses
  <2>4. Audit!InOrder(transfers[t], Nothing, "draft") /\ \A n \in DOMAIN transfers[t] : transfers[t][n].at <= reportClock
    BY <1>1, <1>2 DEF Audit!InOrder
  <2>5. Audit!InOrder(transfers[t], [status |-> m[2], at |-> reportClock], "draft")
    BY <1>4, <2>3, <2>4
  <2>6. transferChange'[t] = [status |-> m[2], at |-> reportClock] /\ \A b \in Listed \ {t} : transferChange'[b] = transferChange[b]
    BY <1>0, <2>2
  <2> QED
    BY <1>1, <1>9, <2>2, <2>5, <2>6
<1>14. ASSUME NEW t \in Listed, Audit!TransferAbandoned(t) PROVE Audit!HistoriesAreKept'
  <2>1. /\ UNCHANGED <<reportClock, transfers, alertRows, alertChange, asOf>>
        /\ transferChange'[t] = Nothing /\ \A b \in Listed \ {t} : transferChange'[b] = transferChange[b]
    BY <1>0, <1>14 DEF Audit!TransferAbandoned, Audit!T!Abandoned, Audit!alertVars, Audit!ghostVars
  <2>2. Audit!InOrder(transfers[t], Nothing, "draft")
    BY <1>1, <1>2
  <2> QED
    BY <1>1, <1>9, <2>1, <2>2
<1>15. ASSUME NEW t \in Listed, Audit!TransferCommits(t) PROVE Audit!HistoriesAreKept'
  <2>1. Audit!T!Committed(t) /\ UNCHANGED <<reportClock, alertRows, alertChange>>
    BY <1>15 DEF Audit!TransferCommits, Audit!T!Committed, Audit!alertVars
  <2>2. /\ transferChange[t] \in Audit!TransferChanges /\ transfers[t] \in Seq(Audit!TransferChanges)
        /\ transfers'[t] = Append(transfers[t], transferChange[t])
        /\ \A b \in Listed \ {t} : transfers'[b] = transfers[b] /\ transferChange'[b] = transferChange[b]
        /\ transferChange'[t] = Nothing /\ transferChange[t] # Nothing
    BY <2>1, TransferHistories
  <2>3. asOf' = IF transferChange[t].at < PeriodEnd THEN [asOf EXCEPT ![t] = transferChange[t].status] ELSE asOf
    BY <1>15 DEF Audit!TransferCommits
  <2>4. /\ asOf'[t] = IF transferChange[t].at < PeriodEnd THEN transferChange[t].status ELSE asOf[t]
        /\ \A i \in (Alerts \cup Listed) \ {t} : asOf'[i] = asOf[i]
    BY <1>0, <2>3
  <2>5. Audit!InOrder(transfers'[t], Nothing, "draft")
    BY <1>1, <2>2, GrowsInOrder DEF Audit!TransferChanges
  <2>6. Audit!LastBeforeEnd(transfers'[t], asOf'[t])
    BY <1>1, <2>2, <2>4, GrowsLast DEF Audit!TransferChanges
  <2> QED
    BY <1>9, <2>1, <2>2, <2>4, <2>5, <2>6
<1> QED
  BY <1>6, <1>7, <1>10, <1>11, <1>12, <1>13, <1>14, <1>15 DEF Audit!Next

(* How often alerts were closed: one more with each close that commits.     *)
LEMMA ClosesOfAlert ==
  ASSUME NEW a \in Alerts
  PROVE  Audit!Closes(a) = ClosesOf(alertRows[a])
BY DEF Audit!Closes, Audit!Updates, ClosesOf

LEMMA ClosesOfAlertNext ==
  ASSUME NEW a \in Alerts
  PROVE  Audit!Closes(a)' = ClosesOf(alertRows'[a])
BY DEF Audit!Closes, Audit!Updates, ClosesOf

LEMMA ClosesCounted ==
  ASSUME Audit!TypeOK, Audit!HistoriesAreKept, Audit!ClosesAreCounted, Audit!Next
  PROVE  Audit!ClosesAreCounted'
<1>1. ASSUME UNCHANGED <<alertRows, closings>> PROVE Audit!ClosesAreCounted'
  <2>1. \A a \in Alerts : Audit!Closes(a)' = Audit!Closes(a)
    BY <1>1 DEF Audit!Closes, Audit!Updates
  <2>2. UNION {{a} \X Audit!Closes(a)' : a \in Alerts} = UNION {{a} \X Audit!Closes(a) : a \in Alerts}
    BY <2>1
  <2> QED
    BY <1>1, <2>1, <2>2 DEF Audit!ClosesAreCounted
<1>2. ASSUME NEW a \in Alerts, Audit!AlertCommits(a) PROVE Audit!ClosesAreCounted'
  <2> DEFINE h == alertRows[a]
             c == alertChange[a]
             n == Len(h)
             counts == /\ PeriodStart <= c.at /\ c.at < PeriodEnd /\ c.status = "closed"
                       /\ (IF h = <<>> THEN Nothing ELSE h[n].status) # "closed"
             old == UNION {{b} \X Audit!Closes(b) : b \in Alerts}
             new == UNION {{b} \X Audit!Closes(b)' : b \in Alerts}
  <2>1. /\ c \in Audit!AlertChanges /\ h \in Seq(Audit!AlertChanges)
        /\ alertRows'[a] = Append(h, c)
        /\ \A b \in Alerts \ {a} : alertRows'[b] = alertRows[b]
        /\ c # Nothing
    BY <1>2, AlertHistories DEF Audit!AlertCommits
  <2>2. h = <<>> => c.status = "open"
    BY <2>1 DEF Audit!HistoriesAreKept, Audit!InOrder
  <2>3. closings' = IF counts THEN closings + 1 ELSE closings
    BY <1>2 DEF Audit!AlertCommits, Audit!InPeriod, Audit!A!LastStatus
  <2>4. /\ Audit!Closes(a)' = IF counts THEN Audit!Closes(a) \cup {n + 1} ELSE Audit!Closes(a)
        /\ Audit!Closes(a) \subseteq 1..n /\ n \in Nat
    BY <2>1, <2>2, ClosesGrow, ClosesOfAlert, ClosesOfAlertNext
  <2>5. \A b \in Alerts \ {a} : Audit!Closes(b)' = Audit!Closes(b)
    BY <2>1, ClosesOfAlert, ClosesOfAlertNext
  <2>6. IsFiniteSet(old) /\ closings = Cardinality(old)
    <3>1. Audit!IsFiniteSet(old) /\ closings = Audit!Cardinality(old)
      BY DEF Audit!ClosesAreCounted
    <3> QED
      BY <3>1, Counting
  <2>7. \A b \in Alerts : Audit!Closes(b) # {} => \E k \in Audit!Closes(b) : \A l \in Audit!Closes(b) : k <= l
    BY DEF Audit!ClosesAreCounted
  <2>8. closings \in Nat
    BY DEF Audit!TypeOK
  <2> HIDE DEF counts, n, h, c
  <2>9. IsFiniteSet(new) /\ closings' = Cardinality(new)
    <3>1. CASE counts
      <4>1. new = old \cup {<<a, n + 1>>}
        <5>1. ASSUME NEW p \in new PROVE p \in old \cup {<<a, n + 1>>}
          <6>1. PICK b \in Alerts : p \in {b} \X Audit!Closes(b)'
            OBVIOUS
          <6>2. CASE b = a
            BY <2>4, <3>1, <6>1, <6>2
          <6>3. CASE b # a
            BY <2>5, <6>1, <6>3
          <6> QED
            BY <6>2, <6>3
        <5>2. ASSUME NEW p \in old PROVE p \in new
          <6>1. PICK b \in Alerts : p \in {b} \X Audit!Closes(b)
            OBVIOUS
          <6>2. Audit!Closes(b) \subseteq Audit!Closes(b)'
            BY <2>4, <2>5, <3>1
          <6> QED
            BY <6>1, <6>2
        <5>3. <<a, n + 1>> \in {a} \X Audit!Closes(a)'
          BY <2>4, <3>1
        <5> QED
          BY <5>1, <5>2, <5>3
      <4>2. <<a, n + 1>> \notin old
        <5> SUFFICES ASSUME <<a, n + 1>> \in old PROVE FALSE
          OBVIOUS
        <5>1. PICK b \in Alerts : <<a, n + 1>> \in {b} \X Audit!Closes(b)
          OBVIOUS
        <5>2. n + 1 \in Audit!Closes(a)
          BY <5>1
        <5> QED
          BY <2>4, <5>2
      <4> HIDE DEF old, new
      <4>3. IsFiniteSet(new) /\ Cardinality(new) = Cardinality(old) + 1
        BY <2>6, <4>1, <4>2, FS_AddElement
      <4> QED
        BY <2>3, <2>6, <3>1, <4>3
    <3>2. CASE ~counts
      <4>1. \A b \in Alerts : Audit!Closes(b)' = Audit!Closes(b)
        BY <2>4, <2>5, <3>2
      <4>2. new = old
        BY <4>1
      <4> HIDE DEF old, new
      <4> QED
        BY <2>3, <2>6, <3>2, <4>2
    <3> QED
      BY <3>1, <3>2
  <2>10. ASSUME NEW b \in Alerts, Audit!Closes(b)' # {}
         PROVE  \E k \in Audit!Closes(b)' : \A l \in Audit!Closes(b)' : k <= l
    <3>1. CASE Audit!Closes(b)' = Audit!Closes(b)
      BY <2>7, <2>10, <3>1
    <3>2. CASE b = a /\ Audit!Closes(a)' = Audit!Closes(a) \cup {n + 1}
      <4>1. CASE Audit!Closes(a) = {}
        BY <2>4, <3>2, <4>1
      <4>2. CASE Audit!Closes(a) # {}
        <5>1. PICK k \in Audit!Closes(a) : \A l \in Audit!Closes(a) : k <= l
          BY <2>7, <4>2
        <5>2. k <= n + 1
          BY <2>4
        <5> QED
          BY <3>2, <5>1, <5>2
      <4> QED
        BY <4>1, <4>2
    <3> QED
      BY <2>4, <2>5, <3>1, <3>2
  <2>11. Audit!IsFiniteSet(new) /\ closings' = Audit!Cardinality(new)
    BY <2>9, Counting
  <2> QED
    BY <2>10, <2>11 DEF Audit!ClosesAreCounted
<1>3. CASE Audit!Tick
  BY <1>1, <1>3 DEF Audit!Tick, Audit!A!Tick
<1>4. CASE Audit!Begin \/ Audit!ReadAlerts \/ Audit!ReadTrail \/ Audit!ReadTransfers \/ Audit!ReadEvents
  BY <1>1, <1>4 DEF Audit!Begin, Audit!ReadAlerts, Audit!ReadTrail, Audit!ReadTransfers, Audit!ReadEvents,
       Audit!alertVars, Audit!ghostVars
<1>5. ASSUME NEW a \in Alerts, Audit!ChangeAlert(a) \/ Audit!AlertAbandoned(a) PROVE UNCHANGED <<alertRows, closings>>
  BY <1>5 DEF Audit!ChangeAlert, Audit!AlertAbandoned, Audit!A!Stamped, Audit!A!Abandoned, Audit!ghostVars
<1>6. ASSUME NEW t \in Listed, Audit!ChangeTransfer(t) \/ Audit!TransferCommits(t) \/ Audit!TransferAbandoned(t)
      PROVE  UNCHANGED <<alertRows, closings>>
  BY <1>6 DEF Audit!ChangeTransfer, Audit!TransferCommits, Audit!TransferAbandoned, Audit!alertVars, Audit!ghostVars
<1> QED
  BY <1>1, <1>2, <1>3, <1>4, <1>5, <1>6 DEF Audit!Next

(* What the histories say of the end of the period is what was so.          *)
LEMMA EndOfAlert ==
  ASSUME Audit!TypeOK, Audit!HistoriesAreKept, NEW a \in Alerts
  PROVE  a \in Audit!SeenAtEnd /\ Audit!StatusAtEnd(a) # "closed" <=> asOf[a] \notin {Nothing, "closed"}
<1> DEFINE h == alertRows[a]
           before == {n \in DOMAIN h : h[n].at < PeriodEnd}
           U == Audit!Updates(a)
<1>1. h \in Seq(Audit!AlertChanges) /\ Len(h) \in Nat /\ DOMAIN h = 1..Len(h) /\ (h = <<>> <=> Len(h) = 0)
  BY DEF Audit!TypeOK
<1>2. /\ \A m, n \in DOMAIN h : m < n => h[m].at <= h[n].at
      /\ h # <<>> => h[1].status = "open"
      /\ \/ before = {} /\ asOf[a] = Nothing
         \/ \E n \in before : asOf[a] = h[n].status /\ \A k \in before : k <= n
  BY DEF Audit!HistoriesAreKept, Audit!InOrder, Audit!LastBeforeEnd
<1>3. \A n \in DOMAIN h : h[n].at \in Nat /\ h[n].status \in Audit!AlertStatuses
  <2>1. \A n \in DOMAIN h : h[n] \in Audit!AlertChanges
    BY <1>1, InRange
  <2> QED
    BY <2>1 DEF Audit!AlertChanges
<1>4. U = {n \in 2..Len(h) : h[n].at < PeriodEnd}
  BY DEF Audit!Updates
<1>5. a \in Audit!SeenAtEnd <=> h # <<>> /\ h[1].at < PeriodEnd
  BY DEF Audit!SeenAtEnd, Audit!Created
<1>6. Audit!StatusAtEnd(a) = IF U = {} THEN "open" ELSE h[CHOOSE n \in U : \A k \in U : k <= n].status
  BY DEF Audit!StatusAtEnd
<1> HIDE DEF h, U
<1>7. CASE before = {}
  <2>1. h # <<>> => ~(h[1].at < PeriodEnd)
    BY <1>1, <1>7
  <2>2. \A n \in before : FALSE
    BY <1>7
  <2> QED
    BY <1>2, <1>5, <1>7, <2>1, <2>2
<1>8. CASE before # {}
  <2>1. PICK n \in before : asOf[a] = h[n].status /\ \A k \in before : k <= n
    BY <1>2, <1>8
  <2>2. n \in 1..Len(h) /\ h # <<>> /\ 1 \in 1..Len(h)
    BY <1>1, <2>1
  <2>3. h[1].at < PeriodEnd
    <3>1. n = 1 \/ 1 < n
      BY <2>2
    <3>2. h[1].at <= h[n].at
      BY <1>1, <1>2, <1>3, <2>2, <3>1
    <3> QED
      BY <1>1, <1>3, <2>1, <2>2, <3>2, ReportAssumption
  <2>4. \A k : k \in U <=> k \in before /\ k # 1
    BY <1>1, <1>4
  <2>5. asOf[a] \notin {Nothing} /\ asOf[a] = h[n].status
    BY <1>1, <1>3, <2>1, <2>2, AuditNothing
  <2>6. Audit!StatusAtEnd(a) = h[n].status
    <3>1. CASE n = 1
      <4>1. U = {}
        <5> SUFFICES ASSUME NEW k \in U PROVE FALSE
          OBVIOUS
        <5> QED
          BY <1>4, <2>1, <2>4, <3>1
      <4> QED
        BY <1>2, <1>6, <2>2, <3>1, <4>1
    <3>2. CASE n # 1
      <4>1. n \in U /\ \A k \in U : k <= n
        BY <2>1, <2>4, <3>2
      <4>2. \A m \in U : (\A k \in U : k <= m) => m = n
        BY <1>1, <1>4, <4>1
      <4>3. (CHOOSE m \in U : \A k \in U : k <= m) = n
        BY <4>1, <4>2
      <4> QED
        BY <1>6, <4>1, <4>3
    <3> QED
      BY <3>1, <3>2
  <2> QED
    BY <1>5, <2>2, <2>3, <2>5, <2>6
<1> QED
  BY <1>7, <1>8

LEMMA EndOfTransfer ==
  ASSUME Audit!TypeOK, Audit!HistoriesAreKept, NEW t \in Listed, NEW S \in SUBSET Audit!TransferStatuses
  PROVE  t \in Audit!ListedAtEnd /\ Audit!TransferAtEnd(t) \in S
           <=> asOf[t] \in S /\ Audit!Created(transfers[t]) >= PeriodStart
<1> DEFINE h == transfers[t]
           before == {n \in 1..Len(h) : h[n].at < PeriodEnd}
<1>1. h \in Seq(Audit!TransferChanges) /\ Len(h) \in Nat /\ DOMAIN h = 1..Len(h) /\ (h = <<>> <=> Len(h) = 0)
  BY DEF Audit!TypeOK
<1>2. /\ \A m, n \in DOMAIN h : m < n => h[m].at <= h[n].at
      /\ \/ before = {} /\ asOf[t] = Nothing
         \/ \E n \in before : asOf[t] = h[n].status /\ \A k \in before : k <= n
  BY <1>1 DEF Audit!HistoriesAreKept, Audit!InOrder, Audit!LastBeforeEnd
<1>3. \A n \in DOMAIN h : h[n].at \in Nat
  <2>1. \A n \in DOMAIN h : h[n] \in Audit!TransferChanges
    BY <1>1, InRange
  <2> QED
    BY <2>1 DEF Audit!TransferChanges
<1>4. t \in Audit!ListedAtEnd <=> h # <<>> /\ PeriodStart <= h[1].at /\ h[1].at < PeriodEnd
  BY DEF Audit!ListedAtEnd, Audit!Created, Audit!InPeriod
<1>5. Audit!TransferAtEnd(t) = h[CHOOSE n \in before : \A k \in before : k <= n].status
  BY DEF Audit!TransferAtEnd
<1>6. Audit!Created(transfers[t]) = h[1].at
  BY DEF Audit!Created
<1> HIDE DEF h
<1>7. CASE before = {}
  <2>1. h # <<>> => ~(h[1].at < PeriodEnd)
    BY <1>1, <1>7
  <2>2. asOf[t] = Nothing
    BY <1>2, <1>7
  <2>3. asOf[t] \notin S
    BY <2>2, AuditNothing
  <2> QED
    BY <1>4, <2>1, <2>3
<1>8. CASE before # {}
  <2>1. PICK n \in before : asOf[t] = h[n].status /\ \A k \in before : k <= n
    BY <1>2, <1>8
  <2>2. n \in 1..Len(h) /\ h # <<>> /\ 1 \in 1..Len(h)
    BY <1>1, <2>1
  <2>3. h[1].at < PeriodEnd
    <3>1. n = 1 \/ 1 < n
      BY <2>2
    <3>2. h[1].at <= h[n].at
      BY <1>1, <1>2, <1>3, <2>2, <3>1
    <3> QED
      BY <1>1, <1>3, <2>1, <2>2, <3>2, ReportAssumption
  <2>4. \A m \in before : (\A k \in before : k <= m) => m = n
    BY <1>1, <2>1
  <2>5. (CHOOSE m \in before : \A k \in before : k <= m) = n
    BY <2>1, <2>4
  <2>6. h[1].at >= PeriodStart <=> PeriodStart <= h[1].at
    BY <1>1, <1>3, <2>2, ReportAssumption
  <2> QED
    BY <1>4, <1>5, <1>6, <2>1, <2>2, <2>3, <2>5, <2>6
<1> QED
  BY <1>7, <1>8

-----------------------------------------------------------------------------
(* Once the period is over and settled, nothing changes what is said of it. *)

LEMMA SettledAlert ==
  ASSUME Audit!TypeOK, Audit!ClosesAreCounted, NEW a \in Alerts,
         \/ alertRows'[a] = alertRows[a]
         \/ /\ alertChange[a] \in Audit!AlertChanges /\ alertChange[a].at >= PeriodEnd
            /\ alertRows'[a] = Append(alertRows[a], alertChange[a])
  PROVE  /\ (a \in Audit!SeenAtEnd)' <=> a \in Audit!SeenAtEnd
         /\ Audit!Closes(a)' = Audit!Closes(a)
         /\ a \in Audit!SeenAtEnd /\ Audit!Closes(a) # {} => Audit!TimeToClose(a)' = Audit!TimeToClose(a)
<1> DEFINE h == alertRows[a]
           c == alertChange[a]
           g == alertRows'[a]
<1>1. h \in Seq(Audit!AlertChanges)
  BY DEF Audit!TypeOK
<1>2. CASE g = h
  <2>1. alertRows'[a] = alertRows[a]
    BY <1>2
  <2> QED
    BY <2>1 DEF Audit!SeenAtEnd, Audit!Closes, Audit!Updates, Audit!TimeToClose, Audit!Created
<1>3. CASE c \in Audit!AlertChanges /\ c.at >= PeriodEnd /\ g = Append(h, c)
  <2>1. /\ Len(h) \in Nat /\ Len(g) = Len(h) + 1 /\ g[Len(h) + 1] = c /\ g # <<>>
        /\ \A i \in 1..Len(h) : g[i] = h[i]
        /\ h = <<>> <=> Len(h) = 0
    BY <1>1, <1>3, Appended
  <2>2. c.at \in Nat /\ ~(c.at < PeriodEnd)
    BY <1>3, ReportAssumption DEF Audit!AlertChanges
  <2> DEFINE n == Len(h)
  <2>3. Audit!Updates(a) = {k \in 2..n : h[k].at < PeriodEnd} /\ Audit!Updates(a)' = {k \in 2..Len(g) : g[k].at < PeriodEnd}
    BY DEF Audit!Updates
  <2>4. Audit!Closes(a) = {k \in Audit!Updates(a) : h[k].at >= PeriodStart /\ h[k].status = "closed" /\ h[k - 1].status # "closed"}
    BY DEF Audit!Closes
  <2>5. Audit!Closes(a)' = {k \in Audit!Updates(a)' : g[k].at >= PeriodStart /\ g[k].status = "closed" /\ g[k - 1].status # "closed"}
    BY DEF Audit!Closes
  <2>6. a \in Audit!SeenAtEnd <=> h # <<>> /\ h[1].at < PeriodEnd
    BY DEF Audit!SeenAtEnd, Audit!Created
  <2>7. (a \in Audit!SeenAtEnd)' <=> g # <<>> /\ g[1].at < PeriodEnd
    BY DEF Audit!SeenAtEnd, Audit!Created
  <2>8. Audit!TimeToClose(a) = h[CHOOSE k \in Audit!Closes(a) : \A l \in Audit!Closes(a) : k <= l].at - h[1].at
    BY DEF Audit!TimeToClose, Audit!Created
  <2>9. Audit!TimeToClose(a)' = g[CHOOSE k \in Audit!Closes(a)' : \A l \in Audit!Closes(a)' : k <= l].at - g[1].at
    BY DEF Audit!TimeToClose, Audit!Created
  <2>10. Audit!Closes(a) # {} => \E k \in Audit!Closes(a) : \A l \in Audit!Closes(a) : k <= l
    BY DEF Audit!ClosesAreCounted
  <2> HIDE DEF n, h, c, g
  <2>11. Audit!Updates(a)' = Audit!Updates(a)
    <3>1. \A k \in 2..n : k \in 2..(n + 1) /\ g[k] = h[k]
      BY <2>1 DEF n
    <3>2. \A k \in 2..(n + 1) : k \in 2..n \/ k = n + 1
      BY <2>1 DEF n
    <3> QED
      BY <2>1, <2>2, <2>3, <3>1, <3>2 DEF n
  <2>12. \A k \in Audit!Updates(a) : k \in 1..n /\ g[k] = h[k] /\ g[k - 1] = h[k - 1]
    BY <2>1, <2>3 DEF n
  <2>13. Audit!Closes(a)' = Audit!Closes(a)
    BY <2>4, <2>5, <2>11, <2>12
  <2>14. (a \in Audit!SeenAtEnd)' <=> a \in Audit!SeenAtEnd
    <3>1. CASE h = <<>>
      <4>1. g[1] = c
        BY <2>1, <3>1
      <4> QED
        BY <2>2, <2>6, <2>7, <3>1, <4>1
    <3>2. CASE h # <<>>
      <4>1. g[1] = h[1]
        BY <2>1, <3>2
      <4> QED
        BY <2>1, <2>6, <2>7, <3>2, <4>1
    <3> QED
      BY <3>1, <3>2
  <2>15. ASSUME a \in Audit!SeenAtEnd, Audit!Closes(a) # {}
         PROVE  Audit!TimeToClose(a)' = Audit!TimeToClose(a)
    <3> DEFINE k == CHOOSE k \in Audit!Closes(a) : \A l \in Audit!Closes(a) : k <= l
    <3>1. k \in Audit!Closes(a)
      BY <2>10, <2>15
    <3>2. k \in Audit!Updates(a)
      BY <2>4, <3>1
    <3>3. g[k] = h[k]
      BY <2>12, <3>2
    <3>4. g[1] = h[1]
      BY <2>1, <2>6, <2>15
    <3>5. Audit!TimeToClose(a)' = g[k].at - g[1].at /\ Audit!TimeToClose(a) = h[k].at - h[1].at
      BY <2>8, <2>9, <2>13
    <3> QED
      BY <3>3, <3>4, <3>5
  <2> QED
    BY <2>13, <2>14, <2>15
<1> QED
  BY <1>2, <1>3

LEMMA SettledTransfer ==
  ASSUME Audit!TypeOK, NEW t \in Listed,
         \/ transfers'[t] = transfers[t]
         \/ /\ transferChange[t] \in Audit!TransferChanges /\ transferChange[t].at >= PeriodEnd
            /\ transfers'[t] = Append(transfers[t], transferChange[t])
  PROVE  /\ (t \in Audit!ListedAtEnd)' <=> t \in Audit!ListedAtEnd
         /\ transfers[t] # <<>> => Audit!Created(transfers[t])' = Audit!Created(transfers[t])
<1> DEFINE h == transfers[t]
           c == transferChange[t]
           g == transfers'[t]
<1>1. h \in Seq(Audit!TransferChanges)
  BY DEF Audit!TypeOK
<1>2. t \in Audit!ListedAtEnd <=> h # <<>> /\ PeriodStart <= h[1].at /\ h[1].at < PeriodEnd
  BY DEF Audit!ListedAtEnd, Audit!Created, Audit!InPeriod
<1>3. (t \in Audit!ListedAtEnd)' <=> g # <<>> /\ PeriodStart <= g[1].at /\ g[1].at < PeriodEnd
  BY DEF Audit!ListedAtEnd, Audit!Created, Audit!InPeriod
<1>4. Audit!Created(transfers[t]) = h[1].at /\ Audit!Created(transfers[t])' = g[1].at
  BY DEF Audit!Created
<1>5. CASE g = h
  BY <1>2, <1>3, <1>4, <1>5
<1>6. CASE c \in Audit!TransferChanges /\ c.at >= PeriodEnd /\ g = Append(h, c)
  <2>1. /\ Len(h) \in Nat /\ g[Len(h) + 1] = c /\ g # <<>>
        /\ \A i \in 1..Len(h) : g[i] = h[i]
        /\ h = <<>> <=> Len(h) = 0
    BY <1>1, <1>6, Appended
  <2>2. c.at \in Nat /\ ~(c.at < PeriodEnd)
    BY <1>6, ReportAssumption DEF Audit!TransferChanges
  <2> HIDE DEF h, c, g
  <2>3. CASE h = <<>>
    <3>1. g[1] = c
      BY <2>1, <2>3
    <3> QED
      BY <1>2, <1>3, <2>2, <2>3, <3>1 DEF h
  <2>4. CASE h # <<>>
    <3>1. g[1] = h[1]
      BY <2>1, <2>4
    <3> QED
      BY <1>2, <1>3, <1>4, <2>1, <2>4, <3>1
  <2> QED
    BY <2>3, <2>4
<1> QED
  BY <1>5, <1>6

(* What a step may still change: histories, by changes stamped after the    *)
(* period.                                                                  *)
LEMMA LaterSteps ==
  ASSUME Audit!TypeOK, Audit!Over, Audit!Next
  PROVE  /\ \A a \in Alerts :
              \/ alertRows'[a] = alertRows[a]
              \/ /\ alertChange[a] \in Audit!AlertChanges /\ alertChange[a].at >= PeriodEnd
                 /\ alertRows'[a] = Append(alertRows[a], alertChange[a])
         /\ \A t \in Listed :
              \/ transfers'[t] = transfers[t]
              \/ /\ transferChange[t] \in Audit!TransferChanges /\ transferChange[t].at >= PeriodEnd
                 /\ transfers'[t] = Append(transfers[t], transferChange[t])
         /\ asOf' = asOf /\ closings' = closings
         /\ Audit!Over'
<1>0. /\ reportClock \in Nat /\ reportClock >= PeriodEnd
      /\ alertChange \in [Alerts -> Audit!AlertChanges \cup {Nothing}]
      /\ transferChange \in [Listed -> Audit!TransferChanges \cup {Nothing}]
      /\ \A a \in Alerts : alertChange[a] # Nothing => alertChange[a].at >= PeriodEnd
      /\ \A t \in Listed : transferChange[t] # Nothing => transferChange[t].at >= PeriodEnd
  BY DEF Audit!TypeOK, Audit!Over, Audit!Quiet
<1>1. /\ \A c \in Audit!AlertChanges \cup Audit!TransferChanges : c.at \in Nat
      /\ PeriodEnd \in Nat
  BY ReportAssumption DEF Audit!AlertChanges, Audit!TransferChanges
<1>2. ASSUME UNCHANGED <<alertRows, alertChange, transfers, transferChange, asOf, closings>>,
             reportClock' \in Nat, reportClock <= reportClock'
      PROVE  /\ \A a \in Alerts : alertRows'[a] = alertRows[a]
             /\ \A t \in Listed : transfers'[t] = transfers[t]
             /\ asOf' = asOf /\ closings' = closings
             /\ Audit!Over'
  BY <1>0, <1>1, <1>2 DEF Audit!Over, Audit!Quiet
<1>3. CASE Audit!Tick
  <2>1. UNCHANGED <<alertRows, alertChange, transfers, transferChange, asOf, closings>> /\ reportClock' = reportClock + 1
    BY <1>3 DEF Audit!Tick, Audit!A!Tick
  <2> QED
    BY <1>0, <1>2, <2>1
<1>4. CASE Audit!Begin \/ Audit!ReadAlerts \/ Audit!ReadTrail \/ Audit!ReadTransfers \/ Audit!ReadEvents
  BY <1>0, <1>2, <1>4 DEF Audit!Begin, Audit!ReadAlerts, Audit!ReadTrail, Audit!ReadTransfers, Audit!ReadEvents,
       Audit!alertVars, Audit!transferVars, Audit!ghostVars
<1>5. ASSUME NEW a \in Alerts, UNCHANGED <<reportClock, transfers, transferChange, asOf, closings>>,
             \A b \in Alerts \ {a} : alertRows'[b] = alertRows[b] /\ alertChange'[b] = alertChange[b],
             \/ alertRows'[a] = alertRows[a]
             \/ /\ alertChange[a] \in Audit!AlertChanges /\ alertChange[a].at >= PeriodEnd
                /\ alertRows'[a] = Append(alertRows[a], alertChange[a]),
             alertChange'[a] # Nothing => alertChange'[a].at >= PeriodEnd
      PROVE  /\ \A b \in Alerts :
                  \/ alertRows'[b] = alertRows[b]
                  \/ /\ alertChange[b] \in Audit!AlertChanges /\ alertChange[b].at >= PeriodEnd
                     /\ alertRows'[b] = Append(alertRows[b], alertChange[b])
             /\ \A t \in Listed : transfers'[t] = transfers[t]
             /\ asOf' = asOf /\ closings' = closings
             /\ Audit!Over'
  <2>1. \A b \in Alerts : alertChange'[b] # Nothing => alertChange'[b].at >= PeriodEnd
    BY <1>0, <1>5
  <2>2. \A t \in Listed : transferChange'[t] # Nothing => transferChange'[t].at >= PeriodEnd
    BY <1>0, <1>5
  <2>3. Audit!Over'
    BY <1>0, <1>5, <2>1, <2>2 DEF Audit!Over, Audit!Quiet
  <2> QED
    BY <1>5, <2>3
<1>6. ASSUME NEW t \in Listed, UNCHANGED <<reportClock, alertRows, alertChange, asOf, closings>>,
             \A b \in Listed \ {t} : transfers'[b] = transfers[b] /\ transferChange'[b] = transferChange[b],
             \/ transfers'[t] = transfers[t]
             \/ /\ transferChange[t] \in Audit!TransferChanges /\ transferChange[t].at >= PeriodEnd
                /\ transfers'[t] = Append(transfers[t], transferChange[t]),
             transferChange'[t] # Nothing => transferChange'[t].at >= PeriodEnd
      PROVE  /\ \A b \in Listed :
                  \/ transfers'[b] = transfers[b]
                  \/ /\ transferChange[b] \in Audit!TransferChanges /\ transferChange[b].at >= PeriodEnd
                     /\ transfers'[b] = Append(transfers[b], transferChange[b])
             /\ \A a \in Alerts : alertRows'[a] = alertRows[a]
             /\ asOf' = asOf /\ closings' = closings
             /\ Audit!Over'
  <2>1. \A b \in Listed : transferChange'[b] # Nothing => transferChange'[b].at >= PeriodEnd
    BY <1>0, <1>6
  <2>2. \A a \in Alerts : alertChange'[a] # Nothing => alertChange'[a].at >= PeriodEnd
    BY <1>0, <1>6
  <2>3. Audit!Over'
    BY <1>0, <1>6, <2>1, <2>2 DEF Audit!Over, Audit!Quiet
  <2> QED
    BY <1>6, <2>3
<1>7. CASE \E a \in Alerts : Audit!ChangeAlert(a)
  <2>1. PICK a \in Alerts : Audit!ChangeAlert(a)
    BY <1>7
  <2>2. PICK s \in Audit!AlertStatuses : Audit!A!Stamped(a, s)
    BY <2>1 DEF Audit!ChangeAlert
  <2>3. /\ UNCHANGED <<reportClock, alertRows, transfers, transferChange, asOf, closings>>
        /\ alertChange' = [alertChange EXCEPT ![a] = [status |-> s, at |-> reportClock]]
    BY <2>1, <2>2 DEF Audit!ChangeAlert, Audit!A!Stamped, Audit!transferVars, Audit!ghostVars
  <2>4. /\ alertChange'[a] = [status |-> s, at |-> reportClock]
        /\ \A b \in Alerts \ {a} : alertChange'[b] = alertChange[b]
    BY <1>0, <2>3
  <2> QED
    BY <1>0, <1>5, <2>3, <2>4
<1>8. CASE \E a \in Alerts : Audit!AlertAbandoned(a)
  <2>1. PICK a \in Alerts : Audit!AlertAbandoned(a)
    BY <1>8
  <2>2. /\ UNCHANGED <<reportClock, alertRows, transfers, transferChange, asOf, closings>>
        /\ alertChange'[a] = Nothing /\ \A b \in Alerts \ {a} : alertChange'[b] = alertChange[b]
    BY <1>0, <2>1 DEF Audit!AlertAbandoned, Audit!A!Abandoned, Audit!transferVars, Audit!ghostVars
  <2> QED
    BY <1>5, <2>2
<1>9. CASE \E a \in Alerts : Audit!AlertCommits(a)
  <2>1. PICK a \in Alerts : Audit!AlertCommits(a)
    BY <1>9
  <2>2. Audit!A!Committed(a) /\ UNCHANGED <<reportClock, transfers, transferChange>>
    BY <2>1 DEF Audit!AlertCommits, Audit!A!Committed, Audit!transferVars
  <2>3. /\ alertChange[a] \in Audit!AlertChanges
        /\ alertRows'[a] = Append(alertRows[a], alertChange[a])
        /\ \A b \in Alerts \ {a} : alertRows'[b] = alertRows[b] /\ alertChange'[b] = alertChange[b]
        /\ alertChange'[a] = Nothing /\ alertChange[a] # Nothing
    BY <2>2, AlertHistories
  <2>4. alertChange[a].at >= PeriodEnd /\ ~(alertChange[a].at < PeriodEnd)
    BY <1>0, <1>1, <2>3
  <2>5. asOf' = asOf /\ closings' = closings
    BY <2>1, <2>4 DEF Audit!AlertCommits, Audit!InPeriod
  <2> QED
    BY <1>5, <2>2, <2>3, <2>4, <2>5
<1>10. CASE \E t \in Listed : Audit!ChangeTransfer(t)
  <2>1. PICK t \in Listed : Audit!ChangeTransfer(t)
    BY <1>10
  <2>2. PICK m \in Audit!TransferMoves : Audit!T!Stamped(t, m[2])
    BY <2>1 DEF Audit!ChangeTransfer
  <2>3. /\ UNCHANGED <<reportClock, transfers, alertRows, alertChange, asOf, closings>>
        /\ transferChange' = [transferChange EXCEPT ![t] = [status |-> m[2], at |-> reportClock]]
    BY <2>1, <2>2 DEF Audit!ChangeTransfer, Audit!T!Stamped, Audit!alertVars, Audit!ghostVars
  <2>4. /\ transferChange'[t] = [status |-> m[2], at |-> reportClock]
        /\ \A b \in Listed \ {t} : transferChange'[b] = transferChange[b]
    BY <1>0, <2>3
  <2> QED
    BY <1>0, <1>6, <2>3, <2>4
<1>11. CASE \E t \in Listed : Audit!TransferAbandoned(t)
  <2>1. PICK t \in Listed : Audit!TransferAbandoned(t)
    BY <1>11
  <2>2. /\ UNCHANGED <<reportClock, transfers, alertRows, alertChange, asOf, closings>>
        /\ transferChange'[t] = Nothing /\ \A b \in Listed \ {t} : transferChange'[b] = transferChange[b]
    BY <1>0, <2>1 DEF Audit!TransferAbandoned, Audit!T!Abandoned, Audit!alertVars, Audit!ghostVars
  <2> QED
    BY <1>6, <2>2
<1>12. CASE \E t \in Listed : Audit!TransferCommits(t)
  <2>1. PICK t \in Listed : Audit!TransferCommits(t)
    BY <1>12
  <2>2. Audit!T!Committed(t) /\ UNCHANGED <<reportClock, alertRows, alertChange, closings>>
    BY <2>1 DEF Audit!TransferCommits, Audit!T!Committed, Audit!alertVars
  <2>3. /\ transferChange[t] \in Audit!TransferChanges
        /\ transfers'[t] = Append(transfers[t], transferChange[t])
        /\ \A b \in Listed \ {t} : transfers'[b] = transfers[b] /\ transferChange'[b] = transferChange[b]
        /\ transferChange'[t] = Nothing /\ transferChange[t] # Nothing
    BY <2>2, TransferHistories
  <2>4. transferChange[t].at >= PeriodEnd /\ ~(transferChange[t].at < PeriodEnd)
    BY <1>0, <1>1, <2>3
  <2>5. asOf' = asOf
    BY <2>1, <2>4 DEF Audit!TransferCommits
  <2> QED
    BY <1>6, <2>2, <2>3, <2>4, <2>5
<1> QED
  BY <1>3, <1>4, <1>7, <1>8, <1>9, <1>10, <1>11, <1>12, <1>2 DEF Audit!Next

LEMMA PastIsFixed ==
  ASSUME Audit!TypeOK, Audit!HistoriesAreKept, Audit!ClosesAreCounted, Audit!Over, Audit!Next
  PROVE  /\ Audit!Over' /\ Audit!SeenAtEnd' = Audit!SeenAtEnd /\ Audit!ListedAtEnd' = Audit!ListedAtEnd
         /\ Audit!Figures' = Audit!Figures
<1>1. /\ \A a \in Alerts :
           \/ alertRows'[a] = alertRows[a]
           \/ /\ alertChange[a] \in Audit!AlertChanges /\ alertChange[a].at >= PeriodEnd
              /\ alertRows'[a] = Append(alertRows[a], alertChange[a])
      /\ \A t \in Listed :
           \/ transfers'[t] = transfers[t]
           \/ /\ transferChange[t] \in Audit!TransferChanges /\ transferChange[t].at >= PeriodEnd
              /\ transfers'[t] = Append(transfers[t], transferChange[t])
      /\ asOf' = asOf /\ closings' = closings
      /\ Audit!Over'
  BY LaterSteps
<1>2. \A a \in Alerts :
        /\ (a \in Audit!SeenAtEnd)' <=> a \in Audit!SeenAtEnd
        /\ Audit!Closes(a)' = Audit!Closes(a)
        /\ a \in Audit!SeenAtEnd /\ Audit!Closes(a) # {} => Audit!TimeToClose(a)' = Audit!TimeToClose(a)
  <2> SUFFICES ASSUME NEW a \in Alerts
               PROVE  /\ (a \in Audit!SeenAtEnd)' <=> a \in Audit!SeenAtEnd
                      /\ Audit!Closes(a)' = Audit!Closes(a)
                      /\ a \in Audit!SeenAtEnd /\ Audit!Closes(a) # {} => Audit!TimeToClose(a)' = Audit!TimeToClose(a)
    OBVIOUS
  <2> QED
    BY <1>1, SettledAlert
<1>3. \A t \in Listed :
        /\ (t \in Audit!ListedAtEnd)' <=> t \in Audit!ListedAtEnd
        /\ transfers[t] # <<>> => Audit!Created(transfers[t])' = Audit!Created(transfers[t])
  <2> SUFFICES ASSUME NEW t \in Listed
               PROVE  /\ (t \in Audit!ListedAtEnd)' <=> t \in Audit!ListedAtEnd
                      /\ transfers[t] # <<>> => Audit!Created(transfers[t])' = Audit!Created(transfers[t])
    OBVIOUS
  <2> QED
    BY <1>1, SettledTransfer
<1>4. Audit!SeenAtEnd' = Audit!SeenAtEnd
  <2>1. Audit!SeenAtEnd' \subseteq Alerts /\ Audit!SeenAtEnd \subseteq Alerts
    BY DEF Audit!SeenAtEnd
  <2>2. \A a \in Alerts : a \in Audit!SeenAtEnd' <=> a \in Audit!SeenAtEnd
    BY <1>2
  <2> QED
    BY <2>1, <2>2
<1>5. Audit!ListedAtEnd' = Audit!ListedAtEnd
  <2>1. Audit!ListedAtEnd' \subseteq Listed /\ Audit!ListedAtEnd \subseteq Listed
    BY DEF Audit!ListedAtEnd
  <2>2. \A t \in Listed : t \in Audit!ListedAtEnd' <=> t \in Audit!ListedAtEnd
    BY <1>3
  <2> QED
    BY <2>1, <2>2
<1>6. ASSUME NEW t \in Listed, asOf[t] # Nothing PROVE transfers[t] # <<>>
  BY <1>6 DEF Audit!HistoriesAreKept, Audit!LastBeforeEnd
<1>7. /\ Audit!EndedAs({"accepted", "settled"})' = Audit!EndedAs({"accepted", "settled"})
      /\ Audit!EndedAs({"rejected"})' = Audit!EndedAs({"rejected"})
  <2>1. \A t \in Listed : asOf[t] \in {"accepted", "settled", "rejected"} => asOf[t] # Nothing
    BY AuditNothing DEF Audit!TransferStatuses
  <2>2. \A t \in Listed : asOf[t] \in {"accepted", "settled", "rejected"} =>
          Audit!Created(transfers[t])' = Audit!Created(transfers[t])
    BY <1>3, <1>6, <2>1
  <2> QED
    BY <1>1, <2>2 DEF Audit!EndedAs
<1>8. Audit!Figures.decidedAfter' = Audit!Figures.decidedAfter
  <2> DEFINE D == {b \in Audit!SeenAtEnd : Audit!Closes(b) # {}}
             E == {b \in Audit!SeenAtEnd' : Audit!Closes(b)' # {}}
  <2>1. E = D
    <3>1. \A b \in Audit!SeenAtEnd : b \in Alerts
      BY DEF Audit!SeenAtEnd
    <3>2. \A b \in Audit!SeenAtEnd : Audit!Closes(b)' = Audit!Closes(b)
      BY <1>2, <3>1
    <3> QED
      BY <1>4, <3>2
  <2>2. \A a \in D : Audit!TimeToClose(a)' = Audit!TimeToClose(a)
    BY <1>2 DEF Audit!SeenAtEnd
  <2>3. /\ Audit!Figures.decidedAfter = [a \in D |-> Audit!TimeToClose(a)]
        /\ Audit!Figures.decidedAfter' = [a \in E |-> Audit!TimeToClose(a)']
    BY DEF Audit!Figures
  <2> HIDE DEF D, E
  <2> QED
    BY <2>1, <2>2, <2>3
<1>9. Audit!Figures.openAtEnd' = Audit!Figures.openAtEnd
  BY <1>1 DEF Audit!Figures
<1>10. Audit!Figures' = Audit!Figures
  <2>1. Audit!Figures = [sound |-> TRUE, openAtEnd |-> Audit!Figures.openAtEnd, closed |-> closings,
             decidedAfter |-> Audit!Figures.decidedAfter, transfers |-> Audit!Cardinality(Audit!ListedAtEnd),
             completed |-> Audit!Cardinality(Audit!EndedAs({"accepted", "settled"})),
             rejected |-> Audit!Cardinality(Audit!EndedAs({"rejected"}))]
    BY DEF Audit!Figures
  <2>2. Audit!Figures' = [sound |-> TRUE, openAtEnd |-> Audit!Figures.openAtEnd', closed |-> closings',
             decidedAfter |-> Audit!Figures.decidedAfter', transfers |-> Audit!Cardinality(Audit!ListedAtEnd'),
             completed |-> Audit!Cardinality(Audit!EndedAs({"accepted", "settled"})'),
             rejected |-> Audit!Cardinality(Audit!EndedAs({"rejected"})')]
    BY DEF Audit!Figures
  <2> QED
    BY <1>1, <1>5, <1>7, <1>8, <1>9, <2>1, <2>2
<1> QED
  BY <1>1, <1>4, <1>5, <1>10

(* What a report has read, and what the reports say.                        *)
LEMMA ReportsKept ==
  ASSUME Audit!ReportInv, Audit!Next, NEW S, reports \in Seq(S)
  PROVE  Audit!ReportSoFar' /\ Audit!ReportsStayTrue' /\ \E R : reports' \in Seq(R)
<1> USE DEF Audit!ReportInv
<1>1. ASSUME Audit!Over
      PROVE  /\ Audit!Over' /\ Audit!SeenAtEnd' = Audit!SeenAtEnd /\ Audit!ListedAtEnd' = Audit!ListedAtEnd
             /\ Audit!Figures' = Audit!Figures
  BY <1>1, PastIsFixed
<1>2. ASSUME UNCHANGED reports PROVE Audit!ReportsStayTrue'
  BY <1>1, <1>2 DEF Audit!ReportsStayTrue
<1>3. ASSUME UNCHANGED <<report, reports>>
      PROVE  Audit!ReportSoFar' /\ Audit!ReportsStayTrue' /\ \E R : reports' \in Seq(R)
  <2>1. Audit!ReportSoFar'
    <3> SUFFICES ASSUME report # Nothing, report.sound PROVE Audit!ReportSoFar'
      BY <1>3 DEF Audit!ReportSoFar
    <3>1. /\ Audit!Over
          /\ report.pc # "alerts" => report.seen = Audit!SeenAtEnd
          /\ report.pc \in {"transfers", "events"} =>
               report.openAtEnd = Audit!Figures.openAtEnd /\ report.closed = Audit!Figures.closed
               /\ report.decidedAfter = Audit!Figures.decidedAfter
          /\ report.pc = "events" => report.listed = Audit!ListedAtEnd
      BY DEF Audit!ReportSoFar
    <3> QED
      BY <1>1, <1>3, <3>1 DEF Audit!ReportSoFar
  <2> QED
    BY <1>2, <1>3, <2>1
<1>4. CASE Audit!Tick
  BY <1>3, <1>4 DEF Audit!Tick
<1>5. ASSUME NEW a \in Alerts, Audit!ChangeAlert(a) \/ Audit!AlertCommits(a) \/ Audit!AlertAbandoned(a)
      PROVE  UNCHANGED <<report, reports>>
  BY <1>5 DEF Audit!ChangeAlert, Audit!AlertCommits, Audit!AlertAbandoned, Audit!reportVars
<1>6. ASSUME NEW t \in Listed, Audit!ChangeTransfer(t) \/ Audit!TransferCommits(t) \/ Audit!TransferAbandoned(t)
      PROVE  UNCHANGED <<report, reports>>
  BY <1>6 DEF Audit!ChangeTransfer, Audit!TransferCommits, Audit!TransferAbandoned, Audit!reportVars
<1>7. CASE Audit!Begin
  <2>1. UNCHANGED <<reportClock, alertRows, alertChange, transfers, transferChange, reports>>
    BY <1>7 DEF Audit!Begin, Audit!alertVars, Audit!transferVars
  <2>2. report'.pc = "alerts" /\ (report'.sound <=> Audit!Over)
    BY <1>7 DEF Audit!Begin, Audit!Over
  <2>3. Audit!ReportSoFar'
    BY <1>1, <2>2 DEF Audit!ReportSoFar
  <2> QED
    BY <1>2, <2>1, <2>3
\* From here on a report is under way, and reads.
<1>8. DOMAIN report = {"pc", "sound", "seen", "openAtEnd", "closed", "decidedAfter", "listed"} \/ report = Nothing
  BY DEF Audit!TypeOK
<1>9. CASE Audit!ReadAlerts
  <2>1. UNCHANGED <<alertRows, reports>> /\ report # Nothing
    BY <1>9 DEF Audit!ReadAlerts, Audit!alertVars
  <2>2. report' = [report EXCEPT !.pc = "trail", !.seen = Audit!SeenAtEnd]
    BY <1>9 DEF Audit!ReadAlerts, Audit!SeenAtEnd
  <2>3. report'.pc = "trail" /\ report'.sound = report.sound /\ report'.seen = Audit!SeenAtEnd
    BY <1>8, <2>1, <2>2
  <2>4. report.sound => Audit!Over
    BY <2>1 DEF Audit!ReportSoFar
  <2>5. Audit!ReportSoFar'
    BY <1>1, <2>3, <2>4 DEF Audit!ReportSoFar
  <2> QED
    BY <1>2, <2>1, <2>5
<1>10. CASE Audit!ReadTrail
  <2>1. UNCHANGED reports /\ report # Nothing /\ report.pc = "trail"
    BY <1>10 DEF Audit!ReadTrail
  <2> DEFINE open == Audit!Cardinality({a \in report.seen : Audit!StatusAtEnd(a) # "closed"})
             count == Audit!Cardinality(UNION {{a} \X Audit!Closes(a) : a \in Alerts})
             after == [a \in {b \in report.seen : Audit!Closes(b) # {}} |-> Audit!TimeToClose(a)]
  <2>2. report' = [report EXCEPT !.pc = "transfers", !.openAtEnd = open, !.closed = count, !.decidedAfter = after]
    BY <1>10 DEF Audit!ReadTrail
  <2>3. ASSUME report.sound
        PROVE  /\ Audit!Over /\ report.seen = Audit!SeenAtEnd
               /\ open = Audit!Figures.openAtEnd /\ count = Audit!Figures.closed /\ after = Audit!Figures.decidedAfter
    <3>1. Audit!Over /\ report.seen = Audit!SeenAtEnd
      BY <2>1, <2>3 DEF Audit!ReportSoFar
    <3>2. Audit!SeenAtEnd \subseteq Alerts
      BY DEF Audit!SeenAtEnd
    <3>3. {a \in report.seen : Audit!StatusAtEnd(a) # "closed"} = {a \in Alerts : asOf[a] \notin {Nothing, "closed"}}
      BY <3>1, <3>2, EndOfAlert
    <3>4. open = Audit!Figures.openAtEnd
      BY <3>3 DEF Audit!Figures
    <3>5. count = Audit!Figures.closed
      BY DEF Audit!Figures, Audit!ClosesAreCounted
    <3>6. after = Audit!Figures.decidedAfter
      BY <3>1 DEF Audit!Figures
    <3> QED
      BY <3>1, <3>4, <3>5, <3>6
  <2> HIDE DEF open, count, after
  <2>4. /\ report'.pc = "transfers" /\ report'.sound = report.sound /\ report'.seen = report.seen
        /\ report'.openAtEnd = open /\ report'.closed = count /\ report'.decidedAfter = after
    BY <1>8, <2>1, <2>2
  <2>5. Audit!ReportSoFar'
    <3> SUFFICES ASSUME report.sound PROVE Audit!ReportSoFar'
      BY <2>4 DEF Audit!ReportSoFar
    <3> QED
      BY <1>1, <2>3, <2>4 DEF Audit!ReportSoFar
  <2> QED
    BY <1>2, <2>1, <2>5
<1>11. CASE Audit!ReadTransfers
  <2>1. UNCHANGED reports /\ report # Nothing /\ report.pc = "transfers"
    BY <1>11 DEF Audit!ReadTransfers
  <2>2. report' = [report EXCEPT !.pc = "events", !.listed = Audit!ListedAtEnd]
    BY <1>11 DEF Audit!ReadTransfers, Audit!ListedAtEnd
  <2>3. /\ report'.pc = "events" /\ report'.sound = report.sound /\ report'.seen = report.seen
        /\ report'.openAtEnd = report.openAtEnd /\ report'.closed = report.closed
        /\ report'.decidedAfter = report.decidedAfter /\ report'.listed = Audit!ListedAtEnd
    BY <1>8, <2>1, <2>2
  <2>4. Audit!ReportSoFar'
    <3> SUFFICES ASSUME report.sound PROVE Audit!ReportSoFar'
      BY <2>3 DEF Audit!ReportSoFar
    <3>1. /\ Audit!Over /\ report.seen = Audit!SeenAtEnd
          /\ report.openAtEnd = Audit!Figures.openAtEnd /\ report.closed = Audit!Figures.closed
          /\ report.decidedAfter = Audit!Figures.decidedAfter
      BY <2>1 DEF Audit!ReportSoFar
    <3> QED
      BY <1>1, <2>3, <3>1 DEF Audit!ReportSoFar
  <2> QED
    BY <1>2, <2>1, <2>4
<1>12. CASE Audit!ReadEvents
  <2> DEFINE n == Len(reports)
             r == [sound |-> report.sound,
                   openAtEnd |-> report.openAtEnd, closed |-> report.closed,
                   decidedAfter |-> report.decidedAfter,
                   transfers |-> Audit!Cardinality(report.listed),
                   completed |-> Audit!Cardinality({t \in report.listed : Audit!TransferAtEnd(t) \in {"accepted", "settled"}}),
                   rejected |-> Audit!Cardinality({t \in report.listed : Audit!TransferAtEnd(t) = "rejected"})]
  <2>1. report # Nothing /\ report.pc = "events" /\ report' = Nothing /\ reports' = Append(reports, r)
    BY <1>12 DEF Audit!ReadEvents
  <2>2. Audit!ReportSoFar'
    BY <2>1 DEF Audit!ReportSoFar
  <2>3. ASSUME r.sound PROVE Audit!Over /\ r = Audit!Figures
    <3>1. report.sound
      BY <2>3
    <3>2. /\ Audit!Over /\ report.openAtEnd = Audit!Figures.openAtEnd /\ report.closed = Audit!Figures.closed
          /\ report.decidedAfter = Audit!Figures.decidedAfter /\ report.listed = Audit!ListedAtEnd
      BY <2>1, <3>1 DEF Audit!ReportSoFar
    <3>3. Audit!ListedAtEnd \subseteq Listed
      BY DEF Audit!ListedAtEnd
    <3>4. {t \in report.listed : Audit!TransferAtEnd(t) \in {"accepted", "settled"}} = Audit!EndedAs({"accepted", "settled"})
      <4>1. {"accepted", "settled"} \in SUBSET Audit!TransferStatuses
        BY DEF Audit!TransferStatuses
      <4> QED
        BY <3>2, <3>3, <4>1, EndOfTransfer DEF Audit!EndedAs
    <3>5. {t \in report.listed : Audit!TransferAtEnd(t) = "rejected"} = Audit!EndedAs({"rejected"})
      <4>1. {"rejected"} \in SUBSET Audit!TransferStatuses
        BY DEF Audit!TransferStatuses
      <4>2. \A t \in Listed : t \in Audit!ListedAtEnd /\ Audit!TransferAtEnd(t) \in {"rejected"}
              <=> asOf[t] \in {"rejected"} /\ Audit!Created(transfers[t]) >= PeriodStart
        BY <4>1, EndOfTransfer
      <4> QED
        BY <3>2, <3>3, <4>2 DEF Audit!EndedAs
    <3>6. report.sound = TRUE
      BY <2>1, <3>1 DEF Audit!TypeOK
    <3>7. r = [sound |-> TRUE, openAtEnd |-> Audit!Figures.openAtEnd, closed |-> Audit!Figures.closed,
               decidedAfter |-> Audit!Figures.decidedAfter, transfers |-> Audit!Cardinality(Audit!ListedAtEnd),
               completed |-> Audit!Cardinality(Audit!EndedAs({"accepted", "settled"})),
               rejected |-> Audit!Cardinality(Audit!EndedAs({"rejected"}))]
      BY <3>2, <3>4, <3>5, <3>6
    <3> QED
      BY <3>2, <3>7 DEF Audit!Figures
  <2> HIDE DEF r
  <2>4. /\ n \in Nat /\ DOMAIN reports = 1..n /\ DOMAIN reports' = 1..(n + 1)
        /\ reports'[n + 1] = r /\ \A i \in 1..n : reports'[i] = reports[i]
        /\ reports' \in Seq(S \cup {r})
    <3>1. reports \in Seq(S \cup {r})
      BY SeqGrows
    <3> QED
      BY <2>1, <3>1, Appended
  <2> HIDE DEF n
  <2>5. Audit!ReportsStayTrue'
    <3> SUFFICES ASSUME NEW i \in 1..(n + 1), reports'[i].sound
                 PROVE  Audit!Over' /\ reports'[i] = Audit!Figures'
      BY <2>4 DEF Audit!ReportsStayTrue
    <3>1. CASE i = n + 1
      BY <1>1, <2>3, <2>4, <3>1
    <3>2. CASE i \in 1..n
      BY <1>1, <2>4, <3>2 DEF Audit!ReportsStayTrue
    <3> QED
      BY <2>4, <3>1, <3>2
  <2> QED
    BY <2>2, <2>4, <2>5
<1> QED
  BY <1>3, <1>4, <1>5, <1>6, <1>7, <1>9, <1>10, <1>11, <1>12 DEF Audit!Next

LEMMA ReportStep ==
  ASSUME Audit!ReportInv, NEW S, reports \in Seq(S), [Audit!Next]_(Audit!arVars)
  PROVE  Audit!ReportInv' /\ \E R : reports' \in Seq(R)
<1>1. CASE UNCHANGED Audit!arVars
  <2> USE <1>1 DEF Audit!arVars
  <2>1. Audit!TypeOK'
    BY DEF Audit!ReportInv, Audit!TypeOK
  <2>2. Audit!HistoriesAreKept'
    BY DEF Audit!ReportInv, Audit!HistoriesAreKept, Audit!InOrder, Audit!LastBeforeEnd
  <2>3. Audit!ClosesAreCounted'
    BY DEF Audit!ReportInv, Audit!ClosesAreCounted, Audit!Closes, Audit!Updates
  <2>4. /\ Audit!Over' = Audit!Over /\ Audit!SeenAtEnd' = Audit!SeenAtEnd
        /\ Audit!ListedAtEnd' = Audit!ListedAtEnd
    BY DEF Audit!Over, Audit!Quiet, Audit!SeenAtEnd, Audit!ListedAtEnd, Audit!Created, Audit!InPeriod
  <2>5. Audit!Figures' = Audit!Figures
    BY DEF Audit!Figures, Audit!SeenAtEnd, Audit!ListedAtEnd, Audit!EndedAs, Audit!Created, Audit!InPeriod,
           Audit!Closes, Audit!Updates, Audit!TimeToClose
  <2>6. Audit!ReportSoFar' /\ Audit!ReportsStayTrue'
    BY <2>4, <2>5 DEF Audit!ReportInv, Audit!ReportSoFar, Audit!ReportsStayTrue
  <2> QED
    BY <2>1, <2>2, <2>3, <2>6 DEF Audit!ReportInv
<1>2. CASE Audit!Next
  <2>1. Audit!TypeOK' /\ Audit!HistoriesAreKept' /\ Audit!ClosesAreCounted'
    BY <1>2, ReportTypes, HistoriesKept, ClosesCounted DEF Audit!ReportInv
  <2>2. Audit!ReportSoFar' /\ Audit!ReportsStayTrue' /\ \E R : reports' \in Seq(R)
    BY <1>2, ReportsKept
  <2> QED
    BY <2>1, <2>2 DEF Audit!ReportInv
<1> QED
  BY <1>1, <1>2

LEMMA ServicesReport ==
  ServicesNext \/ UNCHANGED allVars => [Audit!Next]_(Audit!arVars)
BY DEF ServicesNext, allVars, reportVars, Audit!arVars

LEMMA FiguresHold ==
  ASSUME Audit!ReportInv
  PROVE  Audit!TrueAtTheEnd /\ Audit!DecisionsCountedOnce /\ Audit!SameFiguresTwice
<1>1. \A i \in DOMAIN reports : reports[i].sound => reports[i] = Audit!Figures
  BY DEF Audit!ReportInv, Audit!ReportsStayTrue
<1>2. /\ Audit!Figures.openAtEnd = Audit!Cardinality({a \in Alerts : asOf[a] \notin {Nothing, "closed"}})
      /\ Audit!Figures.completed = Audit!Cardinality(Audit!EndedAs({"accepted", "settled"}))
      /\ Audit!Figures.closed = closings
  BY DEF Audit!Figures
<1>3. Audit!TrueAtTheEnd
  <2> SUFFICES ASSUME NEW i \in DOMAIN reports, reports[i].sound
               PROVE  /\ reports[i].openAtEnd = Audit!Cardinality({a \in Alerts : asOf[a] \notin {Nothing, "closed"}})
                      /\ reports[i].completed = Audit!Cardinality(Audit!EndedAs({"accepted", "settled"}))
    BY DEF Audit!TrueAtTheEnd, Audit!EndedAs
  <2>1. reports[i] = Audit!Figures
    BY <1>1
  <2> QED
    BY <1>2, <2>1
<1>4. Audit!DecisionsCountedOnce
  <2> SUFFICES ASSUME NEW i \in DOMAIN reports, reports[i].sound PROVE reports[i].closed = closings
    BY DEF Audit!DecisionsCountedOnce
  <2>1. reports[i] = Audit!Figures
    BY <1>1
  <2> QED
    BY <1>2, <2>1
<1>5. Audit!SameFiguresTwice
  BY <1>1 DEF Audit!SameFiguresTwice
<1> QED
  BY <1>3, <1>4, <1>5

(* A report of a period that is over and settled says what was so at its    *)
(* end, counts each decision once, and agrees with every other such report, *)
(* though alerts and transfers change between its queries                   *)
(* (buildAuditSnapshot, audit-snapshot.ts).                                 *)
THEOREM ReportsAreTrue == ServicesSpec => []ReportIsTrue
<1> DEFINE Inv == Audit!ReportInv /\ \E S : reports \in Seq(S)
<1>1. ServicesInit => Inv
  <2> SUFFICES ASSUME ServicesInit PROVE Inv
    OBVIOUS
  <2>1. Audit!Init
    BY DEF ServicesInit
  <2>2. reports \in Seq({})
    BY <2>1 DEF Audit!Init
  <2> QED
    BY <2>1, <2>2, ReportInit
<1>2. Inv /\ [ServicesNext]_allVars => Inv'
  BY ServicesReport, ReportStep
<1>3. Inv => ReportIsTrue
  BY FiguresHold DEF ReportIsTrue
<1> QED
  BY <1>1, <1>2, <1>3, PTL DEF ServicesSpec

-----------------------------------------------------------------------------
(* The watchlist: one address, for every number of its wallets, of screens *)
(* under way at once, and of transfers.                                    *)

USE WatchlistAssumption
USE DEF rows, Unused, Watched, Numbers, NoResult

LEMMA InitInv == Init => WatchInv
<1> SUFFICES ASSUME Init PROVE WatchInv
  OBVIOUS
<1>1. TypeOK
  BY DEF Init, TypeOK, NoResult, Results
<1> QED
  BY <1>1 DEF Init, WatchInv, RowsTellAll, ToldAsAlerted, NothingToldWithoutAlert,
      NothingSeenUntold, BehindOnlyIfLate, NothingAheadOfTheChain, EveryResultHasTheLabels,
      GoneHaveNoRow, KnownWasTold, SawAllUnlessBehind

-----------------------------------------------------------------------------
(* One lemma for each step.                                                 *)

LEMMA TransferKeeps == ASSUME WatchInv, Transfer PROVE WatchInv'
<1>1. TypeOK /\ TypeOK'
  BY DEF WatchInv, RowsTellAll, ToldAsAlerted, TypeOK, Transfer, Results
<1>2. NothingToldWithoutAlert'
  BY <1>1 DEF WatchInv, RowsTellAll, ToldAsAlerted, NothingToldWithoutAlert,
      EveryResultHasTheLabels, Transfer, TypeOK, Results
<1>3. NothingSeenUntold'
  BY <1>1 DEF WatchInv, RowsTellAll, ToldAsAlerted, NothingSeenUntold, KnownWasTold, Transfer,
      TypeOK, Results
<1>4. BehindOnlyIfLate'
  BY <1>1 DEF WatchInv, RowsTellAll, ToldAsAlerted, BehindOnlyIfLate, KnownWasTold,
      SawAllUnlessBehind, NothingSeenUntold, Transfer, TypeOK, Results
<1>5. NothingAheadOfTheChain'
  BY <1>1 DEF WatchInv, RowsTellAll, ToldAsAlerted, NothingAheadOfTheChain, Transfer, TypeOK,
      Results
<1>6. EveryResultHasTheLabels'
  BY <1>1 DEF WatchInv, RowsTellAll, ToldAsAlerted, EveryResultHasTheLabels, Transfer, TypeOK,
      Results
<1>7. GoneHaveNoRow'
  BY <1>1 DEF WatchInv, RowsTellAll, ToldAsAlerted, GoneHaveNoRow, KnownWasTold, Transfer,
      TypeOK, Results
<1>8. KnownWasTold'
  BY <1>1 DEF WatchInv, RowsTellAll, ToldAsAlerted, KnownWasTold, NothingSeenUntold,
      GoneHaveNoRow, Transfer, TypeOK, Results
<1>9. SawAllUnlessBehind'
  BY <1>1 DEF WatchInv, RowsTellAll, ToldAsAlerted, SawAllUnlessBehind, NothingAheadOfTheChain,
      KnownWasTold, Transfer, TypeOK, Results
<1> QED
  BY <1>1, <1>2, <1>3, <1>4, <1>5, <1>6, <1>7, <1>8, <1>9
  DEF WatchInv, RowsTellAll, ToldAsAlerted

LEMMA ForgetKeeps == ASSUME WatchInv, Forget PROVE WatchInv'
<1>1. TypeOK /\ TypeOK'
  BY DEF WatchInv, RowsTellAll, ToldAsAlerted, TypeOK, Forget, Results
<1>2. NothingToldWithoutAlert'
  BY <1>1 DEF WatchInv, RowsTellAll, ToldAsAlerted, NothingToldWithoutAlert,
      EveryResultHasTheLabels, Forget, TypeOK, Results
<1>3. NothingSeenUntold'
  BY <1>1 DEF WatchInv, RowsTellAll, ToldAsAlerted, NothingSeenUntold, KnownWasTold, Forget,
      TypeOK, Results
<1>4. BehindOnlyIfLate'
  BY <1>1 DEF WatchInv, RowsTellAll, ToldAsAlerted, BehindOnlyIfLate, KnownWasTold,
      SawAllUnlessBehind, NothingSeenUntold, Forget, TypeOK, Results
<1>5. NothingAheadOfTheChain'
  BY <1>1 DEF WatchInv, RowsTellAll, ToldAsAlerted, NothingAheadOfTheChain, Forget, TypeOK,
      Results
<1>6. EveryResultHasTheLabels'
  BY <1>1 DEF WatchInv, RowsTellAll, ToldAsAlerted, EveryResultHasTheLabels, Forget, TypeOK,
      Results
<1>7. GoneHaveNoRow'
  BY <1>1 DEF WatchInv, RowsTellAll, ToldAsAlerted, GoneHaveNoRow, KnownWasTold, Forget, TypeOK,
      Results
<1>8. KnownWasTold'
  BY <1>1 DEF WatchInv, RowsTellAll, ToldAsAlerted, KnownWasTold, NothingSeenUntold,
      GoneHaveNoRow, Forget, TypeOK, Results
<1>9. SawAllUnlessBehind'
  BY <1>1 DEF WatchInv, RowsTellAll, ToldAsAlerted, SawAllUnlessBehind, NothingAheadOfTheChain,
      KnownWasTold, Forget, TypeOK, Results
<1> QED
  BY <1>1, <1>2, <1>3, <1>4, <1>5, <1>6, <1>7, <1>8, <1>9
  DEF WatchInv, RowsTellAll, ToldAsAlerted

LEMMA AskCreateKeeps == ASSUME WatchInv, NEW t \in Requests, AskCreate(t) PROVE WatchInv'
<1>1. TypeOK /\ TypeOK'
  BY DEF WatchInv, RowsTellAll, ToldAsAlerted, TypeOK, AskCreate, Results
<1>2. NothingToldWithoutAlert'
  BY <1>1 DEF WatchInv, RowsTellAll, ToldAsAlerted, NothingToldWithoutAlert,
      EveryResultHasTheLabels, AskCreate, TypeOK, Results
<1>3. NothingSeenUntold'
  BY <1>1 DEF WatchInv, RowsTellAll, ToldAsAlerted, NothingSeenUntold, KnownWasTold, AskCreate,
      TypeOK, Results
<1>4. BehindOnlyIfLate'
  BY <1>1 DEF WatchInv, RowsTellAll, ToldAsAlerted, BehindOnlyIfLate, KnownWasTold,
      SawAllUnlessBehind, NothingSeenUntold, AskCreate, TypeOK, Results
<1>5. NothingAheadOfTheChain'
  BY <1>1 DEF WatchInv, RowsTellAll, ToldAsAlerted, NothingAheadOfTheChain, AskCreate, TypeOK,
      Results
<1>6. EveryResultHasTheLabels'
  BY <1>1 DEF WatchInv, RowsTellAll, ToldAsAlerted, EveryResultHasTheLabels, AskCreate, TypeOK,
      Results
<1>7. GoneHaveNoRow'
  BY <1>1 DEF WatchInv, RowsTellAll, ToldAsAlerted, GoneHaveNoRow, KnownWasTold, AskCreate,
      TypeOK, Results
<1>8. KnownWasTold'
  BY <1>1 DEF WatchInv, RowsTellAll, ToldAsAlerted, KnownWasTold, NothingSeenUntold,
      GoneHaveNoRow, AskCreate, TypeOK, Results
<1>9. SawAllUnlessBehind'
  BY <1>1 DEF WatchInv, RowsTellAll, ToldAsAlerted, SawAllUnlessBehind, NothingAheadOfTheChain,
      KnownWasTold, AskCreate, TypeOK, Results
<1> QED
  BY <1>1, <1>2, <1>3, <1>4, <1>5, <1>6, <1>7, <1>8, <1>9
  DEF WatchInv, RowsTellAll, ToldAsAlerted

LEMMA AskRescreenKeeps ==
  ASSUME WatchInv, NEW t \in Requests, NEW w \in Wallets, AskRescreen(t, w)
  PROVE  WatchInv'
<1>1. TypeOK /\ TypeOK'
  BY DEF WatchInv, RowsTellAll, ToldAsAlerted, TypeOK, AskRescreen, Results
<1>2. NothingToldWithoutAlert'
  BY <1>1 DEF WatchInv, RowsTellAll, ToldAsAlerted, NothingToldWithoutAlert,
      EveryResultHasTheLabels, AskRescreen, TypeOK, Results
<1>3. NothingSeenUntold'
  BY <1>1 DEF WatchInv, RowsTellAll, ToldAsAlerted, NothingSeenUntold, KnownWasTold,
      AskRescreen, TypeOK, Results
<1>4. BehindOnlyIfLate'
  BY <1>1 DEF WatchInv, RowsTellAll, ToldAsAlerted, BehindOnlyIfLate, KnownWasTold,
      SawAllUnlessBehind, NothingSeenUntold, AskRescreen, TypeOK, Results
<1>5. NothingAheadOfTheChain'
  BY <1>1 DEF WatchInv, RowsTellAll, ToldAsAlerted, NothingAheadOfTheChain, AskRescreen, TypeOK,
      Results
<1>6. EveryResultHasTheLabels'
  BY <1>1 DEF WatchInv, RowsTellAll, ToldAsAlerted, EveryResultHasTheLabels, AskRescreen,
      TypeOK, Results
<1>7. GoneHaveNoRow'
  BY <1>1 DEF WatchInv, RowsTellAll, ToldAsAlerted, GoneHaveNoRow, KnownWasTold, AskRescreen,
      TypeOK, Results
<1>8. KnownWasTold'
  BY <1>1 DEF WatchInv, RowsTellAll, ToldAsAlerted, KnownWasTold, NothingSeenUntold,
      GoneHaveNoRow, AskRescreen, TypeOK, Results
<1>9. SawAllUnlessBehind'
  BY <1>1 DEF WatchInv, RowsTellAll, ToldAsAlerted, SawAllUnlessBehind, NothingAheadOfTheChain,
      KnownWasTold, AskRescreen, TypeOK, Results
<1> QED
  BY <1>1, <1>2, <1>3, <1>4, <1>5, <1>6, <1>7, <1>8, <1>9
  DEF WatchInv, RowsTellAll, ToldAsAlerted

LEMMA LookupKeeps == ASSUME WatchInv, NEW t \in Requests, Lookup(t) PROVE WatchInv'
<1>1. TypeOK /\ TypeOK'
  BY DEF WatchInv, RowsTellAll, ToldAsAlerted, TypeOK, Lookup, FromCache, Fetched, Results
<1>2. NothingToldWithoutAlert'
  BY <1>1 DEF WatchInv, RowsTellAll, ToldAsAlerted, NothingToldWithoutAlert,
      EveryResultHasTheLabels, Lookup, FromCache, Fetched, TypeOK, Results
<1>3. NothingSeenUntold'
  BY <1>1 DEF WatchInv, RowsTellAll, ToldAsAlerted, NothingSeenUntold, KnownWasTold, Lookup,
      FromCache, Fetched, TypeOK, Results
<1>4. BehindOnlyIfLate'
  BY <1>1 DEF WatchInv, RowsTellAll, ToldAsAlerted, BehindOnlyIfLate, KnownWasTold,
      SawAllUnlessBehind, NothingSeenUntold, Lookup, FromCache, Fetched, TypeOK, Results
<1>5. NothingAheadOfTheChain'
  BY <1>1 DEF WatchInv, RowsTellAll, ToldAsAlerted, NothingAheadOfTheChain, Lookup, FromCache,
      Fetched, TypeOK, Results
<1>6. EveryResultHasTheLabels'
  BY <1>1 DEF WatchInv, RowsTellAll, ToldAsAlerted, EveryResultHasTheLabels, Lookup, FromCache,
      Fetched, TypeOK, Results
<1>7. GoneHaveNoRow'
  BY <1>1 DEF WatchInv, RowsTellAll, ToldAsAlerted, GoneHaveNoRow, KnownWasTold, Lookup,
      FromCache, Fetched, TypeOK, Results
<1>8. KnownWasTold'
  BY <1>1 DEF WatchInv, RowsTellAll, ToldAsAlerted, KnownWasTold, NothingSeenUntold,
      GoneHaveNoRow, Lookup, FromCache, Fetched, TypeOK, Results
<1>9. SawAllUnlessBehind'
  BY <1>1 DEF WatchInv, RowsTellAll, ToldAsAlerted, SawAllUnlessBehind, NothingAheadOfTheChain,
      KnownWasTold, Lookup, FromCache, Fetched, TypeOK, Results
<1> QED
  BY <1>1, <1>2, <1>3, <1>4, <1>5, <1>6, <1>7, <1>8, <1>9
  DEF WatchInv, RowsTellAll, ToldAsAlerted

LEMMA ReadChainKeeps ==
  ASSUME WatchInv, NEW t \in Requests, NEW seen \in SUBSET (1..newest), NEW k \in Numbers, ReadChain(t, seen, k)
  PROVE  WatchInv'
<1>1. TypeOK /\ TypeOK'
  <2>1. TypeOK /\ newest \in 0..MaxTransfers
    BY DEF WatchInv, RowsTellAll, ToldAsAlerted, TypeOK
  <2>2. ASSUME NEW e \in Reasons(seen) PROVE e \in Evidence
    <3>1. CASE e \in Labels
      BY <3>1 DEF Evidence
    <3>2. CASE e \notin Labels
      <4>1. PICK c \in Risky : e \in c
        BY <2>2, <3>2 DEF Reasons
      <4> QED BY <4>1 DEF Evidence
    <3> QED BY <3>1, <3>2
  <2>3. [activity |-> k, reasons |-> Reasons(seen)] \in Results
    BY <2>2 DEF Results
  <2> QED
    BY <2>1, <2>3 DEF TypeOK, ReadChain, Fetched
<1>2. NothingToldWithoutAlert'
  BY <1>1 DEF WatchInv, RowsTellAll, ToldAsAlerted, NothingToldWithoutAlert,
      EveryResultHasTheLabels, ReadChain, FromCache, Fetched, Reasons, IsNewest, TypeOK, Results
<1>3. NothingSeenUntold'
  BY <1>1 DEF WatchInv, RowsTellAll, ToldAsAlerted, NothingSeenUntold, KnownWasTold, ReadChain,
      FromCache, Fetched, Reasons, IsNewest, TypeOK, Results
<1>4. BehindOnlyIfLate'
  BY <1>1 DEF WatchInv, RowsTellAll, ToldAsAlerted, BehindOnlyIfLate, KnownWasTold,
      SawAllUnlessBehind, NothingSeenUntold, ReadChain, FromCache, Fetched, Reasons, IsNewest,
      TypeOK, Results
<1>5. NothingAheadOfTheChain'
  BY <1>1 DEF WatchInv, RowsTellAll, ToldAsAlerted, NothingAheadOfTheChain, ReadChain,
      FromCache, Fetched, Reasons, IsNewest, TypeOK, Results
<1>6. EveryResultHasTheLabels'
  BY <1>1 DEF WatchInv, RowsTellAll, ToldAsAlerted, EveryResultHasTheLabels, ReadChain,
      FromCache, Fetched, Reasons, IsNewest, TypeOK, Results
<1>7. GoneHaveNoRow'
  BY <1>1 DEF WatchInv, RowsTellAll, ToldAsAlerted, GoneHaveNoRow, KnownWasTold, ReadChain,
      FromCache, Fetched, Reasons, IsNewest, TypeOK, Results
<1>8. KnownWasTold'
  BY <1>1 DEF WatchInv, RowsTellAll, ToldAsAlerted, KnownWasTold, NothingSeenUntold,
      GoneHaveNoRow, ReadChain, FromCache, Fetched, Reasons, IsNewest, TypeOK, Results
<1>9. SawAllUnlessBehind'
  <2> SUFFICES ASSUME NEW x \in Requests, req'[x] # None, req'[x].wallet # None, req'[x].at # "asked"
               PROVE  req'[x].behind \/ told[req'[x].wallet].activity <= req'[x].result.activity
    BY DEF SawAllUnlessBehind, ReadChain
  <2>1. CASE x = t
    <3>1. /\ req'[t].behind = (k # newest) /\ req'[t].result.activity = k
          /\ req'[t].wallet \in Wallets
      BY <1>1, <2>1 DEF ReadChain, Fetched, TypeOK
    <3>2. told[req'[t].wallet].activity <= newest
      BY <3>1 DEF WatchInv, NothingAheadOfTheChain
    <3> QED BY <2>1, <3>1, <3>2
  <2>2. CASE x # t
    BY <1>1, <2>2 DEF WatchInv, SawAllUnlessBehind, ReadChain, Fetched, TypeOK
  <2> QED BY <2>1, <2>2
<1> QED
  BY <1>1, <1>2, <1>3, <1>4, <1>5, <1>6, <1>7, <1>8, <1>9
  DEF WatchInv, RowsTellAll, ToldAsAlerted

LEMMA AnswerKeeps == ASSUME WatchInv, NEW t \in Requests, Answer(t) PROVE WatchInv'
<1>1. TypeOK /\ TypeOK'
  BY DEF WatchInv, RowsTellAll, ToldAsAlerted, TypeOK, Answer, Results
<1>2. NothingToldWithoutAlert'
  BY <1>1 DEF WatchInv, RowsTellAll, ToldAsAlerted, NothingToldWithoutAlert,
      EveryResultHasTheLabels, Answer, TypeOK, Results
<1>3. NothingSeenUntold'
  BY <1>1 DEF WatchInv, RowsTellAll, ToldAsAlerted, NothingSeenUntold, KnownWasTold, Answer,
      TypeOK, Results
<1>4. BehindOnlyIfLate'
  BY <1>1 DEF WatchInv, RowsTellAll, ToldAsAlerted, BehindOnlyIfLate, KnownWasTold,
      SawAllUnlessBehind, NothingSeenUntold, Answer, TypeOK, Results
<1>5. NothingAheadOfTheChain'
  BY <1>1 DEF WatchInv, RowsTellAll, ToldAsAlerted, NothingAheadOfTheChain, Answer, TypeOK,
      Results
<1>6. EveryResultHasTheLabels'
  BY <1>1 DEF WatchInv, RowsTellAll, ToldAsAlerted, EveryResultHasTheLabels, Answer, TypeOK,
      Results
<1>7. GoneHaveNoRow'
  BY <1>1 DEF WatchInv, RowsTellAll, ToldAsAlerted, GoneHaveNoRow, KnownWasTold, Answer, TypeOK,
      Results
<1>8. KnownWasTold'
  BY <1>1 DEF WatchInv, RowsTellAll, ToldAsAlerted, KnownWasTold, NothingSeenUntold,
      GoneHaveNoRow, Answer, TypeOK, Results
<1>9. SawAllUnlessBehind'
  BY <1>1 DEF WatchInv, RowsTellAll, ToldAsAlerted, SawAllUnlessBehind, NothingAheadOfTheChain,
      KnownWasTold, Answer, TypeOK, Results
<1> QED
  BY <1>1, <1>2, <1>3, <1>4, <1>5, <1>6, <1>7, <1>8, <1>9
  DEF WatchInv, RowsTellAll, ToldAsAlerted

LEMMA CreateKeeps == ASSUME WatchInv, NEW t \in Requests, Create(t) PROVE WatchInv'
<1>0. (\E free \in Wallets : Unused(free)) => NewId \in Wallets /\ Unused(NewId)
  BY DEF NewId
<1>1. TypeOK /\ TypeOK'
  <2>1. TypeOK
    BY DEF WatchInv, RowsTellAll, ToldAsAlerted
  <2>2. req[t].result \in Results /\ NewId \in Wallets
    BY <1>0, <2>1 DEF TypeOK, Create, Ready
  <2>3. alerts' \subseteq Wallets \X Evidence
    BY <2>1, <2>2 DEF TypeOK, Create, Raised, Results
  <2>4. /\ wallet' \in [Wallets -> Numbers \cup {None}]
        /\ told' \in [Wallets -> Results]
    BY <2>1, <2>2 DEF TypeOK, Create, Results
  <2> QED
    BY <2>1, <2>3, <2>4 DEF TypeOK, Create
<1>2. NothingToldWithoutAlert'
  BY <1>0, <1>1 DEF WatchInv, RowsTellAll, ToldAsAlerted, NothingToldWithoutAlert,
      EveryResultHasTheLabels, Create, Ready, Raised, TypeOK, Results
<1>3. NothingSeenUntold'
  BY <1>0, <1>1 DEF WatchInv, RowsTellAll, ToldAsAlerted, NothingSeenUntold, KnownWasTold,
      Create, Ready, Raised, TypeOK, Results
<1>4. BehindOnlyIfLate'
  BY <1>0, <1>1 DEF WatchInv, RowsTellAll, ToldAsAlerted, BehindOnlyIfLate, KnownWasTold,
      SawAllUnlessBehind, NothingSeenUntold, Create, Ready, Raised, TypeOK, Results
<1>5. NothingAheadOfTheChain'
  BY <1>0, <1>1 DEF WatchInv, RowsTellAll, ToldAsAlerted, NothingAheadOfTheChain, Create, Ready,
      Raised, TypeOK, Results
<1>6. EveryResultHasTheLabels'
  BY <1>0, <1>1 DEF WatchInv, RowsTellAll, ToldAsAlerted, EveryResultHasTheLabels, Create,
      Ready, Raised, TypeOK, Results
<1>7. GoneHaveNoRow'
  BY <1>0, <1>1 DEF WatchInv, RowsTellAll, ToldAsAlerted, GoneHaveNoRow, KnownWasTold, Create,
      Ready, Raised, TypeOK, Results
<1>8. KnownWasTold'
  BY <1>0, <1>1 DEF WatchInv, RowsTellAll, ToldAsAlerted, KnownWasTold, NothingSeenUntold,
      GoneHaveNoRow, Create, Ready, Raised, TypeOK, Results
<1>9. SawAllUnlessBehind'
  BY <1>0, <1>1 DEF WatchInv, RowsTellAll, ToldAsAlerted, SawAllUnlessBehind,
      NothingAheadOfTheChain, KnownWasTold, Create, Ready, Raised, TypeOK, Results
<1> QED
  BY <1>1, <1>2, <1>3, <1>4, <1>5, <1>6, <1>7, <1>8, <1>9
  DEF WatchInv, RowsTellAll, ToldAsAlerted

LEMMA RescreenKeeps == ASSUME WatchInv, NEW t \in Requests, Rescreen(t) PROVE WatchInv'
<1>1. TypeOK /\ TypeOK'
  <2>1. TypeOK
    BY DEF WatchInv, RowsTellAll, ToldAsAlerted
  <2>2. req[t].wallet \in Wallets /\ req[t].result \in Results
    BY <2>1 DEF TypeOK, Rescreen, Ready
  <2>3. req' \in [Requests ->
          {None} \cup [at : {"asked"}, wallet : Wallets \cup {None}, known : Numbers]
            \cup [at : {"fetched", "answered"}, wallet : Wallets \cup {None}, known : Numbers,
                  result : Results, behind : BOOLEAN]]
    <3> SUFFICES ASSUME NEW x \in Requests, x # t, req[x] # None, req[x].at # "asked"
                 PROVE  [req[x] EXCEPT !.behind = TRUE] \in
                          [at : {"fetched", "answered"}, wallet : Wallets \cup {None},
                           known : Numbers, result : Results, behind : BOOLEAN]
      BY <2>1 DEF Rescreen, Overtake, TypeOK
    <3> QED
      BY <2>1 DEF TypeOK
  <2>4. alerts' \subseteq Wallets \X Evidence
    BY <2>1, <2>2 DEF TypeOK, Rescreen, Raised, Results
  <2>5. /\ wallet' \in [Wallets -> Numbers \cup {None}]
        /\ told' \in [Wallets -> Results]
    BY <2>1, <2>2 DEF TypeOK, Rescreen, Results
  <2> QED
    BY <2>1, <2>3, <2>4, <2>5 DEF TypeOK, Rescreen
<1>2. NothingToldWithoutAlert'
  <2> DEFINE w == req[t].wallet
  <2>1. /\ w \in Watched /\ alerts \subseteq alerts' /\ {w} \X req[t].result.reasons \subseteq alerts'
        /\ Labels \subseteq req[t].result.reasons
        /\ told'[w] \in {told[w], req[t].result}
        /\ \A x \in Wallets \ {w} : told'[x] = told[x] /\ wallet'[x] = wallet[x]
    BY <1>1 DEF WatchInv, EveryResultHasTheLabels, Rescreen, Ready, Raised, TypeOK
  <2>2. \A x \in Watched : {x} \X (Labels \cup told[x].reasons) \subseteq alerts
    BY DEF WatchInv, RowsTellAll, ToldAsAlerted, NothingToldWithoutAlert
  <2> HIDE DEF w
  <2>3. ASSUME NEW x \in Wallets, wallet'[x] # None
        PROVE  {x} \X (Labels \cup told'[x].reasons) \subseteq alerts'
    <3>1. CASE x = w
      BY <2>1, <2>2, <3>1
    <3>2. CASE x # w
      BY <2>1, <2>2, <2>3, <3>2
    <3> QED BY <3>1, <3>2
  <2> QED BY <2>3 DEF NothingToldWithoutAlert
<1>3. NothingSeenUntold'
  <2> DEFINE w == req[t].wallet
             new == req[t].result.activity
  <2>1. w \in Watched /\ req[t].known <= told[w].activity /\ new \in Numbers /\ req[t].known \in Numbers
    BY <1>1 DEF WatchInv, KnownWasTold, GoneHaveNoRow, Rescreen, Ready, TypeOK, Results
  <2>2. /\ wallet'[w] = new /\ told'[w].activity \in {told[w].activity, new}
        /\ new > req[t].known /\ new > told[w].activity => told'[w].activity = new
        /\ told'[w].activity # new => told'[w].activity = told[w].activity
    BY <1>1, <2>1 DEF Rescreen, IsNews, TypeOK
  <2>3. told[w].activity \in Numbers
    BY <1>1, <2>1 DEF TypeOK, Results
  <2>4. wallet'[w] <= told'[w].activity
    BY <2>1, <2>2, <2>3
  <2>5. ASSUME NEW x \in Wallets \ {w}, wallet'[x] # None PROVE wallet'[x] <= told'[x].activity
    BY <1>1, <2>5 DEF WatchInv, RowsTellAll, ToldAsAlerted, NothingSeenUntold, Rescreen, TypeOK
  <2> QED BY <2>4, <2>5 DEF NothingSeenUntold
<1>4. BehindOnlyIfLate'
  BY <1>1 DEF WatchInv, RowsTellAll, ToldAsAlerted, BehindOnlyIfLate, KnownWasTold,
      SawAllUnlessBehind, NothingSeenUntold, Rescreen, Ready, Raised, IsNews, Overtake, TypeOK,
      Results
<1>5. NothingAheadOfTheChain'
  BY <1>1 DEF WatchInv, RowsTellAll, ToldAsAlerted, NothingAheadOfTheChain, Rescreen, Ready,
      Raised, IsNews, Overtake, TypeOK, Results
<1>6. EveryResultHasTheLabels'
  BY <1>1 DEF WatchInv, RowsTellAll, ToldAsAlerted, EveryResultHasTheLabels, Rescreen, Ready,
      Raised, IsNews, Overtake, TypeOK, Results
<1>7. GoneHaveNoRow'
  BY <1>1 DEF WatchInv, RowsTellAll, ToldAsAlerted, GoneHaveNoRow, KnownWasTold, Rescreen,
      Ready, Raised, IsNews, Overtake, TypeOK, Results
<1>8. KnownWasTold'
  BY <1>1 DEF WatchInv, RowsTellAll, ToldAsAlerted, KnownWasTold, NothingSeenUntold,
      GoneHaveNoRow, Rescreen, Ready, Raised, IsNews, Overtake, TypeOK, Results
<1>9. SawAllUnlessBehind'
  BY <1>1 DEF WatchInv, RowsTellAll, ToldAsAlerted, SawAllUnlessBehind, NothingAheadOfTheChain,
      KnownWasTold, Rescreen, Ready, Raised, IsNews, Overtake, TypeOK, Results
<1> QED
  BY <1>1, <1>2, <1>3, <1>4, <1>5, <1>6, <1>7, <1>8, <1>9
  DEF WatchInv, RowsTellAll, ToldAsAlerted

LEMMA RescreenGoneKeeps == ASSUME WatchInv, NEW t \in Requests, RescreenGone(t) PROVE WatchInv'
<1>1. TypeOK /\ TypeOK'
  BY DEF WatchInv, RowsTellAll, ToldAsAlerted, TypeOK, RescreenGone, Ready, AlertedWithoutRow,
      Results
<1>2. NothingToldWithoutAlert'
  BY <1>1 DEF WatchInv, RowsTellAll, ToldAsAlerted, NothingToldWithoutAlert,
      EveryResultHasTheLabels, RescreenGone, Ready, AlertedWithoutRow, TypeOK, Results
<1>3. NothingSeenUntold'
  BY <1>1 DEF WatchInv, RowsTellAll, ToldAsAlerted, NothingSeenUntold, KnownWasTold,
      RescreenGone, Ready, AlertedWithoutRow, TypeOK, Results
<1>4. BehindOnlyIfLate'
  BY <1>1 DEF WatchInv, RowsTellAll, ToldAsAlerted, BehindOnlyIfLate, KnownWasTold,
      SawAllUnlessBehind, NothingSeenUntold, RescreenGone, Ready, AlertedWithoutRow, TypeOK,
      Results
<1>5. NothingAheadOfTheChain'
  BY <1>1 DEF WatchInv, RowsTellAll, ToldAsAlerted, NothingAheadOfTheChain, RescreenGone, Ready,
      AlertedWithoutRow, TypeOK, Results
<1>6. EveryResultHasTheLabels'
  BY <1>1 DEF WatchInv, RowsTellAll, ToldAsAlerted, EveryResultHasTheLabels, RescreenGone,
      Ready, AlertedWithoutRow, TypeOK, Results
<1>7. GoneHaveNoRow'
  BY <1>1 DEF WatchInv, RowsTellAll, ToldAsAlerted, GoneHaveNoRow, KnownWasTold, RescreenGone,
      Ready, AlertedWithoutRow, TypeOK, Results
<1>8. KnownWasTold'
  BY <1>1 DEF WatchInv, RowsTellAll, ToldAsAlerted, KnownWasTold, NothingSeenUntold,
      GoneHaveNoRow, RescreenGone, Ready, AlertedWithoutRow, TypeOK, Results
<1>9. SawAllUnlessBehind'
  BY <1>1 DEF WatchInv, RowsTellAll, ToldAsAlerted, SawAllUnlessBehind, NothingAheadOfTheChain,
      KnownWasTold, RescreenGone, Ready, AlertedWithoutRow, TypeOK, Results
<1> QED
  BY <1>1, <1>2, <1>3, <1>4, <1>5, <1>6, <1>7, <1>8, <1>9
  DEF WatchInv, RowsTellAll, ToldAsAlerted

LEMMA RemoveWalletKeeps == ASSUME WatchInv, NEW w \in Wallets, RemoveWallet(w) PROVE WatchInv'
<1>1. TypeOK /\ TypeOK'
  BY DEF WatchInv, RowsTellAll, ToldAsAlerted, TypeOK, RemoveWallet, Results
<1>2. NothingToldWithoutAlert'
  BY <1>1 DEF WatchInv, RowsTellAll, ToldAsAlerted, NothingToldWithoutAlert,
      EveryResultHasTheLabels, RemoveWallet, TypeOK, Results
<1>3. NothingSeenUntold'
  BY <1>1 DEF WatchInv, RowsTellAll, ToldAsAlerted, NothingSeenUntold, KnownWasTold,
      RemoveWallet, TypeOK, Results
<1>4. BehindOnlyIfLate'
  BY <1>1 DEF WatchInv, RowsTellAll, ToldAsAlerted, BehindOnlyIfLate, KnownWasTold,
      SawAllUnlessBehind, NothingSeenUntold, RemoveWallet, TypeOK, Results
<1>5. NothingAheadOfTheChain'
  BY <1>1 DEF WatchInv, RowsTellAll, ToldAsAlerted, NothingAheadOfTheChain, RemoveWallet,
      TypeOK, Results
<1>6. EveryResultHasTheLabels'
  BY <1>1 DEF WatchInv, RowsTellAll, ToldAsAlerted, EveryResultHasTheLabels, RemoveWallet,
      TypeOK, Results
<1>7. GoneHaveNoRow'
  BY <1>1 DEF WatchInv, RowsTellAll, ToldAsAlerted, GoneHaveNoRow, KnownWasTold, RemoveWallet,
      TypeOK, Results
<1>8. KnownWasTold'
  BY <1>1 DEF WatchInv, RowsTellAll, ToldAsAlerted, KnownWasTold, NothingSeenUntold,
      GoneHaveNoRow, RemoveWallet, TypeOK, Results
<1>9. SawAllUnlessBehind'
  BY <1>1 DEF WatchInv, RowsTellAll, ToldAsAlerted, SawAllUnlessBehind, NothingAheadOfTheChain,
      KnownWasTold, RemoveWallet, TypeOK, Results
<1> QED
  BY <1>1, <1>2, <1>3, <1>4, <1>5, <1>6, <1>7, <1>8, <1>9
  DEF WatchInv, RowsTellAll, ToldAsAlerted

LEMMA FailKeeps == ASSUME WatchInv, NEW t \in Requests, Fail(t) PROVE WatchInv'
<1>1. TypeOK /\ TypeOK'
  BY DEF WatchInv, RowsTellAll, ToldAsAlerted, TypeOK, Fail, Results
<1>2. NothingToldWithoutAlert'
  BY <1>1 DEF WatchInv, RowsTellAll, ToldAsAlerted, NothingToldWithoutAlert,
      EveryResultHasTheLabels, Fail, TypeOK, Results
<1>3. NothingSeenUntold'
  BY <1>1 DEF WatchInv, RowsTellAll, ToldAsAlerted, NothingSeenUntold, KnownWasTold, Fail,
      TypeOK, Results
<1>4. BehindOnlyIfLate'
  BY <1>1 DEF WatchInv, RowsTellAll, ToldAsAlerted, BehindOnlyIfLate, KnownWasTold,
      SawAllUnlessBehind, NothingSeenUntold, Fail, TypeOK, Results
<1>5. NothingAheadOfTheChain'
  BY <1>1 DEF WatchInv, RowsTellAll, ToldAsAlerted, NothingAheadOfTheChain, Fail, TypeOK,
      Results
<1>6. EveryResultHasTheLabels'
  BY <1>1 DEF WatchInv, RowsTellAll, ToldAsAlerted, EveryResultHasTheLabels, Fail, TypeOK,
      Results
<1>7. GoneHaveNoRow'
  BY <1>1 DEF WatchInv, RowsTellAll, ToldAsAlerted, GoneHaveNoRow, KnownWasTold, Fail, TypeOK,
      Results
<1>8. KnownWasTold'
  BY <1>1 DEF WatchInv, RowsTellAll, ToldAsAlerted, KnownWasTold, NothingSeenUntold,
      GoneHaveNoRow, Fail, TypeOK, Results
<1>9. SawAllUnlessBehind'
  BY <1>1 DEF WatchInv, RowsTellAll, ToldAsAlerted, SawAllUnlessBehind, NothingAheadOfTheChain,
      KnownWasTold, Fail, TypeOK, Results
<1> QED
  BY <1>1, <1>2, <1>3, <1>4, <1>5, <1>6, <1>7, <1>8, <1>9
  DEF WatchInv, RowsTellAll, ToldAsAlerted

-----------------------------------------------------------------------------
LEMMA StepKeeps == ASSUME WatchInv, [Next]_vars PROVE WatchInv'
<1>1. CASE Next
  BY <1>1, TransferKeeps, ForgetKeeps, RemoveWalletKeeps, AskCreateKeeps, LookupKeeps,
     ReadChainKeeps, AnswerKeeps, RescreenKeeps, RescreenGoneKeeps, FailKeeps, AskRescreenKeeps,
     CreateKeeps DEF Next
<1>2. CASE UNCHANGED vars
  BY <1>2 DEF vars, WatchInv, RowsTellAll, ToldAsAlerted, TypeOK, NothingToldWithoutAlert,
      NothingSeenUntold, BehindOnlyIfLate, NothingAheadOfTheChain, EveryResultHasTheLabels,
      GoneHaveNoRow, KnownWasTold, SawAllUnlessBehind
<1> QED
  BY <1>1, <1>2

(* Every order of creates, refreshes, rescreens and removals keeps it.      *)
THEOREM WatchlistIsSound == Spec => []WatchInv
BY InitInv, StepKeeps, PTL DEF Spec

(* What a row shows was told, what was told has its alerts, and a row goes  *)
(* back behind it only when the last screen to write it was overtaken or    *)
(* had missed the newest transfer, whatever part of the chain screens read. *)
THEOREM RowsAndAlertsAgree == Spec => []RowsTellAll
<1>1. WatchInv => RowsTellAll
  BY DEF WatchInv
<1> QED
  BY <1>1, WatchlistIsSound, PTL

-----------------------------------------------------------------------------
(* No new alert for a wallet that is gone. *)
NoNewAlert == \A w \in gone, k \in Evidence : <<w, k>> \in alerts' => <<w, k>> \in alerts

LEMMA AlertStep == ASSUME WatchInv, [Next]_vars PROVE NoNewAlert
<1>1. TypeOK /\ GoneHaveNoRow
  BY DEF WatchInv, RowsTellAll, ToldAsAlerted
<1>2. ASSUME NEW t \in Requests, Create(t) PROVE NoNewAlert
  <2>1. NewId \in Wallets /\ Unused(NewId)
    BY <1>2 DEF Create, NewId
  <2> QED
    BY <1>1, <1>2, <2>1 DEF NoNewAlert, Create, Raised
<1>3. ASSUME NEW t \in Requests, Rescreen(t) PROVE NoNewAlert
  BY <1>1, <1>3 DEF NoNewAlert, Rescreen, Raised, GoneHaveNoRow
<1>4. ASSUME NEW t \in Requests, RescreenGone(t) PROVE NoNewAlert
  BY <1>4 DEF NoNewAlert, RescreenGone, AlertedWithoutRow
<1>5. CASE alerts' = alerts
  BY <1>5 DEF NoNewAlert
<1>6. \/ alerts' = alerts
      \/ \E t \in Requests : Rescreen(t) \/ RescreenGone(t) \/ Create(t)
  BY DEF Next, vars, Transfer, Forget, RemoveWallet, AskCreate, Lookup, ReadChain, Fetched, Answer,
      Fail, AskRescreen
<1> QED
  BY <1>2, <1>3, <1>4, <1>5, <1>6

(* A screen that is under way while its wallet is removed opens no alert.   *)
THEOREM GoneWalletsRaiseNothing == Spec => NoAlertOnceGone
<1>1. WatchInv /\ [Next]_vars => [NoNewAlert]_vars
  BY AlertStep
<1> QED
  BY <1>1, WatchlistIsSound, PTL DEF Spec, NoAlertOnceGone, NoNewAlert

=================================================================================
