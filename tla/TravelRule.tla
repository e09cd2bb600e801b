---- MODULE TravelRule ----
(***************************************************************************)
(* The Travel Rule transfers of one organisation                           *)
(* (apps/api/src/travel-rule/travel-rule.service.ts and the transition     *)
(* table of packages/core/src/travel-rule.ts).                             *)
(*                                                                         *)
(* A transfer is a row with a status and a reference that is unique in the *)
(* organisation, and a history: one travel_rule_events row per status it   *)
(* has had.  create() inserts the row in a transaction of its own and      *)
(* tries again with a new reference when the unique index refuses it.      *)
(* transition() locks the row, reads the status it now has, and writes the *)
(* new status and its event in one transaction.  A request is a worker; a  *)
(* transaction that has not committed changes nothing anyone else sees.    *)
(* The audit record and the webhook event of each transaction commit with  *)
(* it (AuditChain, WebhookOutbox).                                         *)
(***************************************************************************)
EXTENDS Integers, Sequences

CONSTANTS Transfers,   \* the transfers that may be created
          References,  \* the references newReference() can draw
          Workers,     \* requests that run at the same time
          Attempts,    \* REFERENCE_ATTEMPTS, 5 in the code
          MaxClock,    \* bound: the last instant considered
          MaxHistory,  \* bound: the events of one transfer
          Nothing

VARIABLES clock,       \* the time, which every instance reads alike
          row,         \* row[t]: the committed row, or Nothing
          history,     \* history[t]: its events in the order they committed
          op           \* op[w]: the request worker w is running

trVars == <<clock, row, history, op>>

Statuses == {"draft", "awaiting_counterparty", "acknowledged", "accepted",
             "rejected", "unhosted_verification", "settled"}

\* TRAVEL_RULE_TRANSITIONS
canTransition(from, to) ==
  \/ from = "draft" /\ to \in {"awaiting_counterparty", "unhosted_verification"}
  \/ from = "awaiting_counterparty" /\ to \in {"acknowledged", "rejected"}
  \/ from = "acknowledged" /\ to \in {"accepted", "rejected"}
  \/ from = "accepted" /\ to = "settled"
  \/ from = "unhosted_verification" /\ to \in {"settled", "rejected"}

Idle == [pc |-> "idle"]

Init ==
  /\ clock = 0
  /\ row = [t \in Transfers |-> Nothing]
  /\ history = [t \in Transfers |-> <<>>]
  /\ op = [w \in Workers |-> Idle]

Tick ==
  /\ clock < MaxClock
  /\ clock' = clock + 1
  /\ UNCHANGED <<row, history, op>>

Finish(w) == op' = [op EXCEPT ![w] = Idle]

------------------------------------------------------------------------------
(* create: the originator's data is checked before anything is written.    *)

Present == {t \in Transfers : row[t] # Nothing}

Requested(t) == \E w \in Workers : op[w].pc \in {"inserting", "inserted"} /\ op[w].transfer = t

\* checkTravelRule decides whether the jurisdiction requires the data;
\* originatorHasIdentifier whether the request brings it.
Create(w, t, required, identified) ==
  /\ op[w].pc = "idle"
  /\ row[t] = Nothing /\ ~Requested(t)
  /\ required => identified
  /\ \E r \in References :
       op' = [op EXCEPT ![w] = [pc |-> "inserting", transfer |-> t, reference |-> r,
                                attempt |-> 1, at |-> clock]]
  /\ UNCHANGED <<clock, row, history>>

\* travel_rule_org_reference_key: a committed row has the reference; one that
\* is being inserted makes the second insert wait for its outcome.
Used(r) == \E t \in Present : row[t].reference = r
Claimed(w, r) == \E v \in Workers \ {w} : op[v].pc = "inserted" /\ op[v].reference = r

Insert(w) ==
  /\ op[w].pc = "inserting"
  /\ ~Used(op[w].reference) /\ ~Claimed(w, op[w].reference)
  /\ op' = [op EXCEPT ![w].pc = "inserted"]
  /\ UNCHANGED <<clock, row, history>>

\* A unique violation rolls the transaction back; the next attempt begins its
\* own, with a reference of its own and a creation time of its own.
Collide(w) ==
  /\ op[w].pc = "inserting"
  /\ Used(op[w].reference)
  /\ \/ /\ op[w].attempt < Attempts
        /\ \E r \in References :
             op' = [op EXCEPT ![w].reference = r, ![w].attempt = @ + 1, ![w].at = clock]
     \/ op[w].attempt >= Attempts /\ Finish(w)
  /\ UNCHANGED <<clock, row, history>>

CommitCreate(w) ==
  /\ op[w].pc = "inserted"
  /\ LET t == op[w].transfer IN
       /\ row' = [row EXCEPT ![t] = [status |-> "draft", reference |-> op[w].reference]]
       /\ history' = [history EXCEPT ![t] = <<[status |-> "draft", at |-> op[w].at]>>]
  /\ Finish(w)
  /\ UNCHANGED clock

------------------------------------------------------------------------------
(* transition: the row is locked before its status is read.                *)

Ask(w, t, to) ==
  /\ op[w].pc = "idle"
  /\ row[t] # Nothing /\ Len(history[t]) < MaxHistory
  /\ op' = [op EXCEPT ![w] = [pc |-> "asked", transfer |-> t, to |-> to, at |-> clock]]
  /\ UNCHANGED <<clock, row, history>>

AnyRow(t) == TRUE   \* mutant: the row is read without FOR UPDATE

Unlocked(t) == \A v \in Workers : op[v].pc = "moving" => op[v].transfer # t

StampOnArrival(w) == op[w].at   \* mutant: `now` is taken before the lock is waited for

Stamp(w) == clock

\* One disjunct for the transition the table allows, one for the 409.
Decide(w) ==
  /\ op[w].pc = "asked"
  /\ Unlocked(op[w].transfer)
  /\ LET t == op[w].transfer IN
       \/ /\ canTransition(row[t].status, op[w].to)
          /\ op' = [op EXCEPT ![w] = [pc |-> "moving", transfer |-> t, to |-> op[w].to, at |-> Stamp(w)]]
       \/ ~canTransition(row[t].status, op[w].to) /\ Finish(w)
  /\ UNCHANGED <<clock, row, history>>

CommitMove(w) ==
  /\ op[w].pc = "moving"
  /\ LET t == op[w].transfer IN
       /\ row' = [row EXCEPT ![t].status = op[w].to]
       /\ history' = [history EXCEPT ![t] = Append(@, [status |-> op[w].to, at |-> op[w].at])]
  /\ Finish(w)
  /\ UNCHANGED clock

\* The process dies, or a statement of the transaction fails: nothing commits.
RollBack(w) ==
  /\ op[w].pc \in {"inserting", "inserted", "asked", "moving"}
  /\ Finish(w)
  /\ UNCHANGED <<clock, row, history>>

WorkerStep(w) ==
  \/ \E t \in Transfers, required, identified \in BOOLEAN : Create(w, t, required, identified)
  \/ Insert(w) \/ Collide(w) \/ CommitCreate(w)
  \/ \E t \in Transfers, to \in Statuses : Ask(w, t, to)
  \/ Decide(w) \/ CommitMove(w) \/ RollBack(w)

Next == Tick \/ \E w \in Workers : WorkerStep(w)

Spec == Init /\ [][Next]_trVars

------------------------------------------------------------------------------
(* What the transfers' history promises.                                   *)

\* A transfer's history starts as a draft, every later event is one the
\* transition table allows after the one before it, and its last event is the
\* status the row shows: two requests that both saw the same status never both
\* move the transfer.
HistoryIsALegalPath ==
  \A t \in Transfers : row[t] # Nothing =>
    /\ Len(history[t]) > 0
    /\ history[t][1].status = "draft"
    /\ \A i \in 1..(Len(history[t]) - 1) : canTransition(history[t][i].status, history[t][i + 1].status)
    /\ history[t][Len(history[t])].status = row[t].status

\* The events' times never run backwards in the order they were made, which is
\* what withEvents and the audit report rely on when they order events by time
\* to say which status came last.
HistoryInOrder ==
  \A t \in Transfers : \A i, j \in DOMAIN history[t] : i < j => history[t][i].at <= history[t][j].at

------------------------------------------------------------------------------
(* Transfers are records with a history.                                   *)

\* The change a transfer has under way: the insert that will create it, from
\* its first attempt on, or the transition that holds its row.
PendingOf(t) ==
  LET under == {w \in Workers : op[w].pc \in {"inserting", "inserted", "moving"} /\ op[w].transfer = t}
      o == op[CHOOSE w \in under : TRUE]
  IN IF under = {} THEN Nothing
     ELSE [status |-> IF o.pc = "moving" THEN o.to ELSE "draft", at |-> o.at]

TransferMoves == {<<Nothing, "draft">>} \cup {m \in Statuses \X Statuses : canTransition(m[1], m[2])}

Changing == [t \in Transfers |-> PendingOf(t)]
Records == INSTANCE RecordHistory WITH Items <- Transfers, Moves <- TransferMoves, pending <- Changing

\* TravelRule implements RecordHistory: one change of a transfer at a time,
\* stamped while no other is under way, and visible whole or not at all.
KeepsRecords == Records!Spec

------------------------------------------------------------------------------
(* Why these hold, whatever the requests: the strengthening the proofs need.*)

Creating(w) == op[w].pc \in {"inserting", "inserted"}
Moving(w) == op[w].pc = "moving"

TypeOK ==
  /\ clock \in Nat
  /\ row \in [Transfers -> [status : Statuses, reference : References] \cup {Nothing}]
  /\ history \in [Transfers -> Seq([status : Statuses, at : Nat])]
  /\ op \in [Workers ->
       {Idle}
       \cup [pc : {"inserting", "inserted"}, transfer : Transfers, reference : References, attempt : Nat, at : Nat]
       \cup [pc : {"asked", "moving"}, transfer : Transfers, to : Statuses, at : Nat]]

\* A transfer without a row has no history, and one request at most creates it.
CreatorIsAlone ==
  /\ \A t \in Transfers : row[t] = Nothing => history[t] = <<>>
  /\ \A w \in Workers : Creating(w) =>
       /\ row[op[w].transfer] = Nothing
       /\ \A v \in Workers : Creating(v) /\ op[v].transfer = op[w].transfer => v = w

\* Whoever moves a transfer is alone with its row, which is what it has read.
MoverIsAlone ==
  /\ \A w \in Workers : op[w].pc \in {"asked", "moving"} => row[op[w].transfer] # Nothing
  /\ \A w \in Workers : Moving(w) =>
       /\ canTransition(row[op[w].transfer].status, op[w].to)
       /\ \A v \in Workers : Moving(v) /\ op[v].transfer = op[w].transfer => v = w

\* What is under way is stamped with a time that has come and that no event of
\* the transfer is later than.
StampsAreLatest ==
  /\ \A t \in Transfers : \A i \in DOMAIN history[t] : history[t][i].at <= clock
  /\ \A w \in Workers : op[w].pc # "idle" => op[w].at <= clock
  /\ \A w \in Workers : Moving(w) =>
       \A i \in DOMAIN history[op[w].transfer] : history[op[w].transfer][i].at <= op[w].at

TransfersInv ==
  TypeOK /\ CreatorIsAlone /\ MoverIsAlone /\ StampsAreLatest /\ HistoryIsALegalPath /\ HistoryInOrder

==============================================================================
