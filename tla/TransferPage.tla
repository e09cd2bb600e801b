---- MODULE TransferPage ----
(***************************************************************************)
(* The page of one Travel Rule transfer (apps/web/app/app/travel-rule/     *)
(* [id]/page.tsx): its cached copy, the dialog that confirms a change of   *)
(* status with a transaction hash in the note (transition-dialog.tsx), and *)
(* what status.tsx and status-track.tsx make of the history.  A colleague  *)
(* moves the same transfer.  The handler of an answer runs although the    *)
(* dialog that asked is closed, or open again for another change.  Of a    *)
(* note there is the hash that its text names on a line of its own, as a   *)
(* confirmed one is noted, and the confirmed one, which comes after it.    *)
(* The checks of the note and of the hash's digits are left out.           *)
(***************************************************************************)
EXTENDS Integers, SequencesExt

CONSTANTS Hashes,     \* transaction hashes
          Lines,      \* what the text of a note may name as one
          MaxChanges, \* bound: changes of status the user confirms
          None

VARIABLES status, events,   \* the API: the transfer, its history, and the hash given
          txHash,           \* when it was created, or None
          copy,             \* the cached transfer: [status, events]
          fetch,            \* the request for it: [state, answer], "idle", "asked" or "answered"
          to, hash,         \* the dialog: the status it asks to confirm, or None; its hash field
          sends,            \* changes under way: [id, to, own, hash, answer]
          pending,          \* the one the dialog's button waits for, or None
          sent, behind      \* history variable: somebody else's change, or one whose answer was
                            \* lost, may be missing from the copy

vars == <<status, events, txHash, copy, fetch, to, hash, sends, pending, sent, behind>>
Api == <<status, events, txHash>>
Typed == <<to, hash>>

TRAVEL_RULE_TRANSITIONS ==
  [draft |-> {"awaiting_counterparty", "unhosted_verification"},
   awaiting_counterparty |-> {"acknowledged", "rejected"}, acknowledged |-> {"accepted", "rejected"},
   accepted |-> {"settled"}, rejected |-> {}, unhosted_verification |-> {"settled", "rejected"}, settled |-> {}]
Statuses == DOMAIN TRAVEL_RULE_TRANSITIONS
Transfer == [status |-> status, events |-> events]

Init ==
  /\ status = "draft" /\ events = <<[status |-> "draft", own |-> None, hash |-> None]>> /\ txHash \in Hashes \cup {None}
  /\ copy = Transfer /\ fetch = [state |-> "idle", answer |-> Transfer] /\ to = None /\ hash = None
  /\ sends = {} /\ pending = None /\ sent = 0 /\ behind = FALSE

------------------------------------------------------------------------------
(* What the page makes of the transfer.                                    *)

\* The first line of a note that begins as the one of a confirmed hash does.
Line(e) == IF e.own # None THEN e.own ELSE e.hash

\* The hash given at the start, else the one of the last note with such a line.
txHashFromEvents(t) ==
  LET noted == {i \in DOMAIN t.events : Line(t.events[i]) # None} IN
    IF txHash # None THEN txHash ELSE IF noted = {} THEN None ELSE Line(t.events[Max(noted)])

MAIN == <<"draft", "awaiting_counterparty", "acknowledged", "accepted", "settled">>
UNHOSTED == <<"draft", "unhosted_verification", "settled">>
Visited(t) == {t.events[i].status : i \in DOMAIN t.events}
Path(t) == IF "unhosted_verification" \in Visited(t) THEN UNHOSTED ELSE MAIN

\* A rejection takes the place of what comes after the last status that was reached.
AfterAll(t) == IF t.status = "rejected" THEN Path(t) \o <<"rejected">> ELSE Path(t)
trackSteps(t) ==
  LET reached == {i \in DOMAIN Path(t) : Path(t)[i] \in Visited(t)} IN
    IF t.status = "rejected" THEN SubSeq(Path(t), 1, Max(reached)) \o <<"rejected">> ELSE Path(t)

------------------------------------------------------------------------------
(* The dialog.                                                             *)

\* Opening it empties its fields and forgets what it waited for.
Open(s, h) ==
  /\ to = None /\ s \in TRAVEL_RULE_TRANSITIONS[copy.status]
  /\ to' = s /\ hash' = h /\ pending' = None
  /\ UNCHANGED <<Api, copy, fetch, sends, sent, behind>>
OpenFromHeader(s) == Open(s, None)
\* The form beside the history has a field of its own.
MarkSettled == \E h \in Hashes \cup {None} : Open("settled", h)

Close ==
  /\ to # None /\ to' = None /\ hash' = None
  /\ UNCHANGED <<Api, copy, fetch, sends, pending, sent, behind>>

Type(h) ==
  /\ to \in {"accepted", "settled"} /\ hash' = h
  /\ UNCHANGED <<Api, copy, fetch, to, sends, pending, sent, behind>>

Only(outcome) == [status |-> outcome, events |-> <<>>]
Submit(own) ==
  /\ to # None /\ pending = None /\ sent < MaxChanges
  /\ sends' = sends \cup {[id |-> sent, to |-> to, own |-> own, hash |-> hash,
                           answer |-> Only("awaited")]}
  /\ pending' = sent /\ sent' = sent + 1
  /\ UNCHANGED <<Api, Typed, copy, fetch, behind>>

------------------------------------------------------------------------------
(* The API.                                                                *)

Applied(q) == q.answer.status \in Statuses
Moved(s, own, h) == status' = s /\ events' = Append(events, [status |-> s, own |-> own, hash |-> h])

\* A change that its row's status does not allow is a conflict.
Serve(q) ==
  /\ q.answer.status = "awaited"
  /\ \/ /\ q.to \in TRAVEL_RULE_TRANSITIONS[status] /\ Moved(q.to, q.own, q.hash)
        /\ sends' = (sends \ {q}) \cup {[q EXCEPT !.answer = [status |-> status', events |-> events']]}
     \/ /\ q.to \notin TRAVEL_RULE_TRANSITIONS[status] /\ UNCHANGED <<status, events>>
        /\ sends' = (sends \ {q}) \cup {[q EXCEPT !.answer = Only("conflict")]}
  /\ UNCHANGED <<txHash, Typed, copy, fetch, pending, sent, behind>>

\* No answer, or another error: it may have been done.
Cut(q) ==
  /\ q.answer.status # "error"
  /\ sends' = (sends \ {q}) \cup {[q EXCEPT !.answer = Only("error")]}
  /\ behind' = (behind \/ Applied(q))
  /\ UNCHANGED <<Api, Typed, copy, fetch, pending, sent>>

Colleague(s) ==
  /\ s \in TRAVEL_RULE_TRANSITIONS[status] /\ Moved(s, None, None) /\ behind' = TRUE
  /\ UNCHANGED <<txHash, Typed, copy, fetch, sends, pending, sent>>

------------------------------------------------------------------------------
(* Answers.                                                                *)

Waited(q) == pending' = IF pending = q.id THEN None ELSE pending

\* The answer is the transfer; then every list and the transfer itself are fetched again,
\* and an older request for it is dropped.
Asked == fetch' = [state |-> "asked", answer |-> copy]
OnlyTheAnswer(q) ==
  /\ Applied(q) /\ copy' = q.answer /\ UNCHANGED fetch
  /\ to' = None /\ hash' = None /\ Waited(q) /\ sends' = sends \ {q}
  /\ UNCHANGED <<Api, sent, behind>>
Done(q) ==
  /\ Applied(q) /\ copy' = q.answer /\ Asked
  /\ to' = None /\ hash' = None /\ Waited(q) /\ sends' = sends \ {q}
  /\ UNCHANGED <<Api, sent, behind>>

\* A conflict closes the dialog and fetches nothing; any other error is shown in it.
NotDone(q) ==
  /\ q.answer.status \in {"conflict", "error"}
  /\ to' = IF q.answer.status = "conflict" THEN None ELSE to
  /\ hash' = IF to' = None THEN None ELSE hash
  /\ Waited(q) /\ sends' = sends \ {q}
  /\ UNCHANGED <<Api, copy, fetch, sent, behind>>

\* The page is entered again when its copy is old.
Refetch ==
  /\ fetch.state = "idle" /\ to = None /\ behind /\ Asked
  /\ UNCHANGED <<Api, Typed, copy, sends, pending, sent, behind>>
ServeFetch ==
  /\ fetch.state = "asked" /\ fetch' = [state |-> "answered", answer |-> Transfer] /\ behind' = FALSE
  /\ UNCHANGED <<Api, Typed, copy, sends, pending, sent>>
FetchArrives ==
  /\ fetch.state = "answered" /\ copy' = fetch.answer /\ fetch' = [state |-> "idle", answer |-> copy']
  /\ UNCHANGED <<Api, Typed, sends, pending, sent, behind>>
FetchFails ==
  /\ fetch.state # "idle" /\ fetch' = [state |-> "idle", answer |-> copy] /\ behind' = TRUE
  /\ UNCHANGED <<Api, Typed, copy, sends, pending, sent>>

Next ==
  \/ \E s \in Statuses : OpenFromHeader(s) \/ Colleague(s)
  \/ MarkSettled \/ Close
  \/ \E h \in Hashes \cup {None} : Type(h)
  \/ \E own \in Lines \cup {None} : Submit(own)
  \/ \E q \in sends : Serve(q) \/ Cut(q) \/ Done(q) \/ NotDone(q)
  \/ Refetch \/ ServeFetch \/ FetchArrives \/ FetchFails
Spec == Init /\ [][Next]_vars

------------------------------------------------------------------------------
(* Properties.                                                             *)

\* With nothing under way the page shows the transfer as it is, in whatever order the
\* answers of several changes came, but for what only a colleague or a lost answer did.
CopyCatchesUp == (fetch.state = "idle" /\ sends = {}) => (copy = Transfer \/ behind)

\* The track shows every status the transfer was in, in their order, and up to the current one
\* no other.
TrackTellsHistory ==
  LET steps == trackSteps(copy)
      at(s) == CHOOSE i \in DOMAIN steps : steps[i] = s IN
    /\ Visited(copy) \subseteq ToSet(steps)
    /\ \A i, j \in DOMAIN copy.events : i < j => at(copy.events[i].status) < at(copy.events[j].status)
    /\ \A s \in ToSet(steps) : at(s) <= at(copy.status) <=> s \in Visited(copy)

\* What is shown as the hash of a transfer, if none was given at the start, is the one its
\* settlement was confirmed with, whatever hashes the steps before it noted; but a settlement
\* whose own text has a line for a hash shows that one, which comes first in the note.
SettlementHashShown ==
  LET settlement == Last(copy.events) IN
    (copy.status = "settled" /\ txHash = None /\ settlement.hash # None)
      => txHashFromEvents(copy) = IF settlement.own = None THEN settlement.hash ELSE settlement.own

------------------------------------------------------------------------------
(* Why these hold: the strengthening, of which each step keeps every part. *)

\* A history goes down one of the two paths, and may end in a rejection.
Follows(es, path, n) ==
  /\ n \in DOMAIN path /\ \A i \in 1..n : es[i].status = path[i]
  /\ path = UNHOSTED => n >= 2
Past(es) ==
  \E path \in {MAIN, UNHOSTED} :
    \/ Follows(es, path, Len(es))
    \/ Follows(es, path, Len(es) - 1) /\ Len(es) >= 3 /\ es[Len(es)].status = "rejected"
HistorySound(t) ==
  /\ t.events \in Seq([status : Statuses, own : Lines \cup {None}, hash : Hashes \cup {None}])
  /\ Past(t.events) /\ t.status = t.events[Len(t.events)].status

\* The copy is the transfer, or something on its way will bring that.
CopySound ==
  \/ behind \/ \E q \in sends : Applied(q)
  \/ fetch.state = "asked"
  \/ fetch.state = "answered" /\ fetch.answer = Transfer
  \/ fetch.state = "idle" /\ copy = Transfer

TransferInv ==
  /\ HistorySound(Transfer) /\ HistorySound(copy) /\ HistorySound(fetch.answer)
  /\ DOMAIN fetch = {"state", "answer"}
  /\ hash \in Hashes \cup {None}
  /\ \A q \in sends :
       /\ DOMAIN q = {"id", "to", "own", "hash", "answer"}
       /\ q.own \in Lines \cup {None} /\ q.hash \in Hashes \cup {None}
       /\ Applied(q) => HistorySound(q.answer)
  /\ CopySound

==============================================================================
