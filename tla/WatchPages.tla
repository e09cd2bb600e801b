---- MODULE WatchPages ----
(***************************************************************************)
(* Watching a wallet and stopping (apps/web/app/app/wallets,               *)
(* components/monitor/watch-wallet-dialog.tsx): the list, the dialog that  *)
(* adds an address to it, the page of the wallet with the dialog that      *)
(* removes it, and the API (wallets.service.ts), for one address.  Each    *)
(* time it is watched it is another row.  Colleagues watch and stop too.   *)
(* The form's fields, their checks and what a dialog says of an error are  *)
(* left out.                                                               *)
(***************************************************************************)
EXTENDS Integers

CONSTANTS MaxSends,    \* bound: requests to watch or to stop
          MaxOthers,   \* bound: what colleagues do
          None

VARIABLES watched,     \* the API: the row of the address, or 0
          rows,        \* how many there have been
          list, fetch, \* the cached list, None before it came, and the request for it
          stale,       \* it is fetched when a page that shows it is next opened
          at,          \* the page: a row for that wallet's, Wallets or Away
          dialog,      \* None, "watch" or "stop"
          pending,     \* the request the dialog's button waits for, or None
          sends,       \* requests whose handler has not run: [id, kind, row, here, answer]
          sent, others,
          known,       \* the rows "View" or the browser's history leads to
          behind       \* history variable: others' doings, or one whose answer was not "done", may be missing

vars == <<watched, rows, list, fetch, stale, at, dialog, pending, sends, sent, others, known, behind>>
Api == <<watched, rows>>
Cache == <<list, fetch, stale>>
Asking == <<pending, sends, sent>>

Idle(answer) == [state |-> "idle", answer |-> answer]
Asked == [state |-> "asked", answer |-> list]
Wallets == 0
Away == -1
Shown == at # Away

Init ==
  /\ rows \in 0..1 /\ watched = rows /\ list = None /\ stale = FALSE /\ fetch = Asked /\ at = Wallets
  /\ dialog = None /\ pending = None /\ sends = {} /\ sent = 0 /\ others = 0
  /\ known = {} /\ behind = FALSE

------------------------------------------------------------------------------
(* The dialogs.                                                            *)

\* Opening it empties the form and forgets what the button waited for.
OpenWatch ==
  /\ at = Wallets /\ dialog = None /\ dialog' = "watch" /\ pending' = None
  /\ UNCHANGED <<Api, Cache, at, sends, sent, others, known, behind>>
OpenStop ==
  /\ at > 0 /\ at = list /\ dialog = None /\ dialog' = "stop"
  /\ UNCHANGED <<Api, Cache, at, Asking, others, known, behind>>
Close ==
  /\ dialog # None /\ dialog' = None
  /\ UNCHANGED <<Api, Cache, at, Asking, others, known, behind>>

Send(kind, row) ==
  /\ pending = None /\ sent < MaxSends /\ sent' = sent + 1 /\ pending' = sent
  /\ sends' = sends \cup {[id |-> sent, kind |-> kind, row |-> row, here |-> TRUE, answer |-> "awaited"]}
submit ==
  /\ dialog = "watch" /\ Send("watch", 0)
  /\ UNCHANGED <<Api, Cache, at, dialog, others, known, behind>>
stop ==
  /\ dialog = "stop" /\ Send("stop", at)
  /\ UNCHANGED <<Api, Cache, at, dialog, others, known, behind>>

\* Another page: its dialogs are new, and what it waited for goes on.
Go(page) ==
  /\ at' = page /\ dialog' = None /\ pending' = None
  /\ sends' = {[q EXCEPT !.here = FALSE] : q \in sends}
Listed == IF at = Wallets /\ dialog = None /\ list # None THEN {list} ELSE {}
\* A dialog covers the page's links, but neither a toast nor the browser's Back.
Visit ==
  /\ \E page \in ({Wallets, Away} \cup known \cup Listed) \ {at} :
       /\ Go(page) /\ known' = known \cup ({page} \ {Wallets, Away})
       /\ fetch' = IF page # Away /\ fetch.state = "idle" /\ (stale \/ list = None \/ behind) THEN Asked ELSE fetch
       /\ stale' = (stale /\ page = Away)
  /\ UNCHANGED <<Api, list, sent, others, behind>>

------------------------------------------------------------------------------
(* The API.                                                                *)

Create == watched = 0 /\ rows' = rows + 1 /\ watched' = rows'
Remove(row) == watched = row /\ row # 0 /\ watched' = 0 /\ UNCHANGED rows

\* The address is unique among the org's rows; a row that is gone is not found.
Serve(q) ==
  /\ q.answer = "awaited"
  /\ \/ /\ q.kind = "watch" /\ Create
        /\ sends' = (sends \ {q}) \cup {[q EXCEPT !.answer = "done", !.row = rows']}
     \/ /\ q.kind = "watch" /\ watched # 0 /\ UNCHANGED Api
        /\ sends' = (sends \ {q}) \cup {[q EXCEPT !.answer = "exists"]}
     \/ /\ q.kind = "stop" /\ Remove(q.row)
        /\ sends' = (sends \ {q}) \cup {[q EXCEPT !.answer = "done"]}
     \/ /\ q.kind = "stop" /\ watched # q.row /\ UNCHANGED Api
        /\ sends' = (sends \ {q}) \cup {[q EXCEPT !.answer = "error"]}
  /\ UNCHANGED <<Cache, at, dialog, pending, sent, others, known, behind>>

\* No answer, or another error, the chain's for one; what was done is done.
Fail(q) ==
  /\ q.answer \in {"awaited", "done"} /\ sends' = (sends \ {q}) \cup {[q EXCEPT !.answer = "error"]}
  /\ behind' = (behind \/ q.answer = "done")
  /\ UNCHANGED <<Api, Cache, at, dialog, pending, sent, others, known>>

Colleague ==
  /\ others < MaxOthers /\ others' = others + 1 /\ (Create \/ Remove(watched)) /\ behind' = TRUE
  /\ UNCHANGED <<Cache, at, dialog, Asking, known>>

ServeList ==
  /\ fetch.state = "asked" /\ fetch' = [state |-> "answered", answer |-> watched] /\ behind' = FALSE
  /\ UNCHANGED <<Api, list, stale, at, dialog, Asking, others, known>>

------------------------------------------------------------------------------
(* Answers.  The handlers run although their dialog, or its page, is gone. *)

Waited(q) == sends' = sends \ {q} /\ pending' = IF pending = q.id THEN None ELSE pending

OnlyWhenListed == IF Shown /\ list # None THEN fetch' = Asked /\ UNCHANGED stale ELSE UNCHANGED <<fetch, stale>>
\* A first request for the list goes on; a list nobody shows waits until somebody does.
Refetched ==
  /\ fetch' = IF Shown /\ (list # None \/ fetch.state = "idle") THEN Asked ELSE fetch
  /\ stale' = (stale \/ ~Shown)

\* A list that was answered already, and is not asked for again, may lack what was done.
Missed == behind' = (behind \/ (fetch'.state = "answered"))

\* The watch dialog of that page closes, whatever is in it by now.
Watching(q) ==
  /\ q.kind = "watch" /\ q.answer = "done" /\ Waited(q) /\ Refetched /\ Missed
  /\ known' = known \cup {q.row}
  /\ dialog' = IF q.here /\ dialog = "watch" THEN None ELSE dialog
  /\ UNCHANGED <<Api, list, at, sent, others>>

\* To the list, from wherever the user is; one who is there stays, and so does the dialog.
Stopped(q) ==
  /\ q.kind = "stop" /\ q.answer = "done"
  /\ \/ at = Wallets /\ sends' = sends \ {q} /\ UNCHANGED <<at, dialog, pending>>
     \/ /\ at # Wallets /\ at' = Wallets /\ dialog' = None /\ pending' = None
        /\ sends' = {[p EXCEPT !.here = FALSE] : p \in sends \ {q}}
  /\ fetch' = IF fetch.state = "idle" \/ (Shown /\ list # None) THEN Asked ELSE fetch
  /\ stale' = FALSE /\ Missed
  /\ UNCHANGED <<Api, list, sent, others, known>>

\* The dialog stays open with what went wrong; nothing is fetched.
NotDone(q) ==
  /\ q.answer \in {"exists", "error"} /\ Waited(q)
  /\ UNCHANGED <<Api, Cache, at, dialog, sent, others, known, behind>>

\* A wallet that is no longer in the list has no page, and so no dialog.
ListArrives ==
  /\ fetch.state = "answered" /\ list' = fetch.answer /\ fetch' = Idle(list') /\ stale' = FALSE
  /\ dialog' = IF dialog = "stop" /\ at # list' THEN None ELSE dialog
  /\ pending' = IF at \notin {Wallets, Away, list'} THEN None ELSE pending
  /\ UNCHANGED <<Api, at, sends, sent, others, known, behind>>
ListFails ==
  /\ fetch.state # "idle" /\ fetch' = Idle(list) /\ behind' = TRUE
  /\ UNCHANGED <<Api, list, stale, at, dialog, Asking, others, known>>

Next ==
  \/ OpenWatch \/ OpenStop \/ Close \/ submit \/ stop \/ Visit
  \/ Colleague \/ ServeList \/ ListArrives \/ ListFails
  \/ \E q \in sends : Serve(q) \/ Fail(q) \/ Watching(q) \/ Stopped(q) \/ NotDone(q)
Spec == Init /\ [][Next]_vars

------------------------------------------------------------------------------
(* Properties.                                                             *)

\* With nothing under way the list, and with it the page of a wallet, tells what is watched,
\* in whatever order the answers came, but for what only others or a lost answer did.
ListTells == (Shown /\ sends = {} /\ fetch.state = "idle" /\ ~behind) => list = watched

------------------------------------------------------------------------------
(* Why this holds: the strengthening, of which each step keeps every part. *)

\* What the list lacks it will be told: by an answer, by a fetch or when it is next shown.
WillTell ==
  \/ \E q \in sends : q.answer = "done"
  \/ fetch.state = "asked"
  \/ fetch.state = "answered" /\ fetch.answer = watched
  \/ fetch.state = "idle" /\ (stale \/ list = watched)
WatchInv ==
  /\ behind \in BOOLEAN /\ stale \in BOOLEAN /\ fetch.state \in {"idle", "asked", "answered"}
  /\ \A q \in sends : DOMAIN q = {"id", "kind", "row", "here", "answer"}
  /\ stale => ~Shown
  /\ ~behind => WillTell

==============================================================================
