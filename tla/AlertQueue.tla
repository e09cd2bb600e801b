---- MODULE AlertQueue ----
(***************************************************************************)
(* The queue of alerts (apps/web/app/app/alerts/page.tsx and               *)
(* components/monitor/alert-detail.tsx): a list by status, and the detail  *)
(* of one alert with its form, where an analyst writes a note and decides. *)
(*                                                                         *)
(* What is shown can change under the analyst: with nothing selected the   *)
(* detail is that of the first alert of the list, which new alerts, the    *)
(* decisions of colleagues and the answers of earlier requests reorder.    *)
(* A request's handler runs in the closure of the page that sent it, with  *)
(* the tab and the list of that moment, wherever the analyst has gone.     *)
(* A note is the number of the moment it was written.  "In review" is left *)
(* out: the page treats it as it does "escalated".                         *)
(***************************************************************************)
EXTENDS Integers, Sequences, FiniteSets, SequencesExt

CONSTANTS Alerts,       \* the alerts, newest last
          MaxNotes,     \* bound: notes written
          MaxSends,     \* bound: decisions sent
          MaxTurns,     \* bound: what colleagues decide, and where the analyst goes
          None

VARIABLES raised,       \* the API: how many alerts there are, the first of Alerts
          status, notes,  \* the API: by alert
          list,         \* the cached list: by alert its status, None when it is not in it
          fetch,        \* the request for the list: whether it is under way, and its answer
          failed,       \* the last request for it failed: an error takes the place of list and detail
          here, tab, id,  \* whether the page is there; ?status= and ?id= of its address
          form,         \* the detail: the alert it was made for, the note in it
          busy,         \* what the detail last sent, while that is under way
          sends,        \* the decisions whose handler has not run
          written, sent, turns,
          about,        \* history variable: the alert whose detail a note was written in
          chosen,       \* history variable: what was pressed, as <<alert, status, note>>
          colleague     \* history variable: what colleagues decided, as <<alert, status>>

vars == <<raised, status, notes, list, fetch, failed, here, tab, id, form, busy, sends, written, sent, turns,
          about, chosen, colleague>>
Api == <<raised, status, notes>>
Page == <<here, tab, id>>

Statuses == {"open", "escalated", "closed"}
Note == 1..MaxNotes
NoForm == [of |-> None, note |-> 0]
NotBusy == [action |-> "none", n |-> -1]
NoFetch == [pc |-> "none", list |-> [a \in Range(Alerts) |-> None]]
Awaited == [NoFetch EXCEPT !.pc = "awaited"]

\* The API lists the newest first.
NewestFirst == Reverse(Alerts)
InTab(of, s) == SelectSeq(NewestFirst, LAMBDA a : of[a] = s)

\* selected, tab, list and shown of AlertsQueue, from a list and the page's address.
Selected == IF id # None /\ list[id] # None THEN id ELSE None
Tab == IF tab # None THEN tab ELSE IF Selected # None THEN list[Selected] ELSE "open"
List == InTab(list, Tab)
AlertsQueue == IF Selected # None THEN Selected ELSE IF List = <<>> THEN None ELSE Head(List)

\* Only "open" is not named in the address.
Address(s) == IF s = "open" THEN None ELSE s

Init ==
  /\ raised = 2 /\ status = [a \in Range(Alerts) |-> "open"] /\ notes = [a \in Range(Alerts) |-> {}]
  /\ list = [a \in Range(Alerts) |-> IF a \in {Alerts[1], Alerts[2]} THEN "open" ELSE None] /\ fetch = NoFetch /\ failed = FALSE
  /\ here = TRUE /\ tab = None /\ id = None /\ form = NoForm /\ busy = NotBusy
  /\ sends = {} /\ written = 0 /\ sent = 0 /\ turns = 0
  /\ about = [n \in Note |-> None] /\ chosen = {} /\ colleague = {}

------------------------------------------------------------------------------
(* The detail.  Its key is its alert: another alert, another form.         *)

StaleDetail == here /\ ~failed /\ form.of # AlertsQueue
Forsaken == {[s EXCEPT !.same = FALSE] : s \in sends}
OneDetail == form' = [form EXCEPT !.of = AlertsQueue] /\ UNCHANGED <<busy, sends>>   \* mutant: no key
Remount == form' = [of |-> AlertsQueue, note |-> 0] /\ busy' = NotBusy /\ sends' = Forsaken
AlertDetail ==
  /\ StaleDetail /\ Remount
  /\ UNCHANGED <<Api, list, fetch, failed, Page, written, sent, turns, about, chosen, colleague>>

Shown == here /\ ~failed /\ ~StaleDetail /\ form.of # None
Closed == list[form.of] = "closed"

WriteNote ==
  /\ Shown /\ written < MaxNotes /\ written' = written + 1
  /\ form' = [form EXCEPT !.note = written'] /\ about' = [about EXCEPT ![written'] = form.of]
  /\ UNCHANGED <<Api, list, fetch, failed, Page, busy, sends, sent, turns, chosen, colleague>>

\* The buttons the alert's status offers; one is disabled while it was the last one
\* pressed and a request is under way, the others are not.
Offered == IF Closed THEN {"open", "note"} ELSE {"escalated", "closed"} \ {list[form.of]}

\* updateAlertSchema: a note goes with closing, and with "Add note".
send(s) ==
  /\ Shown /\ s \in Offered /\ busy.action # s
  /\ s \in {"closed", "note"} => form.note # 0
  /\ sent < MaxSends /\ sent' = sent + 1
  /\ sends' = sends \cup {[n |-> sent, alert |-> form.of, status |-> s, note |-> form.note, answer |-> "awaited",
                           result |-> None, tab |-> Tab, list |-> List, same |-> TRUE]}
  /\ busy' = [action |-> s, n |-> sent] /\ chosen' = chosen \cup {<<form.of, s, form.note>>}
  /\ UNCHANGED <<Api, list, fetch, failed, Page, form, written, turns, about, colleague>>

\* A decision that is not complete is not sent, but is the last button pressed all the same.
Unsent(s) ==
  /\ Shown /\ s \in Offered /\ busy.n # -1 /\ busy.action # s
  /\ s = "closed" \/ (s = "note" /\ form.note = 0)
  /\ busy' = [busy EXCEPT !.action = s]
  /\ UNCHANGED <<Api, list, fetch, failed, Page, form, sends, written, sent, turns, about, chosen, colleague>>

\* PATCH /alerts/:id, and its answer.  Of overlapping requests each is applied whole.
Patch(s) ==
  /\ s.answer = "awaited"
  /\ status' = IF s.status = "note" THEN status ELSE [status EXCEPT ![s.alert] = s.status]
  /\ notes' = IF s.note = 0 THEN notes ELSE [notes EXCEPT ![s.alert] = @ \cup {s.note}]
  /\ sends' = (sends \ {s}) \cup {[s EXCEPT !.answer = "ok", !.result = status'[s.alert]]}
  /\ UNCHANGED <<raised, list, fetch, failed, Page, form, busy, written, sent, turns, about, chosen, colleague>>

\* Refused, or lost: the detail says so and keeps the note.
SendFails(s) ==
  /\ sends' = sends \ {s}
  /\ busy' = IF s.same /\ busy.n = s.n THEN NotBusy ELSE busy
  /\ UNCHANGED <<Api, list, fetch, failed, Page, form, written, sent, turns, about, chosen, colleague>>

\* After a status change: the next alert of the list as it was, the one before, or none.
onMoved(s) ==
  LET at == SelectInSeq(s.list, LAMBDA a : a = s.alert)
      next == IF at + 1 <= Len(s.list) THEN s.list[at + 1] ELSE IF at > 1 THEN s.list[at - 1] ELSE None
  IN IF s.result = s.tab THEN UNCHANGED Page
     ELSE here' = TRUE /\ tab' = Address(s.tab) /\ id' = next

\* The list is fetched again, the form is emptied if it is still this detail's.
Updated(s) ==
  /\ s.answer = "ok" /\ sends' = sends \ {s}
  /\ fetch' = Awaited
  /\ form' = IF s.same THEN [form EXCEPT !.note = 0] ELSE form
  /\ busy' = IF s.same /\ busy.n = s.n THEN NotBusy ELSE busy
  /\ onMoved(s)
  /\ UNCHANGED <<Api, list, failed, written, sent, turns, about, chosen, colleague>>

------------------------------------------------------------------------------
(* The list, which nothing asks for again but a change of one's own and a  *)
(* return to the page.                                                     *)

ServeList ==
  /\ fetch.pc = "awaited"
  /\ fetch' = [pc |-> "answered", list |-> [a \in Range(Alerts) |-> IF a \in {Alerts[i] : i \in 1..raised} THEN status[a] ELSE None]]
  /\ UNCHANGED <<Api, list, failed, Page, form, busy, sends, written, sent, turns, about, chosen, colleague>>

ListArrives ==
  /\ fetch.pc = "answered" /\ list' = fetch.list /\ fetch' = NoFetch /\ failed' = FALSE
  /\ UNCHANGED <<Api, Page, form, busy, sends, written, sent, turns, about, chosen, colleague>>

\* Its failure unmounts the detail, with the note in it, until "Try again" succeeds; what
\* was fetched before stays cached.
ListFails ==
  /\ fetch.pc # "none" /\ fetch' = NoFetch /\ failed' = TRUE
  /\ form' = NoForm /\ busy' = NotBusy /\ sends' = Forsaken
  /\ UNCHANGED <<Api, list, Page, written, sent, turns, about, chosen, colleague>>
TryAgain ==
  /\ here /\ failed /\ fetch.pc = "none" /\ fetch' = Awaited
  /\ UNCHANGED <<Api, list, failed, Page, form, busy, sends, written, sent, turns, about, chosen, colleague>>

------------------------------------------------------------------------------
(* Where the analyst goes, and what others do.                             *)

Turn == turns < MaxTurns /\ turns' = turns + 1

Pick(a) ==
  /\ Turn /\ here /\ ~failed /\ a \in Range(List) /\ a # id /\ id' = a /\ tab' = Address(Tab)
  /\ UNCHANGED <<Api, list, fetch, failed, here, form, busy, sends, written, sent, about, chosen, colleague>>

PickTab(s) ==
  /\ Turn /\ here /\ s # Tab /\ tab' = Address(s) /\ id' = None
  /\ UNCHANGED <<Api, list, fetch, failed, here, form, busy, sends, written, sent, about, chosen, colleague>>

Leave ==
  /\ Turn /\ here /\ here' = FALSE /\ form' = NoForm /\ busy' = NotBusy /\ sends' = Forsaken
  /\ UNCHANGED <<Api, list, fetch, failed, tab, id, written, sent, about, chosen, colleague>>

\* From a notification, a wallet or the overview, the address names the alert.
Return(a) ==
  /\ ~here /\ here' = TRUE /\ tab' = None /\ id' = a /\ fetch' = Awaited
  /\ UNCHANGED <<Api, list, failed, form, busy, sends, written, sent, turns, about, chosen, colleague>>

Raise ==
  /\ raised < Len(Alerts) /\ raised' = raised + 1
  /\ UNCHANGED <<status, notes, list, fetch, failed, Page, form, busy, sends, written, sent, turns, about, chosen, colleague>>

Colleague(a, s) ==
  /\ Turn /\ status[a] # s /\ status' = [status EXCEPT ![a] = s] /\ colleague' = colleague \cup {<<a, s>>}
  /\ UNCHANGED <<raised, notes, list, fetch, failed, Page, form, busy, sends, written, sent, about, chosen>>

Next ==
  \/ AlertDetail \/ WriteNote \/ ServeList \/ ListArrives \/ ListFails \/ TryAgain \/ Leave \/ Raise
  \/ \E s \in Statuses \cup {"note"} : send(s) \/ Unsent(s)
  \/ \E s \in sends : Patch(s) \/ SendFails(s) \/ Updated(s)
  \/ \E a \in Range(Alerts) : Pick(a) \/ Return(a) \/ \E s \in Statuses : Colleague(a, s)
  \/ \E s \in Statuses : PickTab(s)

Spec == Init /\ [][Next]_vars

------------------------------------------------------------------------------
(* Properties.                                                             *)

\* A note is recorded with the alert in whose detail it was written, though another
\* alert may have taken its place on the page before it was sent.
NotesGoWhereWritten == \A a \in Range(Alerts) : \A n \in notes[a] : about[n] = a

\* An alert has a status somebody chose for it, with its own note if it is closed: no
\* decision follows the analyst from one detail to the next.
DecidedAsChosen ==
  \A a \in Range(Alerts) : status[a] # "open" =>
    \/ <<a, status[a]>> \in colleague
    \/ \E n \in 0..MaxNotes : /\ <<a, status[a], n>> \in chosen
                              /\ status[a] = "closed" => n # 0 /\ about[n] = a

------------------------------------------------------------------------------
(* Why these hold: the strengthening, of which each step keeps every part. *)

\* A note on its way, in a form or a request, is none, or one written for that alert.
NoteFor(n, a) == n \in 0..written /\ (n # 0 => about[n] = a)

\* A request carries what was pressed in the detail of its alert, and a note to close it.
CarriesItsOwn(s) ==
  /\ {"alert", "status", "note", "answer", "result"} \subseteq DOMAIN s
  /\ s.status \in Statuses \cup {"note"} /\ NoteFor(s.note, s.alert)
  /\ <<s.alert, s.status, s.note>> \in chosen
  /\ s.status = "closed" => s.note # 0

Kept(a) ==
  /\ \A n \in notes[a] : n \in 1..written /\ about[n] = a
  /\ status[a] # "open" =>
       \/ <<a, status[a]>> \in colleague
       \/ \E n \in 0..written : /\ NoteFor(n, a) /\ <<a, status[a], n>> \in chosen
                                /\ status[a] = "closed" => n # 0

QueueInv ==
  /\ status \in [Range(Alerts) -> Statuses] /\ notes \in [Range(Alerts) -> SUBSET Note]
  /\ written \in 0..MaxNotes /\ DOMAIN about = Note
  /\ DOMAIN form = {"of", "note"} /\ NoteFor(form.note, form.of)
  /\ \A s \in sends : CarriesItsOwn(s)
  /\ \A a \in Range(Alerts) : Kept(a)

==============================================================================
