---- MODULE SettingsPage ----
(***************************************************************************)
(* The settings page (apps/web/app/app/settings/sections.tsx): the form    *)
(* for the own name, the form for the org's, and the switch for alert      *)
(* mails, which moves before the API answers and back when it refuses, and *)
(* is remembered by this browser since the API cannot be asked for it      *)
(* (lib/hooks/account.ts).  A colleague renames the org.  Validation,      *)
(* security, appearance and the list of orgs are left out.                 *)
(***************************************************************************)
EXTENDS Integers

CONSTANTS Names,
          MaxSends,    \* bound: changes asked for
          None

VARIABLES userName, orgName, alertEmails,   \* the API
          meName, org,         \* cached: the own name, the org's
          meFetch, orgFetch,   \* requests for them: [state, answer], "idle", "asked" or "answered"
          erred,               \* of "me" and "org", whose last request failed
          prefs, stored,       \* the switch's cached value, and the browser's
          old,                 \* of "switch" and "org", what is read again when the page is next opened
          open,                \* the page is open
          profile, orgForm,    \* the forms: [saved, typed]
          sends,               \* changes under way
          waits,               \* what each form's button waits for, or None
          sent,
          outdated,            \* history variables: the profile was once opened with an old name
          behind, crossed      \* or a save under way; a change is unknown here; moves of the switch crossed

vars == <<userName, orgName, alertEmails, meName, org, meFetch, orgFetch, erred, prefs, stored, old, open, profile,
          orgForm, sends, waits, sent, outdated, behind, crossed>>
Api == <<userName, orgName, alertEmails>>
Cached == <<meName, org, meFetch, orgFetch, erred>>
Switch == <<prefs, stored, old, crossed>>
Forms == <<open, profile, orgForm, outdated>>

Fresh(name) == [saved |-> name, typed |-> name]
Idle(name) == [state |-> "idle", answer |-> name]
Ask(name) == [state |-> "asked", answer |-> name]

Init ==
  /\ userName \in Names /\ orgName = userName /\ alertEmails = TRUE
  /\ meName = userName /\ org = orgName /\ meFetch = Idle(meName) /\ orgFetch = Idle(org) /\ erred = {}
  /\ prefs = alertEmails /\ stored = alertEmails /\ old = {} /\ open = TRUE
  /\ profile = Fresh(meName) /\ orgForm = Fresh(org)
  /\ sends = {} /\ waits = [profile |-> None, org |-> None] /\ sent = 0
  /\ outdated = FALSE /\ behind = FALSE /\ crossed = FALSE

------------------------------------------------------------------------------
(* The forms and the switch.                                               *)

Moves == {q \in sends : q.kind = "switch"}
Send(kind, value, previous) ==
  /\ open /\ sent < MaxSends /\ sent' = sent + 1
  /\ sends' = sends \cup {[id |-> sent, kind |-> kind, value |-> value, previous |-> previous, answer |-> "awaited"]}

Type(name) ==
  /\ open
  /\ \/ profile' = [profile EXCEPT !.typed = name] /\ UNCHANGED orgForm
     \/ "org" \notin erred /\ orgForm' = [orgForm EXCEPT !.typed = name] /\ UNCHANGED profile
  /\ UNCHANGED <<Api, Cached, Switch, open, outdated, sends, waits, sent, behind>>

SaveProfile ==
  /\ waits.profile = None /\ profile.typed # profile.saved
  /\ Send("profile", profile.typed, None) /\ waits' = [waits EXCEPT !.profile = sent]
  /\ UNCHANGED <<Api, Cached, Switch, Forms, behind>>

\* The button is there only for a changed name; without one, Enter sends the form too.
SaveOrg ==
  /\ "org" \notin erred /\ (orgForm.typed # orgForm.saved => waits.org = None)
  /\ Send("org", orgForm.typed, None) /\ waits' = [waits EXCEPT !.org = sent]
  /\ UNCHANGED <<Api, Cached, Switch, Forms, behind>>

\* onMutate: the switch moves at once, and again while an answer is awaited.
Toggle ==
  /\ Send("switch", ~prefs, prefs) /\ prefs' = ~prefs
  /\ crossed' = (crossed \/ \E p \in Moves : prefs # p.value /\ \A q \in Moves : q.id <= p.id)
  /\ UNCHANGED <<Api, Cached, stored, old, Forms, waits, behind>>

Leave ==
  /\ open /\ open' = FALSE /\ waits' = [waits EXCEPT !.profile = None, !.org = None]
  /\ UNCHANGED <<Api, Cached, Switch, profile, orgForm, outdated, sends, sent, behind>>

\* The forms start from the caches; an org that is old, or whose last request failed, is fetched again.
Visit ==
  /\ ~open /\ "me" \notin erred /\ open' = TRUE /\ profile' = Fresh(meName) /\ orgForm' = Fresh(org)
  /\ outdated' = (outdated \/ meName # userName \/ \E q \in sends : q.kind = "profile")
  /\ orgFetch' = IF orgFetch.state = "idle" /\ (behind \/ "org" \in old \cup erred) THEN Ask(org) ELSE orgFetch
  /\ prefs' = (IF "switch" \in old THEN stored ELSE prefs) /\ old' = {}
  /\ crossed' = (crossed \/ ("switch" \in old /\ Moves # {}))
  /\ UNCHANGED <<Api, meName, org, meFetch, erred, stored, sends, waits, sent, behind>>

------------------------------------------------------------------------------
(* The API.                                                                *)

Serve(q) ==
  /\ q.answer = "awaited"
  /\ \/ /\ userName' = IF q.kind = "profile" THEN q.value ELSE userName
        /\ orgName' = IF q.kind = "org" THEN q.value ELSE orgName
        /\ alertEmails' = IF q.kind = "switch" THEN q.value ELSE alertEmails
        /\ crossed' = (crossed \/ \E p \in Moves : q \in Moves /\ p.id < q.id /\ p.answer = "awaited")
        /\ sends' = (sends \ {q}) \cup {[q EXCEPT !.answer = "ok"]}
     \/ /\ sends' = (sends \ {q}) \cup {[q EXCEPT !.answer = "refused"]}
        /\ UNCHANGED <<Api, crossed>>
  /\ UNCHANGED <<Cached, prefs, stored, old, Forms, waits, sent, behind>>

\* No answer, which is an error like any other, but the change may be made.
Cut(q) ==
  /\ q.answer = "ok" /\ sends' = (sends \ {q}) \cup {[q EXCEPT !.answer = "refused"]}
  /\ behind' = TRUE /\ outdated' = (outdated \/ q.kind = "profile") /\ crossed' = (crossed \/ q \in Moves)
  /\ UNCHANGED <<Api, Cached, prefs, stored, old, open, profile, orgForm, waits, sent>>

Colleague(name) ==
  /\ ~behind /\ name # orgName /\ orgName' = name /\ behind' = TRUE
  /\ UNCHANGED <<userName, alertEmails, Cached, Switch, Forms, sends, waits, sent>>

ServeMe ==
  /\ meFetch.state = "asked" /\ meFetch' = [state |-> "answered", answer |-> userName]
  /\ UNCHANGED <<Api, meName, org, orgFetch, erred, Switch, Forms, sends, waits, sent, behind>>
ServeOrg ==
  /\ orgFetch.state = "asked" /\ orgFetch' = [state |-> "answered", answer |-> orgName] /\ behind' = FALSE
  /\ UNCHANGED <<Api, meName, org, meFetch, erred, Switch, Forms, sends, waits, sent>>

------------------------------------------------------------------------------
(* Answers.                                                                *)

Answered(q) == sends' = sends \ {q} /\ waits' = [k \in DOMAIN waits |-> IF waits[k] = q.id THEN None ELSE waits[k]]

\* keys.me is a prefix of the switch's key, which is read from the browser again.
AskMe(more) ==
  /\ meFetch' = Ask(meName)
  /\ prefs' = (IF open THEN stored ELSE prefs) /\ old' = (IF open THEN old ELSE old \cup ({"switch"} \cup more))
  /\ crossed' = (crossed \/ (open /\ Moves # {})) /\ UNCHANGED stored

\* The form that sent it, if it is still there, starts anew from the answer.
ProfileSaved(q) ==
  /\ q.kind = "profile" /\ q.answer = "ok" /\ Answered(q) /\ AskMe({})
  /\ profile' = IF waits.profile = q.id THEN Fresh(q.value) ELSE profile
  /\ UNCHANGED <<Api, meName, org, orgFetch, erred, open, orgForm, outdated, sent, behind>>
OrgSaved(q) ==
  /\ q.kind = "org" /\ q.answer = "ok" /\ Answered(q) /\ AskMe({"org"})
  /\ orgFetch' = (IF open THEN Ask(org) ELSE orgFetch) /\ behind' = (behind \/ orgFetch'.state = "answered")
  /\ UNCHANGED <<Api, meName, org, erred, Forms, sent>>
NotSaved(q) ==
  /\ q.kind # "switch" /\ q.answer = "refused" /\ Answered(q)
  /\ UNCHANGED <<Api, Cached, Switch, Forms, sent, behind>>

Moved(q) ==
  /\ q.kind = "switch" /\ q.answer = "ok" /\ Answered(q) /\ prefs' = q.value /\ stored' = q.value /\ old' = old \ {"switch"}
  /\ crossed' = (crossed \/ \E p \in Moves : p.id < q.id)
  /\ UNCHANGED <<Api, Cached, Forms, sent, behind>>
StaysMoved(q) ==
  /\ q.kind = "switch" /\ q.answer = "refused" /\ Answered(q) /\ old' = old \ {"switch"}
  /\ crossed' = (crossed \/ Moves # {q})
  /\ UNCHANGED <<Api, Cached, prefs, stored, Forms, sent, behind>>
MovesBack(q) ==
  /\ q.kind = "switch" /\ q.answer = "refused" /\ Answered(q) /\ prefs' = q.previous /\ old' = old \ {"switch"}
  /\ crossed' = (crossed \/ Moves # {q})
  /\ UNCHANGED <<Api, Cached, stored, Forms, sent, behind>>

MeArrives ==
  /\ meFetch.state = "answered" /\ meName' = meFetch.answer /\ meFetch' = Idle(meName')
  /\ erred' = erred \ {"me"}
  /\ UNCHANGED <<Api, org, orgFetch, Switch, Forms, sends, waits, sent, behind>>

\* The form is keyed by the name: another name is another form, whatever was typed.
OrgArrives ==
  /\ orgFetch.state = "answered" /\ org' = orgFetch.answer /\ orgFetch' = Idle(org') /\ old' = old \ {"org"}
  /\ erred' = erred \ {"org"}
  /\ orgForm' = IF org' = org THEN orgForm ELSE Fresh(org')
  /\ waits' = IF org' = org THEN waits ELSE [waits EXCEPT !.org = None]
  /\ UNCHANGED <<Api, meName, meFetch, prefs, stored, crossed, open, profile, outdated, sends, sent, behind>>

\* Without the session the shell shows an error in place of the page.
MeFails ==
  /\ meFetch.state # "idle" /\ meFetch' = Idle(meName) /\ erred' = erred \cup {"me"}
  /\ open' = FALSE /\ waits' = [waits EXCEPT !.profile = None, !.org = None]
  /\ UNCHANGED <<Api, meName, org, orgFetch, Switch, profile, orgForm, outdated, sends, sent, behind>>

\* An error takes the form's place, and what was typed is gone; the form comes back with an answer.
OrgFails ==
  /\ orgFetch.state # "idle" /\ orgFetch' = Idle(org) /\ erred' = erred \cup {"org"}
  /\ orgForm' = Fresh(org) /\ waits' = [waits EXCEPT !.org = None]
  /\ UNCHANGED <<Api, meName, org, meFetch, Switch, open, profile, outdated, sends, sent, behind>>

TryAgain ==
  /\ \/ "me" \in erred /\ meFetch' = Ask(meName) /\ UNCHANGED orgFetch
     \/ open /\ "org" \in erred /\ orgFetch' = Ask(org) /\ UNCHANGED meFetch
  /\ UNCHANGED <<Api, meName, org, erred, Switch, Forms, sends, waits, sent, behind>>

Next ==
  \/ \E name \in Names : Type(name) \/ Colleague(name)
  \/ SaveProfile \/ SaveOrg \/ Toggle \/ Leave \/ Visit
  \/ ServeMe \/ ServeOrg \/ MeArrives \/ OrgArrives \/ MeFails \/ OrgFails \/ TryAgain
  \/ \E q \in sends : Serve(q) \/ Cut(q) \/ ProfileSaved(q) \/ OrgSaved(q) \/ NotSaved(q) \/ Moved(q) \/ MovesBack(q)
Spec == Init /\ [][Next]_vars

------------------------------------------------------------------------------
(* Properties.                                                             *)

\* The switch tells what the API does, unless two moves of it crossed on the way, or one with
\* a save that has the browser's value read again, or it was moved from what an older answer
\* showed while a newer move was under way.
SwitchTells == (Moves = {} /\ ~crossed) => (prefs = alertEmails /\ stored = alertEmails)

\* A form nobody is editing shows the name as it is, once nothing is under way, if it was
\* opened with the name as it was then.
FormsTell ==
  (open /\ sends = {} /\ meFetch.state = "idle" /\ orgFetch.state = "idle") =>
    /\ (profile.typed = profile.saved /\ ~outdated) => profile.typed = userName
    /\ meName = userName \/ outdated \/ behind
    /\ (~behind /\ "org" \notin erred) => (org = orgName /\ orgForm.saved = orgName)

------------------------------------------------------------------------------
(* Why these hold: the strengthening, of which each step keeps every part. *)

SendsTyped ==
  /\ sent \in Nat /\ crossed \in BOOLEAN /\ outdated \in BOOLEAN /\ behind \in BOOLEAN
  /\ \A q \in sends : /\ DOMAIN q = {"id", "kind", "value", "previous", "answer"} /\ q.id \in 0..(sent - 1)
                      /\ \A p \in sends : p.id = q.id => p = q

\* Until two cross, moves are made in order from what the one before would make it.
Last(q, of) == q \in of /\ \A p \in of : p.id <= q.id
First(q, of) == q \in of /\ \A p \in of : q.id <= p.id
Done == {q \in Moves : q.answer = "ok"}
InOrder ==
  /\ \A p \in Done, q \in Moves : q.id < p.id => q.answer # "awaited"
  /\ \A p, q \in Moves : (p.id < q.id /\ \A m \in Moves : m.id <= p.id \/ q.id <= m.id) => q.previous = p.value
  /\ \A q \in Moves : Last(q, Done) => alertEmails = q.value
  /\ \A q \in Moves : (Done = {} /\ First(q, Moves)) => alertEmails = q.previous
  /\ Done = {} => stored = alertEmails
  /\ Moves = {} => prefs = alertEmails

\* A fetch tells what is so, or will be asked again.
Saving(kind) == \E q \in sends : q.kind = kind /\ q.answer = "ok"
Tells(fetch, cached, value) ==
  \/ fetch.state = "asked"
  \/ fetch.state = "answered" /\ fetch.answer = value
  \/ fetch.state = "idle" /\ cached = value
FormsFollow ==
  /\ DOMAIN waits = {"profile", "org"}
  /\ DOMAIN profile = {"saved", "typed"} /\ DOMAIN orgForm = {"saved", "typed"} /\ orgForm.saved = org
  /\ "org" \in old => ~open
  /\ "me" \in erred => ~open
  /\ {meFetch.state, orgFetch.state} \subseteq {"idle", "asked", "answered"}
  /\ ~outdated => (Saving("profile") \/ Tells(meFetch, meName, userName) \/ (meFetch.state = "idle" /\ "me" \in erred))
  /\ ~behind => (Saving("org") \/ Tells(orgFetch, org, orgName) \/ (orgFetch.state = "idle" /\ "org" \in old \cup erred))
  /\ (open /\ ~outdated) =>
       /\ \A q \in sends : q.kind = "profile" => waits.profile = q.id /\ (q.answer = "ok" => q.value = userName)
       /\ Saving("profile") \/ profile.saved = userName

SettingsInv == SendsTyped /\ (~crossed => InOrder) /\ FormsFollow

==============================================================================
