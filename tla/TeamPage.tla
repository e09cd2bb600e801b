---- MODULE TeamPage ----
(***************************************************************************)
(* The members on the team page (apps/web/app/app/team/page.tsx): what it  *)
(* offers to whom by two cached answers, the user's own role and the list, *)
(* and what the API (team/members.service.ts) then says.  Colleagues       *)
(* change roles too.  Invites are left out.                                *)
(***************************************************************************)
EXTENDS Integers, FiniteSets

CONSTANTS Members, Self,     \* Self is the user of this tab
          MaxActs,           \* bound: changes the user asks for
          MaxColleague,      \* bound: changes by colleagues
          None

VARIABLES role,              \* the API: the role of every member, or None
          me, list,          \* cached: the own role, and everybody's
          meFetch, listFetch,   \* requests for them: [state, answer], "idle", "asked" or "answered"
          dialog,            \* the change to confirm, or None
          acts,              \* changes under way
          asked, others,     \* how often the user, and colleagues, changed something
          left,              \* the user has left the org
          behind             \* history variable: the caches may miss what others did, or a lost answer

vars == <<role, me, list, meFetch, listFetch, dialog, acts, asked, others, left, behind>>
Caches == <<me, list, meFetch, listFetch>>

ROLES == {"viewer", "analyst", "admin", "owner"}
isAdmin(r) == r \in {"admin", "owner"}
Owners(members) == {u \in Members : members[u] = "owner"}
Idle(answer) == [state |-> "idle", answer |-> answer]
Ask(answer) == [state |-> "asked", answer |-> answer]

Init ==
  /\ role \in {r \in [Members -> ROLES] : Owners(r) # {}}
  /\ me = role[Self] /\ list = role /\ meFetch = Idle(me) /\ listFetch = Idle(list)
  /\ dialog = None /\ acts = {} /\ asked = 0 /\ others = 0 /\ left = FALSE /\ behind = FALSE

------------------------------------------------------------------------------
(* What a row of the list offers.                                          *)

lastOwner(u) == list[u] = "owner" /\ Cardinality(Owners(list)) <= 1
AnyAdminEdits(u) == list[u] # None /\ isAdmin(me) /\ ~lastOwner(u)
canEditRole(u) ==
  list[u] # None /\ isAdmin(me) /\ ~lastOwner(u) /\ (me = "owner" \/ list[u] # "owner")
roleOptions == IF me = "owner" THEN ROLES ELSE ROLES \ {"owner"}
canRemove(u) ==
  list[u] # None /\ ~lastOwner(u) /\ (u = Self \/ (isAdmin(me) /\ (me = "owner" \/ list[u] # "owner")))

Pending(kind) == \E a \in acts : a.kind = kind

Offered(kind, u, r) ==
  IF kind = "role" THEN canEditRole(u) /\ r \in roleOptions ELSE canRemove(u)
Known == ~behind /\ acts = {} /\ meFetch.state = "idle" /\ listFetch.state = "idle"

\* fair notes that the page offers the change, knowing all there is to know.
Act(kind, u, r) ==
  /\ asked < MaxActs /\ asked' = asked + 1
  /\ acts' = acts \cup {[id |-> asked, kind |-> kind, user |-> u, role |-> r, answer |-> "awaited",
                         fair |-> Known /\ Offered(kind, u, r)]}

\* Somebody else's role is changed at once, the own one after a question.
PickRole(u, r) ==
  /\ ~left /\ dialog = None /\ canEditRole(u) /\ r \in roleOptions \ {list[u]} /\ ~Pending("role")
  /\ IF u = Self THEN dialog' = [kind |-> "role", user |-> u, role |-> r] /\ UNCHANGED <<acts, asked>>
     ELSE Act("role", u, r) /\ UNCHANGED dialog
  /\ UNCHANGED <<role, Caches, others, left, behind>>

AskToRemove(u) ==
  /\ ~left /\ dialog = None /\ canRemove(u) /\ dialog' = [kind |-> "remove", user |-> u, role |-> None]
  /\ UNCHANGED <<role, Caches, acts, asked, others, left, behind>>

\* Nothing closes the dialog while a change is under way.
Close ==
  /\ dialog # None /\ ~Pending("role") /\ ~Pending("remove") /\ dialog' = None
  /\ UNCHANGED <<role, Caches, acts, asked, others, left, behind>>

\* The button waits for either kind of change.  What was asked may no longer be offered.
Confirm ==
  /\ dialog # None /\ ~Pending("role") /\ ~Pending("remove")
  /\ Act(dialog.kind, dialog.user, dialog.role)
  /\ UNCHANGED <<role, Caches, dialog, others, left, behind>>

------------------------------------------------------------------------------
(* The API, for the role the requester has when it is asked.               *)

updateRole(u, r) ==
  /\ isAdmin(role[Self]) /\ role[u] # None
  /\ \/ role[u] = r
     \/ /\ role[Self] = "owner" \/ "owner" \notin {role[u], r}
        /\ role[u] = "owner" => Cardinality(Owners(role)) > 1
remove(u) ==
  /\ role[u] # None /\ (u = Self \/ isAdmin(role[Self]))
  /\ u = Self \/ role[u] # "owner" \/ role[Self] = "owner"
  /\ role[u] = "owner" => Cardinality(Owners(role)) > 1

Unfair(as) == {[a EXCEPT !.fair = @ /\ a.answer # "awaited"] : a \in as}
Serve(a) ==
  /\ a.answer = "awaited" /\ role[Self] # None
  /\ LET ok == IF a.kind = "role" THEN updateRole(a.user, a.role) ELSE remove(a.user) IN
     /\ role' = IF ok THEN [role EXCEPT ![a.user] = a.role] ELSE role
     /\ acts' = Unfair(acts \ {a}) \cup {[a EXCEPT !.answer = IF ok THEN "ok" ELSE "refused"]}
  /\ UNCHANGED <<Caches, dialog, asked, others, left, behind>>

\* No answer; it may have been done.
Cut(a) ==
  /\ a.answer \in {"awaited", "ok"} /\ (a.kind = "role" \/ a.user # Self)
  /\ acts' = (acts \ {a}) \cup {[a EXCEPT !.answer = "lost"]} /\ behind' = TRUE
  /\ UNCHANGED <<role, Caches, dialog, asked, others, left>>

\* Colleagues may do to anybody what leaves the org an owner.
Colleague(u, r) ==
  /\ others < MaxColleague /\ others' = others + 1
  /\ role[u] \notin {r, None} /\ role' = [role EXCEPT ![u] = r] /\ Owners(role') # {}
  /\ behind' = TRUE /\ acts' = Unfair(acts)
  /\ UNCHANGED <<Caches, dialog, asked, left>>

------------------------------------------------------------------------------
(* Answers.                                                                *)

OnlyTheList(a) == listFetch' = Ask(list) /\ UNCHANGED meFetch
Refetched(a) ==
  listFetch' = Ask(list) /\ meFetch' = IF a.user = Self THEN Ask(me) ELSE meFetch

\* The dialog closes when its change was made, and a change of role closes it anyway, a
\* failed one too, although the user has opened another meanwhile.
Answered(a) ==
  /\ a.answer # "awaited" /\ acts' = acts \ {a}
  /\ dialog' = IF (a.answer = "ok" /\ a.kind = "remove") \/ (a.kind = "role" /\ a.user = Self) THEN None ELSE dialog
  /\ IF a.answer = "ok" THEN Refetched(a) ELSE UNCHANGED <<meFetch, listFetch>>
  /\ left' = (left \/ (a.answer = "ok" /\ a.kind = "remove" /\ a.user = Self))
  /\ UNCHANGED <<role, me, list, asked, others, behind>>

\* A minute later, or on the way back to the page, the caches are fetched again.
Refetch ==
  /\ behind /\ dialog = None /\ meFetch.state = "idle" /\ listFetch.state = "idle"
  /\ meFetch' = Ask(me) /\ listFetch' = Ask(list) /\ behind' = (acts # {})
  /\ UNCHANGED <<role, me, list, dialog, acts, asked, others, left>>
ServeMe ==
  /\ meFetch.state = "asked" /\ meFetch' = [state |-> "answered", answer |-> role[Self]]
  /\ UNCHANGED <<role, me, list, listFetch, dialog, acts, asked, others, left, behind>>
ServeList ==
  /\ listFetch.state = "asked" /\ listFetch' = [state |-> "answered", answer |-> role]
  /\ UNCHANGED <<role, me, list, meFetch, dialog, acts, asked, others, left, behind>>
MeArrives ==
  /\ meFetch.state = "answered" /\ me' = meFetch.answer /\ meFetch' = Idle(me')
  /\ UNCHANGED <<role, list, listFetch, dialog, acts, asked, others, left, behind>>
ListArrives ==
  /\ listFetch.state = "answered" /\ list' = listFetch.answer /\ listFetch' = Idle(list')
  /\ UNCHANGED <<role, me, meFetch, dialog, acts, asked, others, left, behind>>

Next ==
  /\ role[Self] # None \/ acts # {}
  /\ \/ \E u \in Members, r \in ROLES : PickRole(u, r)
     \/ \E u \in Members : AskToRemove(u)
     \/ Close \/ Confirm
     \/ \E a \in acts : Serve(a) \/ Cut(a) \/ Answered(a)
     \/ \E u \in Members, r \in ROLES \cup {None} : (u = Self => r # None) /\ Colleague(u, r)
     \/ Refetch \/ ServeMe \/ ServeList \/ MeArrives \/ ListArrives
Spec == Init /\ [][Next]_vars

------------------------------------------------------------------------------
(* Properties.                                                             *)

\* What the page offers the API allows: a change that was offered, by caches that were up
\* to date, when the user asked for it, and with nothing changed since, is not refused.
OfferedIsAllowed == \A a \in acts : a.fair => a.answer # "refused"

\* ... and what the API allows the page offers, by caches that are up to date.
AllowedIsOffered ==
  (Known /\ ~left) =>
    \A u \in Members : /\ remove(u) => canRemove(u)
                       /\ \A r \in ROLES \ {role[u]} : updateRole(u, r) => canEditRole(u) /\ r \in roleOptions

\* With nothing under way the page knows the user's own changes, that of the own role too.
OwnChangesShow ==
  (Known /\ ~left) => me = role[Self] /\ list = role

------------------------------------------------------------------------------
(* Why these hold: the strengthening, of which each step keeps every part. *)

Allowed(kind, u, r) == IF kind = "role" THEN updateRole(u, r) ELSE remove(u)

\* The user who has left has no role any more, and no dialog.
Gone == left => role[Self] = None /\ dialog = None

\* The change somebody asked for names a member, and a removal no role.
ChangeSound(c) == c.user \in Members /\ c.role \in ROLES \cup {None} /\ (c.kind # "role" => c.role = None)
ActSound(a) ==
  /\ DOMAIN a = {"id", "kind", "user", "role", "answer", "fair"} /\ a.fair \in BOOLEAN /\ ChangeSound(a)
  /\ a.fair => a.answer # "refused"
  /\ a.fair /\ a.answer = "awaited" /\ role[Self] # None => Allowed(a.kind, a.user, a.role)
  /\ a.answer = "ok" /\ a.kind # "role" /\ a.user = Self => role[Self] = None

\* A cached answer is the API's, or something on its way will bring that, but for what
\* the page cannot know of.
FetchBrings(fetch, cached, known) ==
  \/ fetch.state = "asked"
  \/ fetch.state = "answered" /\ fetch.answer = known
  \/ fetch.state = "idle" /\ cached = known
ListSound == behind \/ (\E a \in acts : a.answer = "ok") \/ FetchBrings(listFetch, list, role)
MeSound == behind \/ (\E a \in acts : a.answer = "ok" /\ a.user = Self) \/ FetchBrings(meFetch, me, role[Self])

TeamInv ==
  /\ role \in [Members -> ROLES \cup {None}] /\ {behind, left} \subseteq BOOLEAN
  /\ Gone /\ ListSound /\ MeSound
  /\ dialog # None => ChangeSound(dialog)
  /\ \A a \in acts : ActSound(a)

==============================================================================
