---- MODULE QueryCache ----
(***************************************************************************)
(* The cache of one browser tab (apps/web/lib/queries.ts, app/providers.tsx*)
(* and the org switcher of components/app/shell.tsx) in front of an API    *)
(* whose session belongs to an org.                                        *)
(*                                                                         *)
(* A query is kept under a key that does not name the org; a mutation      *)
(* invalidates the keys it changes, and switching the org clears them all. *)
(* What the API answers is its org and the user's own writes in it.  The   *)
(* queries that carry an id, and so an org, are left out; so is the time   *)
(* it takes to render another page.  clear() tells the components on       *)
(* screen nothing: one that shows a query keeps its rows until it is drawn *)
(* again, which the overview, when the org is switched there, may not be.  *)
(***************************************************************************)
EXTENDS Integers, FiniteSets

CONSTANTS Orgs,        \* the orgs of the user
          Scopes,      \* bound: the sets of keys followed, each with the moves made: pages
                       \* visited and switches of the org
          MaxWrites,   \* bound: mutations sent
          None

VARIABLES session,     \* the API: the org of the session
          done,        \* the API: the mutations applied, with the org they went to
          scope,       \* the keys followed: no key depends on another but me
          page,
          cache,       \* by key: the last answer, or None
          stale, erred,  \* the keys whose answer is old, and whose last fetch failed
          fetch,       \* by key: the request under way, or None
          kept,        \* the keys whose rows are on screen although clear() removed them
          mutations,   \* the mutations whose handler has not run
          acked,       \* the mutations whose handler has run
          sent,
          moves,       \* the moves left
          moved        \* history variable: "no", or why the session may not be what the tab thinks

vars == <<session, done, scope, page, cache, stale, erred, fetch, kept, mutations, acked, sent, moves, moved>>
Queries == <<cache, stale, erred, fetch, kept>>

Keys == {"me", "overview", "screenings", "wallets", "alerts", "travelRule", "apiKeys", "audit", "org",
         "invites", "webhooks", "deliveries", "reports"}

\* What each answer is made of: an alert has its wallet's label and the names of those who
\* wrote its notes, and the overview has the newest alerts.
Reads(k) ==
  CASE k = "me" -> {"profile", "orgName", "membership"}
    [] k = "overview" -> {"screenings", "wallets", "alerts", "transfers", "profile"}
    [] k = "alerts" -> {"alerts", "wallets", "profile"}
    [] k = "travelRule" -> {"transfers"}
    [] k = "org" -> {"profile", "orgName", "membership"}
    [] OTHER -> {k}

\* The hooks that write: what the API changes, and what the handler invalidates.  A key
\* stands for those it is a prefix of; every write is in the audit log, and those that emit
\* an event make deliveries of it.
Writes == [screen |-> {"screenings", "deliveries"}, watch |-> {"wallets", "alerts", "deliveries"},
           decide |-> {"alerts", "deliveries"}, send |-> {"transfers", "deliveries"},
           transition |-> {"transfers", "deliveries"}, key |-> {"apiKeys"}, invite |-> {"invites"},
           member |-> {"membership"}, webhook |-> {"webhooks", "deliveries"},
           report |-> {"reports", "deliveries"}, rename |-> {"orgName"}, profile |-> {"profile"}]
Invalidates == [screen |-> {"screenings", "overview"}, watch |-> {"wallets", "alerts", "overview"},
           decide |-> {"alerts", "overview"}, send |-> {"travelRule", "overview"},
           transition |-> {"travelRule"}, key |-> {"apiKeys"}, invite |-> {"invites"},
           member |-> {"org", "me"}, webhook |-> {"webhooks", "deliveries"}, report |-> {"reports"},
           rename |-> {"org", "me"}, profile |-> {"me"}]
Ops == DOMAIN Writes
Changes(op) == Writes[op] \cup {"audit"}

\* What the hooks leave as it was: nothing asks for the audit log again, only the timer for the
\* deliveries of an event; a transition leaves the overview's count, and a profile the names
\* among the members and in the notes of alerts.
Gap(op, k) ==
  \/ k = "audit" \/ (k = "deliveries" /\ op # "webhook")
  \/ <<op, k>> \in {<<"transition", "overview">>, <<"profile", "org">>, <<"profile", "alerts">>, <<"profile", "overview">>}
Shows(op, k) == Changes(op) \cap Reads(k) # {} /\ ~Gap(op, k)

\* The queries a page mounts, besides those of the shell, and the writes it offers.
Mounts == [app |-> {"alerts", "wallets", "travelRule"}, screen |-> {}, screenings |-> {"screenings"},
           wallets |-> {"wallets"}, alerts |-> {"alerts", "screenings"}, travelRule |-> {"travelRule"},
           keys |-> {"apiKeys"}, audit |-> {"audit"}, team |-> {"org", "invites"}, settings |-> {"org"},
           webhooks |-> {"webhooks", "deliveries"}, reports |-> {"reports", "screenings", "travelRule"}]
Offers == [app |-> {}, screen |-> {"screen"}, screenings |-> {"report"}, wallets |-> {"watch"},
           alerts |-> {"decide"}, travelRule |-> {"send", "transition"}, keys |-> {"key"}, audit |-> {},
           team |-> {"invite", "member"}, settings |-> {"rename", "profile"}, webhooks |-> {"webhook"},
           reports |-> {"report"}]
Shell == {"me", "overview"}
MountedOn(p) == {k \in Shell \cup Mounts[p] : k \in scope}
Pages == {p \in DOMAIN Mounts : p = "app" \/ \E k \in scope \ {"me"} :
                k \in Mounts[p] \/ \E op \in Offers[p] : Shows(op, k)}
Mounted == MountedOn(page)

Asked == [answer |-> None, late |-> FALSE]
NoFetch == [k \in Keys |-> None]

\* The overview, the deliveries and unfinished reports are asked for again and again.
Polled == {"overview", "deliveries", "reports"}

\* The header, and with an error the whole dashboard, depends on me.
AppShell == cache["me"] # None /\ "me" \notin erred

Init ==
  \E o \in Orgs, s \in Scopes :
    /\ session = o /\ done = {} /\ scope = s.keys \cup {"me"} /\ page \in Pages
    /\ cache = [k \in Keys |-> IF k = "me" THEN [org |-> o, knows |-> {}, late |-> FALSE] ELSE None]
    /\ stale = {} /\ erred = {} /\ kept = {}
    /\ fetch = [k \in Keys |-> IF k \in MountedOn(page) \ {"me"} THEN Asked ELSE None]
    /\ mutations = {} /\ acked = {} /\ sent = 0 /\ moves = s.moves /\ moved = "no"

------------------------------------------------------------------------------
(* Queries.                                                                *)

\* What the API knows when it answers, which is when a write may have been or not.
ServeFetch(k) ==
  /\ fetch[k] # None /\ fetch[k].answer = None
  /\ fetch' = [fetch EXCEPT ![k].answer = [org |-> session, knows |-> {w.id : w \in {v \in done : v.org = session}}]]
  /\ UNCHANGED <<session, done, scope, page, cache, stale, erred, kept, mutations, acked, sent, moves, moved>>

\* An answer takes its place, whatever was invalidated while it was on its way.
FetchArrives(k) ==
  /\ fetch[k] # None /\ fetch[k].answer # None
  /\ cache' = [cache EXCEPT ![k] = [org |-> fetch[k].answer.org, knows |-> fetch[k].answer.knows, late |-> fetch[k].late]]
  /\ stale' = stale \ {k} /\ erred' = erred \ {k} /\ fetch' = [fetch EXCEPT ![k] = None]
  /\ UNCHANGED <<session, done, scope, page, kept, mutations, acked, sent, moves, moved>>

\* After its retries: the page shows the error, and the old answer stays in the cache.
FetchFails(k) ==
  /\ fetch[k] # None /\ fetch' = [fetch EXCEPT ![k] = None] /\ erred' = erred \cup {k}
  /\ UNCHANGED <<session, done, scope, page, cache, stale, kept, mutations, acked, sent, moves, moved>>

\* A poll, or the button of an error.
Refetch(k) ==
  /\ k \in Mounted /\ fetch[k] = None /\ (k \in Polled \/ k \in erred)
  /\ fetch' = [fetch EXCEPT ![k] = Asked] /\ kept' = kept \ {k}
  /\ UNCHANGED <<session, done, scope, page, cache, stale, erred, mutations, acked, sent, moves, moved>>

Age(k) ==
  /\ cache[k] # None /\ k \notin stale /\ stale' = stale \cup {k}
  /\ UNCHANGED <<session, done, scope, page, cache, erred, fetch, kept, mutations, acked, sent, moves, moved>>

\* Five minutes after its page was left.
Collect(k) ==
  /\ k \notin Mounted /\ cache[k] # None /\ fetch[k] = None
  /\ cache' = [cache EXCEPT ![k] = None] /\ stale' = stale \ {k} /\ erred' = erred \ {k}
  /\ UNCHANGED <<session, done, scope, page, fetch, kept, mutations, acked, sent, moves, moved>>

\* A page asks for what is missing or old; what it has it shows.
Wanted(k) == fetch[k] = None /\ (cache[k] = None \/ k \in stale \cup erred)
Visit ==
  /\ AppShell /\ moves > 0 /\ moves' = moves - 1
  /\ page' \in Pages \ {page} /\ kept' = {}
  /\ fetch' = [k \in Keys |-> IF Wanted(k) /\ (k \in MountedOn(page') \ (Mounted \ kept) \/ k = "me") THEN Asked ELSE fetch[k]]
  /\ UNCHANGED <<session, done, scope, cache, stale, erred, mutations, acked, sent, moved>>

\* A component that is drawn again for another reason finds its query gone.
DrawnAgain(k) ==
  /\ k \in kept /\ kept' = kept \ {k}
  /\ fetch' = IF Wanted(k) THEN [fetch EXCEPT ![k] = Asked] ELSE fetch
  /\ UNCHANGED <<session, done, scope, page, cache, stale, erred, mutations, acked, sent, moves, moved>>

------------------------------------------------------------------------------
(* Mutations.                                                              *)

Submit ==
  /\ AppShell /\ sent < MaxWrites /\ sent' = sent + 1
  /\ \E op \in Offers[page] : mutations' = mutations \cup {[id |-> sent, op |-> op, answer |-> "awaited"]}
  /\ UNCHANGED <<session, done, scope, page, Queries, acked, moves, moved>>

Serve(m) ==
  /\ m.op \in Ops /\ m.answer = "awaited"
  /\ mutations' = (mutations \ {m}) \cup {[m EXCEPT !.answer = "ok"]}
  /\ done' = done \cup {[id |-> m.id, op |-> m.op, org |-> session]}
  /\ UNCHANGED <<session, scope, page, Queries, acked, sent, moves, moved>>

OnlyIfIdle(ks) ==
  /\ stale' = stale \cup {k \in ks : cache[k] # None}
  /\ fetch' = [k \in Keys |-> IF k \in ks \cap Mounted /\ fetch[k] = None THEN Asked ELSE fetch[k]]

\* A mounted query is asked for again, in place of what is under way, unless that is
\* its first; one that is not mounted, or that, lands late.
Invalidate(ks) ==
  LET anew == {k \in ks \cap Mounted : cache[k] # None} IN
  /\ stale' = stale \cup {k \in ks : cache[k] # None}
  /\ fetch' = [k \in Keys |->
       IF k \in anew THEN Asked
       ELSE IF k \in ks /\ fetch[k] # None THEN [fetch[k] EXCEPT !.late = TRUE] ELSE fetch[k]]
onSuccess(m) ==
  /\ m.op \in Ops /\ m.answer = "ok"
  /\ Invalidate(Invalidates[m.op])
  /\ mutations' = mutations \ {m} /\ acked' = acked \cup {m.id}
  /\ UNCHANGED <<session, done, scope, page, cache, erred, kept, sent, moves, moved>>

\* Refused, or its answer is lost: the handler says so and invalidates nothing.
onError(m) ==
  /\ m.op \in Ops /\ mutations' = mutations \ {m}
  /\ UNCHANGED <<session, done, scope, page, Queries, acked, sent, moves, moved>>

------------------------------------------------------------------------------
(* Switching the org.                                                      *)

OrgSwitcher(o) ==
  /\ AppShell /\ o # cache["me"].org /\ moves > 0 /\ moves' = moves - 1
  /\ mutations' = mutations \cup {[id |-> -1 - moves', op |-> o, answer |-> "awaited"]}
  /\ UNCHANGED <<session, done, scope, page, Queries, acked, sent, moved>>

\* The session moves before the tab hears of it.
ServeSwitch(m) ==
  /\ m.op \in Orgs /\ m.answer = "awaited" /\ session' = m.op
  /\ mutations' = (mutations \ {m}) \cup {[m EXCEPT !.answer = "ok"]}
  /\ moved' = IF moved = "no" /\ session' # session THEN "switching" ELSE IF session' # session THEN "behind" ELSE moved
  /\ UNCHANGED <<done, scope, page, Queries, acked, sent, moves>>

\* An answer that another switch overtook names an org the session has left.
Settled(m) == moved' = IF session # m.op THEN "behind" ELSE IF moved = "switching" THEN "no" ELSE moved

InvalidatesAll(m) ==
  /\ m.op \in Orgs /\ m.answer = "ok"
  /\ cache' = [cache EXCEPT !["me"] = [org |-> m.op, knows |-> {}, late |-> FALSE]]
  /\ stale' = Keys /\ erred' = {} /\ page' = "app" /\ kept' = {}
  /\ fetch' = [k \in Keys |-> IF k \in MountedOn("app") \ {"me"} THEN Asked ELSE fetch[k]]
  /\ mutations' = mutations \ {m} /\ Settled(m)
  /\ UNCHANGED <<session, done, scope, acked, sent, moves>>

\* clear() drops every answer and every request under way; the switcher names the org of
\* the answer; the router goes to the overview, which asks for what it shows, unless it is
\* there already: then what was on screen stays.
Switched(m) ==
  /\ m.op \in Orgs /\ m.answer = "ok"
  /\ cache' = [k \in Keys |-> IF k = "me" THEN [org |-> m.op, knows |-> {w.id : w \in {v \in done : v.org = m.op}}, late |-> FALSE] ELSE None]
  /\ stale' = {} /\ erred' = {} /\ page' = "app"
  /\ kept' = IF page = "app" THEN Mounted ELSE {}
  /\ fetch' = [k \in Keys |-> IF k \in MountedOn("app") \ (kept' \cup {"me"}) THEN Asked ELSE None]
  /\ mutations' = mutations \ {m} /\ Settled(m)
  /\ UNCHANGED <<session, done, scope, acked, sent, moves>>
SwitchFails(m) ==
  /\ m.op \in Orgs /\ mutations' = mutations \ {m}
  /\ moved' = IF m.answer = "ok" /\ moved = "switching" THEN "behind" ELSE moved
  /\ UNCHANGED <<session, done, scope, page, Queries, acked, sent, moves>>

\* Another tab of the same browser shares the session and not the cache.
SwitchElsewhere(o) ==
  /\ o # session /\ moves > 0 /\ moves' = moves - 1
  /\ session' = o /\ moved' = "behind"
  /\ UNCHANGED <<done, scope, page, Queries, mutations, acked, sent>>

Next ==
  \/ \E k \in scope : ServeFetch(k) \/ FetchArrives(k) \/ FetchFails(k) \/ Refetch(k) \/ Age(k) \/ Collect(k) \/ DrawnAgain(k)
  \/ Visit \/ Submit
  \/ \E m \in mutations : Serve(m) \/ onSuccess(m) \/ onError(m) \/ ServeSwitch(m) \/ Switched(m) \/ SwitchFails(m)
  \/ \E o \in Orgs : OrgSwitcher(o) \/ SwitchElsewhere(o)

------------------------------------------------------------------------------
(* Properties.                                                             *)

\* What is shown out of the cache.
OnScreen == IF AppShell THEN {k \in Mounted \ kept : cache[k] # None /\ k \notin erred} ELSE {}

\* One org at a time: what the dashboard shows under the name of an org is that org's,
\* unless a switch is under way, the session was moved where the tab could not see it, or
\* one of several switches was answered after a later one; and but for what the overview
\* showed when the org was switched there, which no other page shows.
OneOrgOnScreen ==
  /\ moved = "no" => \A k \in OnScreen : cache[k].org = session /\ cache["me"].org = session
  /\ kept # {} => page = "app"

\* Once a write is acknowledged, every page that shows what it changed shows the change
\* or is asking for it, but for answers that were on their way and landed late, for what the
\* hooks leave as it was (Gap), and for what a switch of the org left on screen.
OwnWritesShow ==
  \A k \in OnScreen, w \in done :
    (/\ fetch[k] = None /\ ~cache[k].late /\ w.id \in acked /\ w.org = cache[k].org
     /\ Shows(w.op, k)) => w.id \in cache[k].knows

Spec == Init /\ [][Next]_vars

------------------------------------------------------------------------------
(* Why these hold: the strengthening, of which each step keeps every part. *)

Known == [org : Orgs, knows : SUBSET Nat]
Answers == [org : Orgs, knows : SUBSET Nat, late : BOOLEAN]
Fetches == [answer : Known \cup {None}, late : BOOLEAN]
Typed ==
  /\ session \in Orgs /\ page \in DOMAIN Mounts /\ scope \in SUBSET Keys
  /\ done \in SUBSET [id : Nat, op : Ops, org : Orgs]
  /\ kept \in SUBSET Keys /\ (kept # {} => page = "app")
  /\ cache \in [Keys -> Answers \cup {None}] /\ fetch \in [Keys -> Fetches \cup {None}]

\* A write has one handler, and what was acknowledged was sent.
IdsApart ==
  /\ sent \in Nat /\ acked \in SUBSET Nat /\ \A i \in acked : i < sent
  /\ \A w \in done : w.id < sent
  /\ \A m \in mutations :
       /\ DOMAIN m = {"id", "op", "answer"}
       /\ m.op \in Ops => /\ m.id \in Nat /\ m.id < sent /\ m.id \notin acked
                          /\ \A n \in mutations : n.op \in Ops /\ n.id = m.id => n = m
                          /\ \A w \in done : w.id = m.id => w.op = m.op

\* What is cached, and what is on its way, is of the org of the session.
OfTheSession ==
  moved = "no" => \A k \in Keys :
    /\ cache[k] # None => cache[k].org = session
    /\ fetch[k] # None => (fetch[k].answer # None => fetch[k].answer.org = session)

\* An answer that does not know an acknowledged write is old, and will be asked for again.
Misses(a, k) == \E w \in done : w.id \in acked /\ w.org = a.org /\ Shows(w.op, k) /\ w.id \notin a.knows
WritesFollow ==
  \A k \in Keys :
    /\ cache[k] # None =>
         (~cache[k].late /\ Misses(cache[k], k) => k \in erred \/ (k \in stale /\ (k \in Mounted => fetch[k] # None)))
    /\ fetch[k] # None => (~fetch[k].late /\ fetch[k].answer # None => ~Misses(fetch[k].answer, k))

CacheInv == Typed /\ IdsApart /\ OfTheSession /\ WritesFollow

==============================================================================
