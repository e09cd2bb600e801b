---- MODULE AuthPages ----
(***************************************************************************)
(* Signing in and out in one browser tab: the edge check (apps/web/        *)
(* proxy.ts), the guard of the dashboard (AppShell), the cached answer of  *)
(* /auth/me, and the pages for login, signup, e-mail verification,         *)
(* forgotten passwords and invites (apps/web/app/(auth)).                  *)
(*                                                                         *)
(* Three things say who is signed in and can disagree: the session row of  *)
(* the API, the cookie, of which the edge sees only that it is there, and  *)
(* the cached answer, which is null when signed out.  A page is where the  *)
(* router has led; what a form holds is left out.  Handlers of a request   *)
(* run wherever the user has gone meanwhile.                               *)
(***************************************************************************)
EXTENDS Integers, FiniteSets

CONSTANTS Orgs,          \* the orgs a session can be in
          MaxMoves,      \* bound: forms sent, and pages loaded from their address
          None

VARIABLES session,       \* the API: the org of the session the cookie names, or None
          cookie,        \* the browser has a session cookie
          verified,      \* the API: the address of the user is verified
          link,          \* the API: the state of the e-mailed link, "good" or "spent"
          path, next,    \* where the router is, and the login page's ?next=
          me, meError, stale,   \* the cached answer of /auth/me, its status, and whether it is old
          fetch,         \* the request for /auth/me: None, or its answer so far
          ran,           \* what the guard's effect last ran for
          view,          \* what the page itself says: "form", "checking", "done", "expired"
          ops,           \* forms sent, whose handler has not run
          sent,
          excuse         \* history variable: why the tab may think it is signed out though it is not

vars == <<session, cookie, verified, link, path, next, me, meError, stale, fetch, ran, view, ops, sent, excuse>>

Dashboard == {"app", "app/page"}
AuthForms == {"login", "signup", "forgot-password", "reset-password", "invite", "verify-email"}
Paths == Dashboard \cup AuthForms
Unknown == "unknown"
SignedOut == "null"
Client == <<path, next, view, ran>>
Api == <<session, cookie, verified, link>>
Query == <<me, meError, stale, fetch>>

------------------------------------------------------------------------------
(* The router: every path goes through the edge.                           *)

proxyAlwaysIn(p, hasSession) ==
  IF p \in {"login", "signup"} THEN "app" ELSE p
\* No cookie, no dashboard; with one, neither login nor signup.
proxy(p, hasSession) ==
  IF p \in Dashboard /\ ~hasSession THEN "login"
  ELSE IF p \in {"login", "signup"} /\ hasSession THEN "app" ELSE p

\* What the guard of the dashboard shows.
AppShell ==
  IF path \notin Dashboard THEN "absent"
  ELSE IF me = SignedOut \/ (me = Unknown /\ ~meError) THEN "skeleton"
  ELSE IF meError THEN "try again" ELSE "dashboard"

\* Only a path of the dashboard survives as the place to go after login.
safeNext(n) == IF n \in Dashboard THEN n ELSE "app"

UsesMe(p) == p \in Dashboard \cup {"verify-email"}

\* A page that is left forgets that it waits for an answer, the guard what it ran for.
Left(os, q) == IF q = path THEN os ELSE {[o EXCEPT !.here = FALSE] : o \in os}
Go(p, hasSession) ==
  LET q == proxy(p, hasSession) IN
  /\ path' = q
  /\ next' = IF q # "login" THEN None ELSE IF p \in Dashboard THEN p ELSE next
  /\ view' = IF q # path THEN "form" ELSE view
  /\ ran' = IF q \in Dashboard THEN ran ELSE None

Init ==
  /\ session \in Orgs \cup {None} /\ cookie \in {c \in BOOLEAN : session # None => c}
  /\ verified = FALSE /\ link = "good"
  /\ path = "invite" /\ next = None /\ me = Unknown /\ meError = FALSE /\ stale = FALSE
  /\ fetch = None /\ ran = None /\ view = "form" /\ ops = {} /\ sent = 0 /\ excuse = "none"

\* A link inside the application keeps the cache; the dashboard has no link to a form.
Follow(p) ==
  /\ p # path /\ (path \in Dashboard => AppShell = "dashboard" /\ p \in Dashboard)
  /\ Go(p, cookie) /\ ops' = Left(ops, path')
  /\ UNCHANGED <<Api, Query, sent, excuse>>

\* An address that is typed, reloaded or opened from a mail starts from nothing.
Load(p) ==
  /\ sent < MaxMoves /\ sent' = sent + 1
  /\ path' = proxy(p, cookie) /\ next' = IF path' = "login" /\ p \in Dashboard THEN p ELSE None
  /\ view' = "form" /\ ran' = None /\ ops' = {}
  /\ me' = Unknown /\ meError' = FALSE /\ stale' = FALSE /\ fetch' = None
  /\ UNCHANGED <<Api, excuse>>

------------------------------------------------------------------------------
(* useMe: 401 is the answer null; anything else that fails is an error.    *)

FetchMe ==
  /\ fetch = None /\ UsesMe(path) /\ (stale \/ (me = Unknown /\ ~meError))
  /\ fetch' = "awaited" /\ stale' = FALSE
  /\ UNCHANGED <<Api, Client, me, meError, ops, sent, excuse>>

ServeMe ==
  /\ fetch = "awaited"
  /\ fetch' = IF cookie /\ session # None THEN session ELSE SignedOut
  /\ UNCHANGED <<Api, Client, me, meError, stale, ops, sent, excuse>>

MeArrives ==
  /\ fetch \notin {None, "awaited"}
  /\ me' = fetch /\ meError' = FALSE /\ fetch' = None
  /\ ran' = IF fetch = SignedOut THEN ran ELSE None
  /\ UNCHANGED <<Api, path, next, view, stale, ops, sent, excuse>>

MeFails ==
  /\ fetch # None /\ fetch' = None /\ meError' = TRUE
  /\ UNCHANGED <<Api, Client, me, stale, ops, sent, excuse>>

\* "Try again" of the guard.
Retry ==
  /\ AppShell = "try again" /\ fetch = None /\ fetch' = "awaited"
  /\ UNCHANGED <<Api, Client, me, meError, stale, ops, sent, excuse>>

\* A minute later the next page that asks for it fetches it again.
MeAges ==
  /\ me # Unknown /\ ~stale /\ ~UsesMe(path) /\ stale' = TRUE
  /\ UNCHANGED <<Api, Client, me, meError, fetch, ops, sent, excuse>>

\* The effect of the guard runs when the answer or the path has changed since it last did.
ToLogin ==
  /\ path \in Dashboard /\ me = SignedOut /\ ran # path
  /\ LET q == proxy("login", cookie) IN
     /\ path' = q /\ view' = IF q = path THEN view ELSE "form"
     /\ next' = IF q = "login" THEN path ELSE None
     /\ ran' = IF q = "login" THEN None ELSE path
     /\ ops' = Left(ops, q)
  /\ UNCHANGED <<Api, Query, sent, excuse>>

------------------------------------------------------------------------------
(* The forms.                                                              *)

\* Where each form is; a button is disabled while its own request is under way, but
\* "Log out" and "Start over", which logs out and goes to the signup page.
FormOf == [login |-> {"login"}, signup |-> {"signup"}, forgot |-> {"forgot-password"},
           reset |-> {"reset-password"}, accept |-> {"invite"}, verify |-> {"verify-email"},
           resend |-> {"verify-email"} \cup Dashboard, leave |-> {"app/page"},
           logout |-> Dashboard, startOver |-> {"verify-email"}]
Kinds == DOMAIN FormOf

MayUse(kind) ==
  /\ path \in FormOf[kind] /\ (path \in Dashboard => AppShell = "dashboard")
  /\ kind \in {"login", "signup", "reset", "accept"} => view = "form"
  /\ kind = "verify" => view = "form"
  /\ kind \in {"resend", "startOver"} /\ path = "verify-email" => me \in Orgs

Submit(kind) ==
  /\ MayUse(kind)
  /\ kind \in {"logout", "startOver"} \/ ~\E o \in ops : o.kind = kind /\ o.here
  /\ sent < MaxMoves /\ sent' = sent + 1
  /\ ops' = ops \cup {[id |-> sent, kind |-> kind, here |-> TRUE, answer |-> "awaited", org |-> None]}
  /\ view' = IF kind = "verify" THEN "checking" ELSE view
  /\ UNCHANGED <<Api, Query, path, next, ran, excuse>>

\* The API does it and answers; a new session has no cookie before that arrives.
Serve(o) ==
  /\ o.answer = "awaited"
  /\ o.kind = "verify" => link = "good"
  /\ \E org \in Orgs :
       ops' = (ops \ {o}) \cup {[o EXCEPT !.answer = "ok", !.org = IF o.kind \in {"login", "signup", "accept"} THEN org ELSE None]}
  /\ session' = IF o.kind \in {"logout", "startOver", "reset", "leave"} THEN None ELSE session
  /\ verified' = (verified \/ o.kind = "verify") /\ link' = IF o.kind = "verify" THEN "spent" ELSE link
  /\ UNCHANGED <<cookie, Client, Query, sent, excuse>>

\* Refused, or lost on its way; the API may have done it all the same.
Fails(o) ==
  /\ o.answer \in {"awaited", "ok"}
  /\ ops' = (ops \ {o}) \cup {[o EXCEPT !.answer = "error"]}
  /\ UNCHANGED <<Api, Client, Query, sent, excuse>>

\* clear() drops the cache with the fetch under way, and me is set at once.
Clear(value) == me' = value /\ meError' = FALSE /\ stale' = FALSE /\ fetch' = None
SetMe(value) == me' = value /\ meError' = FALSE /\ stale' = FALSE /\ UNCHANGED fetch

SignedIn(o) ==
  /\ o.kind \in {"login", "signup", "accept"} /\ o.answer = "ok"
  /\ session' = o.org /\ cookie' = TRUE
  /\ IF o.kind = "accept" THEN Clear(o.org) ELSE SetMe(o.org)
  /\ Go(IF o.kind = "login" THEN safeNext(next) ELSE IF o.kind = "signup" THEN "verify-email" ELSE "app", TRUE)
  /\ ops' = Left(ops \ {o}, path') /\ UNCHANGED <<verified, link, sent>>
  /\ excuse' = IF o.kind # "accept" /\ fetch # None THEN "late answer" ELSE "none"

\* Logging out clears the cache and leaves even when the request failed.
LoggedOut(o) ==
  /\ o.kind \in {"logout", "startOver"} /\ o.answer \in {"ok", "error"}
  /\ cookie' = (cookie /\ o.answer # "ok")
  /\ excuse' = IF o.answer = "error" THEN "logout failed" ELSE excuse
  /\ Clear(SignedOut) /\ Go(IF o.kind = "logout" THEN "login" ELSE "signup", cookie')
  /\ ops' = Left(ops \ {o}, path') /\ UNCHANGED <<session, verified, link, sent>>

\* Who leaves an org has no session left, but keeps the cookie.
LeftOrg(o) ==
  /\ o.kind = "leave" /\ o.answer = "ok"
  /\ Clear(Unknown) /\ Go("login", cookie)
  /\ ops' = Left(ops \ {o}, path') /\ UNCHANGED <<Api, sent, excuse>>

PasswordReset(o) ==
  /\ o.kind = "reset" /\ o.answer = "ok"
  /\ cookie' = FALSE /\ Clear(SignedOut) /\ Go("login", FALSE)
  /\ ops' = Left(ops \ {o}, path') /\ UNCHANGED <<session, verified, link, sent, excuse>>

\* The page of the link says it is verified, or that the link has expired.
LinkFollowed(o) ==
  /\ o.kind = "verify" /\ o.answer # "awaited"
  /\ view' = IF ~o.here THEN view ELSE IF o.answer = "ok" THEN "done" ELSE "expired"
  /\ stale' = (stale \/ (o.answer = "ok" /\ me # Unknown))
  /\ ops' = ops \ {o} /\ UNCHANGED <<Api, path, next, ran, me, meError, fetch, sent, excuse>>

\* The rest only say what happened: a mail was sent, a form has an error, an invite is gone.
Shown(o) ==
  /\ \/ o.kind \in {"forgot", "resend"} /\ o.answer # "awaited"
     \/ o.kind \in {"login", "signup", "accept", "reset", "leave"} /\ o.answer = "error"
  /\ IF ~o.here THEN UNCHANGED view
     ELSE IF o.kind = "forgot" /\ o.answer = "ok" THEN view' = "done"
     ELSE \/ o.kind \in {"accept", "reset"} /\ view' = "expired"
          \/ UNCHANGED view
  /\ ops' = ops \ {o} /\ UNCHANGED <<Api, Query, path, next, ran, sent, excuse>>

\* A password reset elsewhere, a removal from the org, or time ends the session.
Revoke ==
  /\ session # None /\ session' = None
  /\ UNCHANGED <<cookie, verified, link, Client, Query, ops, sent, excuse>>

Handler(o) == SignedIn(o) \/ LoggedOut(o) \/ LeftOrg(o) \/ PasswordReset(o) \/ LinkFollowed(o) \/ Shown(o)

Next ==
  \/ \E p \in Paths : Follow(p) \/ Load(p)
  \/ FetchMe \/ ServeMe \/ MeArrives \/ MeFails \/ Retry \/ MeAges \/ ToLogin
  \/ \E kind \in Kinds : Submit(kind)
  \/ \E o \in ops : Serve(o) \/ Fails(o) \/ Handler(o)
  \/ Revoke

Spec == Init /\ [][Next]_vars

------------------------------------------------------------------------------
(* Properties.                                                             *)

\* The guard shows its skeleton for good only in a browser that still has a cookie:
\* whoever has none is at the login page.
StuckOnlyWithCookie == (AppShell = "skeleton" /\ me = SignedOut /\ ran = path) => cookie

\* A tab whose session lives is not stuck there: only when logging out failed, or when
\* the answer of a /auth/me that was asked before the login came after it.
NotThrownOut ==
  (AppShell = "skeleton" /\ me = SignedOut /\ ran = path /\ cookie /\ session # None) => excuse # "none"

------------------------------------------------------------------------------
(* Why these hold: the strengthening, of which each step keeps every part. *)

\* A form that signs in was answered with the org its session is in.
SignsIn(o) ==
  /\ DOMAIN o = {"id", "kind", "here", "answer", "org"}
  /\ (o.kind \in {"login", "signup", "accept"} /\ o.answer = "ok") => o.org \in Orgs

\* What says that nobody is signed in, cached or on its way, is right but for an excuse.
LooksSignedOut == (excuse = "none" /\ (me = SignedOut \/ fetch = SignedOut)) => (session = None \/ ~cookie)

AuthInv ==
  /\ session \in Orgs \cup {None} /\ cookie \in BOOLEAN
  /\ path \in Dashboard => cookie
  /\ \A o \in ops : SignsIn(o)
  /\ LooksSignedOut

==============================================================================
