---- MODULE SecretPages ----
(***************************************************************************)
(* The two pages of the dashboard that show a secret once                  *)
(* (apps/web/app/app/webhooks/page.tsx and app/app/keys/page.tsx, with     *)
(* components/admin and components/ui/dialog.tsx).                         *)
(*                                                                         *)
(* Creating an endpoint, rotating its secret and creating a key answer     *)
(* with a secret that the server cannot show again.  The state is what one *)
(* browser tab holds: which page is mounted, its dialogs, the secret on    *)
(* screen and the requests under way.  A request outlives the dialog, the  *)
(* form and the page that sent it; its handler runs in the closure of the  *)
(* component that made it, and what it sets on an unmounted one is lost.   *)
(* Secrets are numbered as they are minted.  What is typed into a form,    *)
(* and its validation, are left out.                                       *)
(***************************************************************************)
EXTENDS Integers, FiniteSets

CONSTANTS Endpoints,     \* the endpoints that may come to exist
          MaxMinted,     \* bound: secrets minted
          MaxRequests,   \* bound: requests sent
          None

VARIABLES secretOf,    \* the server: an endpoint's secret, 0 before it exists, -1 once deleted
          minted,      \* the server: how many secrets there have been
          apiKeys, revokedKeys, \* the server: the keys made, named by their secret, and those revoked
          ownerOf,     \* history variable: the endpoint a secret was minted for, or None
          role,        \* the tab: the user's role, as /auth/me last said
          page,        \* the page mounted
          editing,     \* the form dialog: None, "new" or the endpoint edited
          confirming,  \* the confirm dialog: None or what it is about to do
          shown,       \* the secret dialog: the secret, or 0
          requests,    \* the requests whose handler has not run
          sent,        \* how many were sent
          abandoned,   \* requests the browser gave up that the server may still do
          fate,        \* history variable: what became of each secret
          stray        \* history variable: a request nobody waits for changed a secret

vars == <<secretOf, minted, apiKeys, revokedKeys, ownerOf, role, page, editing, confirming, shown,
            requests, sent, abandoned, fate, stray>>

Server == <<secretOf, minted, apiKeys, revokedKeys, ownerOf, stray>>
Secrets == 1..MaxMinted

isAdmin == role = "admin"
atLeastAnalyst == role \in {"analyst", "admin"}

\* What the page shows its user; a viewer sees neither endpoints nor dialogs.
WebhooksPage ==
  IF page # "webhooks" THEN "absent"
  ELSE IF ~atLeastAnalyst THEN "no access" ELSE IF isAdmin THEN "manage" ELSE "read"
ApiKeysPage == IF page # "keys" THEN "absent" ELSE IF isAdmin THEN "manage" ELSE "no access"
SecretDialog == shown # 0 /\ (WebhooksPage \in {"read", "manage"} \/ ApiKeysPage # "absent")

\* Content behind a dialog is inert: only with none open can a button be pressed.
Idle == editing = None /\ confirming = None /\ ~SecretDialog

\* Busy(ops): a request of this visit is under way; its buttons are disabled.
Busy(ops) == \E r \in requests : r.op \in ops /\ r.here

Listed == {e \in Endpoints : secretOf[e] # 0}

Init ==
  /\ secretOf = [e \in Endpoints |-> IF e = CHOOSE f \in Endpoints : TRUE THEN 1 ELSE 0]
  /\ minted = 1 /\ apiKeys = {} /\ revokedKeys = {}
  /\ ownerOf = [s \in Secrets |-> IF s = 1 THEN CHOOSE f \in Endpoints : TRUE ELSE None]
  /\ role \in {"viewer", "analyst", "admin"}
  /\ page = "elsewhere" /\ editing = None /\ confirming = None /\ shown = 0
  /\ requests = {} /\ sent = 0 /\ abandoned = {}
  /\ fate = [s \in Secrets |-> IF s = 1 THEN "saved" ELSE "unminted"] /\ stray = FALSE

Send(op, target) ==
  /\ sent < MaxRequests /\ sent' = sent + 1
  /\ requests' = requests \cup
       {[id |-> sent, op |-> op, target |-> target, here |-> TRUE, ofForm |-> TRUE,
         answer |-> "awaited", secret |-> 0]}

\* What is unmounted no longer disables a button, nor is it told the answer.
PageGone == {[r EXCEPT !.here = FALSE, !.ofForm = FALSE] : r \in requests}
FormGone == {[r EXCEPT !.ofForm = FALSE] : r \in requests}

------------------------------------------------------------------------------
(* Pages.                                                                  *)

\* A page that is left takes its dialogs with it, and a secret on screen.
Visit(p) ==
  /\ p # page /\ page' = p /\ requests' = PageGone
  /\ editing' = None /\ confirming' = None /\ shown' = 0
  /\ fate' = [s \in Secrets |-> IF s = shown THEN "left" ELSE fate[s]]
  /\ UNCHANGED <<Server, role, sent, abandoned>>

\* /auth/me is fetched again and says less: what the page no longer renders
\* is unmounted, the lists with their confirm dialog and the form's state.
Demote ==
  /\ role = "admin" /\ role' \in {"analyst", "viewer"}
  /\ confirming' = IF page = "keys" \/ role' = "viewer" THEN None ELSE confirming
  /\ requests' = IF page = "webhooks" /\ role' = "viewer" THEN FormGone ELSE requests
  /\ UNCHANGED <<Server, page, editing, shown, sent, abandoned, fate>>

------------------------------------------------------------------------------
(* The webhooks page.                                                      *)

OpenForm(what) ==
  /\ WebhooksPage = "manage" /\ Idle
  /\ editing' = what
  /\ UNCHANGED <<Server, role, page, confirming, shown, requests, sent, abandoned, fate>>

\* Cancel, Escape, the backdrop and the X, also while the request is under way.
CloseForm ==
  /\ editing # None /\ WebhooksPage # "no access" /\ editing' = None
  /\ requests' = IF page = "webhooks" THEN FormGone ELSE requests
  /\ UNCHANGED <<Server, role, page, confirming, shown, sent, abandoned, fate>>

\* The button of this very form is disabled while its own request is under way.
SubmitForm ==
  /\ WebhooksPage \in {"read", "manage"} /\ editing # None
  /\ ~\E r \in requests : r.op \in {"create", "edit"} /\ r.ofForm
  /\ IF editing = "new" THEN Send("create", None) ELSE Send("edit", editing)
  /\ UNCHANGED <<Server, role, page, editing, confirming, shown, abandoned, fate>>

OpenConfirm(kind, e) ==
  /\ WebhooksPage = "manage" /\ Idle
  /\ confirming' = [kind |-> kind, target |-> e]
  /\ UNCHANGED <<Server, role, page, editing, shown, requests, sent, abandoned, fate>>

NeverLoading == FALSE
Loading == IF page = "keys" THEN Busy({"revoke"}) ELSE Busy({"rotate", "delete"})

\* While the request is under way nothing closes the dialog: not Cancel, Escape, the backdrop
\* nor the X.
CloseConfirm ==
  /\ confirming # None /\ ~Loading /\ confirming' = None
  /\ UNCHANGED <<Server, role, page, editing, shown, requests, sent, abandoned, fate>>
Confirm ==
  /\ confirming # None /\ ~Loading
  /\ Send(confirming.kind, confirming.target)
  /\ UNCHANGED <<Server, role, page, editing, confirming, shown, abandoned, fate>>

\* The buttons of a card: a test waits for its answer before the next, the switch does not.
EndpointCard(op, e) ==
  /\ WebhooksPage = "manage" /\ Idle
  /\ op = "test" => ~\E r \in requests : r.op = "test" /\ r.target = e /\ r.here
  /\ Send(op, e)
  /\ UNCHANGED <<Server, role, page, editing, confirming, shown, abandoned, fate>>

\* The table below the cards sends one delivery again at a time.
Deliveries ==
  /\ WebhooksPage = "manage" /\ Idle /\ ~Busy({"redeliver"})
  /\ Send("redeliver", None)
  /\ UNCHANGED <<Server, role, page, editing, confirming, shown, abandoned, fate>>

------------------------------------------------------------------------------
(* The API keys page.                                                      *)

OpenCreateKey ==
  /\ ApiKeysPage = "manage" /\ Idle /\ editing' = "key"
  /\ UNCHANGED <<Server, role, page, confirming, shown, requests, sent, abandoned, fate>>

\* The dialog stays mounted when it is closed, and so does its pending request.
CreatingKey == Busy({"createKey"})
SubmitKey ==
  /\ page = "keys" /\ editing = "key" /\ ~CreatingKey
  /\ Send("createKey", None)
  /\ UNCHANGED <<Server, role, page, editing, confirming, shown, abandoned, fate>>

OpenRevoke(k) ==
  /\ ApiKeysPage = "manage" /\ Idle
  /\ confirming' = [kind |-> "revoke", target |-> k]
  /\ UNCHANGED <<Server, role, page, editing, shown, requests, sent, abandoned, fate>>

------------------------------------------------------------------------------
(* Requests.                                                               *)

Mints == {"create", "rotate", "createKey"}

KeysAfter(r) ==
  /\ apiKeys' = IF r.op = "createKey" THEN apiKeys \cup {minted + 1} ELSE apiKeys
  /\ revokedKeys' = IF r.op = "revoke" THEN revokedKeys \cup {r.target} ELSE revokedKeys

\* What the server does for r; awaited says whether a handler waits for it.
Apply(r, awaited) ==
  /\ r.op \in Mints => minted < MaxMinted
  /\ CASE r.op = "create" ->
            \E e \in Endpoints : secretOf[e] = 0 /\ secretOf' = [secretOf EXCEPT ![e] = minted + 1]
       [] r.op = "rotate" -> secretOf[r.target] > 0 /\ secretOf' = [secretOf EXCEPT ![r.target] = minted + 1]
       [] r.op = "delete" -> secretOf[r.target] > 0 /\ secretOf' = [secretOf EXCEPT ![r.target] = -1]
       [] OTHER -> UNCHANGED secretOf
  /\ minted' = IF r.op \in Mints THEN minted + 1 ELSE minted
  /\ ownerOf' = [s \in Secrets |-> IF \E e \in Endpoints : secretOf'[e] = s THEN CHOOSE e \in Endpoints : secretOf'[e] = s ELSE ownerOf[s]]
  /\ KeysAfter(r)
  /\ stray' = (stray \/ (~awaited /\ r.op \in {"rotate", "delete"}))
  /\ fate' = [s \in Secrets |->
       IF s = minted + 1 /\ r.op \in Mints THEN (IF awaited THEN r.op ELSE "unanswered") ELSE fate[s]]

Serve(r) ==
  /\ r.answer = "awaited" /\ Apply(r, r.here)
  /\ requests' = (requests \ {r}) \cup {[r EXCEPT !.answer = "ok", !.secret = IF r.op \in Mints THEN minted + 1 ELSE 0]}
  /\ UNCHANGED <<role, page, editing, confirming, shown, sent, abandoned>>

\* The server refuses, or the connection fails before it got the request.
Refuse(r) ==
  /\ r.answer = "awaited"
  /\ requests' = (requests \ {r}) \cup {[r EXCEPT !.answer = "error"]}
  /\ UNCHANGED <<Server, role, page, editing, confirming, shown, sent, abandoned, fate>>

\* The connection fails; the server may have done it, or do it later.
Cut(r) ==
  /\ r.answer \in {"awaited", "ok"}
  /\ requests' = (requests \ {r}) \cup {[r EXCEPT !.answer = "error", !.secret = 0]}
  /\ abandoned' = IF r.answer = "awaited" THEN abandoned \cup {r} ELSE abandoned
  /\ stray' = (stray \/ (r.answer = "ok" /\ r.op \in {"rotate", "delete"}))
  /\ fate' = [s \in Secrets |-> IF s = r.secret THEN "unanswered" ELSE fate[s]]
  /\ UNCHANGED <<secretOf, minted, apiKeys, revokedKeys, ownerOf, role, page, editing, confirming, shown, sent>>

ServeAbandoned(r) ==
  /\ Apply(r, FALSE) /\ abandoned' = abandoned \ {r}
  /\ UNCHANGED <<role, page, editing, confirming, shown, requests, sent>>

\* The handlers.  A success closes the dialog that is open now, which need not be
\* the one that sent it; an error leaves the dialogs as they are.
Answer(r) ==
  LET here == r.here
      replaced(s) == s = shown /\ s # 0
  IN
  /\ r.answer \in {"ok", "error"}
  /\ editing' = IF here /\ r.answer = "ok" /\ r.op \in {"create", "edit", "createKey"} THEN None ELSE editing
  /\ requests' = (IF editing' # editing THEN FormGone ELSE requests) \ {r, [r EXCEPT !.ofForm = FALSE]}
  /\ confirming' = IF here /\ r.answer = "ok" /\ r.op \in {"rotate", "delete", "revoke"} THEN None ELSE confirming
  /\ shown' = IF here /\ r.secret # 0 THEN r.secret ELSE shown
  /\ fate' = [s \in Secrets |->
       IF r.secret = 0 THEN fate[s]
       ELSE IF s = r.secret THEN (IF here THEN "shown" ELSE "left")
       ELSE IF here /\ replaced(s) THEN "replaced" ELSE fate[s]]
  /\ UNCHANGED <<Server, role, page, sent, abandoned>>

\* "I've saved it", the only way to close the dialog.
SavedIt ==
  /\ SecretDialog /\ shown' = 0
  /\ fate' = [fate EXCEPT ![shown] = "saved"]
  /\ UNCHANGED <<Server, role, page, editing, confirming, requests, sent, abandoned>>

Next ==
  \/ \E p \in {"webhooks", "keys", "elsewhere"} : Visit(p)
  \/ Demote
  \/ \E what \in {"new"} \cup Listed : OpenForm(what)
  \/ CloseForm \/ SubmitForm
  \/ \E kind \in {"rotate", "delete"}, e \in Listed : OpenConfirm(kind, e)
  \/ CloseConfirm \/ Confirm
  \/ \E op \in {"test", "switch"}, e \in Listed : EndpointCard(op, e)
  \/ Deliveries
  \/ OpenCreateKey \/ SubmitKey
  \/ \E k \in apiKeys \ revokedKeys : OpenRevoke(k)
  \/ \E r \in requests : Serve(r) \/ Refuse(r) \/ Cut(r) \/ Answer(r)
  \/ \E r \in abandoned : ServeAbandoned(r)
  \/ SavedIt

------------------------------------------------------------------------------
(* Properties.                                                             *)

\* The secret of a key leaves the screen when its user has saved it or leaves the
\* page, never because something else takes its place: one creation at a time.
KeySecretsStay == \A k \in apiKeys : fate[k] # "replaced"

\* The signing secret a rotation shows is the one Hera signs with, unless another
\* rotation is under way that the user can see, or one whose page or connection is gone.
\* (A creation answered after a rotation of the new endpoint can show a dead one.)
Rotated(s) == \E older \in 1..(s - 1) : ownerOf[older] = ownerOf[s]
ShownSecretWorks ==
  (SecretDialog /\ ownerOf[shown] # None /\ Rotated(shown) /\ ~stray) =>
     \/ secretOf[ownerOf[shown]] \in {shown, -1}
     \/ \E r \in requests : r.op = "rotate" /\ r.target = ownerOf[shown] /\ r.answer # "error"

Spec == Init /\ [][Next]_vars

------------------------------------------------------------------------------
(* Why these hold: the strengthening, of which each step keeps every part. *)

\* What a request's handler can be told belongs to the page it was sent from.
OpsOf == [webhooks |-> {"create", "edit", "rotate", "delete", "test", "switch", "redeliver"},
          keys |-> {"createKey", "revoke"}, elsewhere |-> {}]

\* A secret has one owner, and an endpoint that never existed owns none.
OwnersKnown ==
  /\ minted \in Secrets /\ apiKeys \in SUBSET (1..minted) /\ shown \in 0..minted
  /\ secretOf \in [Endpoints -> -1..minted] /\ ownerOf \in [Secrets -> Endpoints \cup {None}]
  /\ DOMAIN fate = Secrets
  /\ \A e \in Endpoints : /\ secretOf[e] > 0 => ownerOf[secretOf[e]] = e
                          /\ secretOf[e] = 0 => \A s \in Secrets : ownerOf[s] # e
  /\ \A s \in Secrets : s > minted \/ s \in apiKeys => ownerOf[s] = None

\* An answered creation brings the first secret of its endpoint, a rotation one of its target's.
RequestSound(r) ==
  /\ DOMAIN r = {"id", "op", "target", "here", "ofForm", "answer", "secret"}
  /\ r.op \in {"rotate", "delete"} => r.target \in Endpoints
  /\ r.here => r.op \in OpsOf[page]
  /\ r.secret \in 0..minted /\ (r.answer = "ok" /\ r.op \in Mints => r.secret # 0)
  /\ r.secret # 0 => /\ r.answer = "ok" /\ r.op \in Mints
                     /\ r.op = "create" => ~Rotated(r.secret)
                     /\ r.op = "rotate" => ownerOf[r.secret] = r.target
                     /\ r.op = "createKey" <=> r.secret \in apiKeys

\* One of a kind at a time, and no key's secret is on screen while another is created.
Alone(ops) == \A q, r \in requests : (q.op \in ops /\ q.here /\ r.op \in ops /\ r.here) => q = r
Calm ==
  /\ Alone({"createKey"}) /\ Alone({"rotate", "delete"})
  /\ confirming # None => confirming.kind \in OpsOf[page] \cap {"rotate", "delete", "revoke"}
  /\ confirming # None => (confirming.kind # "revoke" => confirming.target \in Endpoints)
  /\ shown \in apiKeys => page = "keys"
  /\ (page = "keys" /\ shown # 0) => (editing = None /\ ~Busy({"createKey"}))

\* What a rotation brings is in force, unless nobody waits for a later one.
RotationsWork ==
  /\ \A r \in requests : (r.op = "rotate" /\ r.here /\ r.answer = "ok" /\ ~stray) => secretOf[r.target] = r.secret
  /\ (shown # 0 /\ ownerOf[shown] # None /\ Rotated(shown) /\ ~stray) =>
       \/ secretOf[ownerOf[shown]] \in {shown, -1}
       \/ \E r \in requests : r.op = "rotate" /\ r.target = ownerOf[shown] /\ r.here /\ r.answer = "ok"

SecretsInv ==
  /\ page \in {"webhooks", "keys", "elsewhere"} /\ OwnersKnown /\ Calm /\ KeySecretsStay /\ RotationsWork
  /\ \A r \in requests : RequestSound(r)
  /\ \A r \in abandoned : r.op \in {"rotate", "delete"} => r.target \in Endpoints

==============================================================================
