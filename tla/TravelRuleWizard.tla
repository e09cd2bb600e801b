---- MODULE TravelRuleWizard ----
(***************************************************************************)
(* The form for a new Travel Rule transfer (apps/web/components/           *)
(* travel-rule/wizard.tsx, form.ts): four steps on one form, of which only *)
(* the shown one can be edited, a chain that follows the accounts and a    *)
(* USD value that follows the amount until the user sets them, and the     *)
(* request that saves the draft.  The user can go back and edit while it   *)
(* is under way.  A person is nameless, named, or also identified.         *)
(***************************************************************************)
EXTENDS Integers, FiniteSetsExt

CONSTANTS MaxSubmits   \* bound: how often the form is sent

VARIABLES page,        \* "form", "leaving" (the router has been told), "transfer", or "away"
          step,        \* STEPS: 0 parties, 1 accounts, 2 amount, 3 review
          values,      \* what the form holds
          request,     \* create: "none", "sent", or its answer
          submits, drafts,   \* sent by the form; saved by the API
          jumped, again      \* history variables: an answer moved the user forward; the form was sent
                             \* again after an answer was lost or while the page was being left

vars == <<page, step, values, request, submits, drafts, jumped, again>>

LAST == 3
Chains == {"stellar", "evm"}
Mounted == page \in {"form", "leaving"}

\* The chain is given by the address in the link that led here, or is Stellar.
defaultValues(first) ==
  [first |-> first, chain |-> first, parties |-> "nameless", accounts |-> "unfinished",
   picked |-> FALSE,
   asset |-> "stable", amount |-> "none", usd |-> "none", touched |-> FALSE]

Init ==
  /\ page = "form" /\ step = 0 /\ values \in {defaultValues(c) : c \in Chains} /\ request = "none"
  /\ submits = 0 /\ drafts = 0 /\ jumped = FALSE /\ again = 0

------------------------------------------------------------------------------
(* What is wrong with the form, and on which step.                         *)

\* The accounts are checked before the chain: one on another chain is an error of step 2.
travelRuleResolver(v) ==
  {s \in 0..2 :
     \/ s = 0 /\ v.parties = "nameless"
     \/ s = 1 /\ v.accounts = "unfinished"
     \/ s = 2 /\ ((v.accounts \in Chains /\ v.accounts # v.chain) \/ v.amount = "none" \/ v.usd = "none")}

\* The same functions as the API's: above the threshold the originator needs an identifier.
liveCheck(v) == [required |-> v.usd = "large", hasIdentifier |-> v.parties = "identified"]

------------------------------------------------------------------------------
(* Editing, on the step that shows the field.                              *)

Edit(s, v) ==
  /\ Mounted /\ step = s /\ values' = v
  /\ UNCHANGED <<page, step, request, submits, drafts, jumped, again>>

EditParties(p) == Edit(0, [values EXCEPT !.parties = p])

\* The chain follows the accounts, of which an unfinished one may tell it already, until
\* the user picks another than the first.
EditAccounts(a) ==
  \E c \in IF values.picked THEN {values.chain} ELSE IF a \in Chains THEN {a} ELSE Chains :
    Edit(1, [values EXCEPT !.accounts = a, !.chain = c])
PickChain(c) == Edit(2, [values EXCEPT !.chain = c, !.picked = (c # values.first)])

\* For a USD stablecoin the value follows the amount until the user types one.
Follow(v) == IF v.asset = "stable" /\ ~v.touched THEN [v EXCEPT !.usd = v.amount] ELSE v
EditAmount(a) == Edit(2, Follow([values EXCEPT !.amount = a]))
EditAsset(a) == Edit(2, Follow([values EXCEPT !.asset = a]))
EditUsd(u) == Edit(2, [values EXCEPT !.usd = u, !.touched = TRUE])

------------------------------------------------------------------------------
(* Moving between the steps, which a request under way does not prevent.   *)

\* Forward only over steps without an error, which is where it stops.
OnlyThisStep(target) ==
  /\ Mounted /\ target \in 0..LAST /\ target # step
  /\ step' = IF target > step /\ step \in travelRuleResolver(values) THEN step ELSE target
  /\ UNCHANGED <<page, values, request, submits, drafts, jumped, again>>
goTo(target) ==
  /\ Mounted /\ target \in 0..LAST /\ target # step
  /\ LET bad == {s \in step..target - 1 : s \in travelRuleResolver(values)} IN
       step' = IF bad = {} THEN target ELSE Min(bad)
  /\ UNCHANGED <<page, values, request, submits, drafts, jumped, again>>

\* "Cancel" asks first; the search and the browser's own "back" do not.
Leave ==
  /\ Mounted /\ page' = "away"
  /\ UNCHANGED <<step, values, request, submits, drafts, jumped, again>>

Pushed ==
  /\ page = "leaving" /\ page' = "transfer"
  /\ UNCHANGED <<step, values, request, submits, drafts, jumped, again>>

------------------------------------------------------------------------------
(* Saving the draft.                                                       *)

Pending == request \in {"sent", "saved", "refused"}

\* onInvalid and onValid: back to what is wrong, or off it goes.
Submit ==
  /\ Mounted /\ step = LAST /\ ~Pending
  /\ LET check == liveCheck(values) IN
     IF travelRuleResolver(values) # {}
       THEN step' = Min(travelRuleResolver(values)) /\ UNCHANGED <<request, submits, again>>
     ELSE IF check.required /\ ~check.hasIdentifier
       THEN step' = 0 /\ UNCHANGED <<request, submits, again>>
     ELSE /\ submits < MaxSubmits /\ submits' = submits + 1 /\ request' = "sent"
          /\ again' = again + (IF request = "lost" \/ page = "leaving" THEN 1 ELSE 0)
          /\ UNCHANGED step
  /\ UNCHANGED <<page, values, drafts, jumped>>

\* The API, which may be another version than the form's schema, saves or refuses it.
Serve ==
  /\ request = "sent"
  /\ \/ request' = "saved" /\ drafts' = drafts + 1
     \/ request' = "refused" /\ UNCHANGED drafts
  /\ UNCHANGED <<page, step, values, submits, jumped, again>>

\* No answer: the draft may be saved.
Cut ==
  /\ request \in {"sent", "saved"} /\ request' = "lost"
  /\ UNCHANGED <<page, step, values, submits, drafts, jumped, again>>

\* The handler pushes to the transfer wherever the user is.
Created ==
  /\ request = "saved" /\ request' = "none" /\ page' = IF Mounted THEN "leaving" ELSE "transfer"
  /\ UNCHANGED <<step, values, submits, drafts, jumped, again>>

\* Field errors lead to the first step that has one, other errors stay.
Refused ==
  /\ request = "refused" /\ request' = "none"
  /\ \E first \in 0..LAST :
       /\ step' = IF Mounted THEN first ELSE step
       /\ jumped' = (jumped \/ first > step)
  /\ UNCHANGED <<page, values, submits, drafts, again>>

Next ==
  \/ \E p \in {"nameless", "named", "identified"} : EditParties(p)
  \/ \E a \in {"unfinished"} \cup Chains : EditAccounts(a)
  \/ \E c \in Chains : PickChain(c)
  \/ \E a \in {"none", "small", "large"} : EditAmount(a) \/ EditUsd(a)
  \/ \E a \in {"stable", "other"} : EditAsset(a)
  \/ \E s \in 0..LAST : goTo(s)
  \/ Submit \/ Serve \/ Cut \/ Created \/ Refused \/ Leave \/ Pushed
Spec == Init /\ [][Next]_vars

------------------------------------------------------------------------------
(* Properties.                                                             *)

\* What is up for review has no errors, however the user went back and forth and edited,
\* unless an answer that named a later step moved the user over steps not checked again.
ReviewIsComplete == (Mounted /\ step = LAST) => (jumped \/ travelRuleResolver(values) = {})

\* One form saves one draft, unless it was sent again without an answer, or in the moment
\* between the answer and the transfer's page.  Each submit has a key of its own, so the
\* API cannot tell.
OneTransferPerForm == drafts <= 1 + again

\* While the asset is a stablecoin, the user has either typed the USD value, or it is the amount.
UsdFollowsAmount == (values.asset = "stable" /\ ~values.touched) => values.usd = values.amount

------------------------------------------------------------------------------
(* Why these hold: the strengthening, of which each step keeps every part. *)

Values ==
  [first : Chains, chain : Chains, parties : {"nameless", "named", "identified"},
   accounts : {"unfinished"} \cup Chains, picked : BOOLEAN, asset : {"stable", "other"},
   amount : {"none", "small", "large"}, usd : {"none", "small", "large"}, touched : BOOLEAN]

\* The steps before the shown one have no errors: a step's fields are edited on it alone.
EarlierAreComplete == jumped \/ \A s \in 0..step - 1 : s \notin travelRuleResolver(values)

\* A form that may still be sent without being counted has saved nothing that is not.
DraftsAreCounted ==
  /\ drafts \in Nat /\ again \in Nat /\ drafts <= 1 + again
  /\ request \in {"none", "sent", "saved", "refused", "lost"}
  /\ request \in {"sent", "refused"} \/ (request = "none" /\ page = "form") => drafts <= again

WizardInv ==
  /\ step \in 0..LAST /\ values \in Values /\ jumped \in BOOLEAN
  /\ EarlierAreComplete /\ DraftsAreCounted /\ UsdFollowsAmount

==============================================================================
