------------------------------ MODULE MCOrgPages ------------------------------
(* The pages of the dashboard about the org itself, on small sets: who is    *)
(* signed in and what this tab has in its cache of the org's rows, its       *)
(* members, settings, secrets and transfers.  They take turns with one set   *)
(* of variables, of which each gives its own the first (MCDashboard).        *)
EXTENDS Integers, Sequences, FiniteSets

CONSTANTS Endpoints, MaxMinted, MaxRequests,      \* SecretPages
          AuthOrgs, MaxForms,                     \* AuthPages
          Orgs, MaxWrites,                        \* QueryCache
          Members, Self, MaxActs, MaxColleague,   \* TeamPage
          Names,                                  \* SettingsPage
          Hashes, Lines, MaxChanges,              \* TransferPage
          MaxSubmits,                             \* TravelRuleWizard
          MaxSends, MaxOthers, None               \* several of them

ASSUME SomeSecrets == MaxMinted \in Nat \ {0} /\ Endpoints # {} /\ None \notin Endpoints \cup {"key"}
ASSUME AnswersAreNoOrgs == "null" \notin AuthOrgs \cup {None}
ASSUME NoneIsNoNumber == None \notin Nat
ASSUME TeamIsFinite == IsFiniteSet(Members) /\ Self \in Members

VARIABLES x1, x2, x3, x4, x5, x6, x7, x8, x9, x10,
          x11, x12, x13, x14, x15, x16, x17, x18, x19, x20

Secrets == INSTANCE SecretPages
  WITH secretOf <- x1, minted <- x2, apiKeys <- x3, revokedKeys <- x4, ownerOf <- x5, role <- x6,
       page <- x7, editing <- x8, confirming <- x9, shown <- x10, requests <- x11, sent <- x12,
       abandoned <- x13, fate <- x14, stray <- x15
Auth == INSTANCE AuthPages
  WITH Orgs <- AuthOrgs, MaxMoves <- MaxForms, session <- x1, cookie <- x2, verified <- x3, link <- x4,
       path <- x5, next <- x6, me <- x7, meError <- x8, stale <- x9, fetch <- x10, ran <- x11, view <- x12,
       ops <- x13, sent <- x14, excuse <- x15
(* A key at a time, with the others it is written together with.             *)
Followed ==
  {[keys |-> {"wallets"}, moves |-> 2], [keys |-> {}, moves |-> 3]} \cup
  {[keys |-> ks, moves |-> 1] : ks \in {{"overview"}, {"screenings"}, {"org"}, {"webhooks", "deliveries"}, {"reports"},
      {"travelRule"}, {"alerts"}, {"apiKeys"}, {"invites"}, {"audit"}}}
Cache == INSTANCE QueryCache
  WITH Scopes <- Followed, session <- x1, done <- x2, scope <- x3, page <- x4, cache <- x5, stale <- x6,
       erred <- x7, fetch <- x8, kept <- x14, mutations <- x9, acked <- x10, sent <- x11, moves <- x12,
       moved <- x13
Team == INSTANCE TeamPage
  WITH role <- x1, me <- x2, list <- x3, meFetch <- x4, listFetch <- x5, dialog <- x6, acts <- x7,
       asked <- x8, others <- x9, left <- x10, behind <- x11
Settings == INSTANCE SettingsPage
  WITH userName <- x1, orgName <- x2, alertEmails <- x3, meName <- x4, org <- x5, meFetch <- x6,
       orgFetch <- x7, prefs <- x8, stored <- x9, old <- x10, open <- x11, profile <- x12, orgForm <- x13,
       sends <- x14, waits <- x15, sent <- x16, outdated <- x17, behind <- x18, crossed <- x19, erred <- x20
Wizard == INSTANCE TravelRuleWizard
  WITH page <- x1, step <- x2, values <- x3, request <- x4, submits <- x5, drafts <- x6, jumped <- x7,
       again <- x8
Transfer == INSTANCE TransferPage
  WITH status <- x1, events <- x2, txHash <- x3, copy <- x4, fetch <- x5, to <- x6, hash <- x7,
       sends <- x8, pending <- x9, sent <- x10, behind <- x11

ASSUME OrgsAreNoWrites == Orgs \cap Cache!Ops = {}
ASSUME NoneIsNoRequest == None \notin Cache!Fetches

================================================================================
