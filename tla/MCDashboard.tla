------------------------------ MODULE MCDashboard ------------------------------
(* The pages of the dashboard in one browser tab, each with the part of the  *)
(* API it talks to, on small sets.  part says which of them is explored, and *)
(* no step changes it; so the parts can take turns with one set of           *)
(* variables, of which each gives its own the first.                         *)
EXTENDS MCOrgPages

CONSTANTS Subjects, Malformed, MaxSteps,       \* ScreenPage; VerifyPage
          MaxChecks,                           \* VerifyPage
          a1, a2, a3, MaxNotes, MaxTurns,      \* AlertQueue
          MaxReports, ListLimit,               \* ReportsPage
          MaxFlows,                            \* WalletScreening
          MaxRuns                              \* several of them

ASSUME BoundsAreNumbers == MaxNotes \in Nat /\ ListLimit \in Nat

VARIABLE part

(* The variables a part leaves alone, and their values in it.                *)
Rest20 == <<part>>
Rest19 == <<x20, Rest20>>
Rest18 == <<x19, Rest19>>
Rest17 == <<x18, Rest18>>
Rest16 == <<x17, Rest17>>
Rest15 == <<x16, Rest16>>
Rest14 == <<x15, Rest15>>
Rest13 == <<x14, Rest14>>
Rest11 == <<x12, x13, Rest13>>
Rest8 == <<x9, x10, x11, Rest11>>
Blank19 == x20 = None
Blank18 == x19 = None /\ Blank19
Blank17 == x18 = None /\ Blank18
Blank16 == x17 = None /\ Blank17
Blank15 == x16 = None /\ Blank16
Blank14 == x15 = None /\ Blank15
Blank13 == x14 = None /\ Blank14
Blank11 == x12 = None /\ x13 = None /\ Blank13
Blank8 == x9 = None /\ x10 = None /\ x11 = None /\ Blank11

Screen == INSTANCE ScreenPage
  WITH MaxMoves <- MaxSteps, screened <- x1, mounted <- x2, route <- x3, draft <- x4, ran <- x5,
       filled <- x6, lastRequest <- x7, screen <- x8, runs <- x9, cached <- x10, pastFailed <- x11,
       started <- x12, moves <- x13, edited <- x14, missed <- x15, wandered <- x16
Queue == INSTANCE AlertQueue
  WITH Alerts <- <<a1, a2, a3>>, raised <- x1, status <- x2, notes <- x3, list <- x4, fetch <- x5, failed <- x18,
       here <- x6, tab <- x7, id <- x8, form <- x9, busy <- x10, sends <- x11, written <- x12, sent <- x13,
       turns <- x14, about <- x15, chosen <- x16, colleague <- x17
Reports == INSTANCE ReportsPage
  WITH MaxSends <- MaxReports, reports <- x1, history <- x2, fetch <- x3, failed <- x4, copy <- x5,
       open <- x6, watched <- x7, seen <- x8, seenFetch <- x9, waiting <- x10, sends <- x11, sent <- x12,
       others <- x13, behind <- x14
Wallet == INSTANCE WalletScreening
  WITH screened <- x1, listed <- x2, history <- x3, fetch <- x4, stale <- x5, loaded <- x6, open <- x7,
       screen <- x8, runs <- x9, flows <- x10, creating <- x11, started <- x12, exported <- x13,
       others <- x14, mine <- x15, excused <- x16
Watch == INSTANCE WatchPages
  WITH watched <- x1, rows <- x2, list <- x3, fetch <- x4, stale <- x5, at <- x6, dialog <- x7,
       pending <- x8, sends <- x9, sent <- x10, others <- x11, known <- x12, behind <- x13
Verify == INSTANCE VerifyPage
  WITH Files <- Subjects, TooBig <- Malformed, record <- x1, reading <- x2, hashing <- x3, fileName <- x4,
       fileError <- x5, hashError <- x6, hashInput <- x7, verify <- x8, requests <- x9, checks <- x10,
       asked <- x11

(* Orgs, names and the other members are interchangeable, and so are viewers *)
(* and analysts on the team page: one session, one first name, the lowest    *)
(* role with the first member, and analysts beside viewers, stand for all.   *)
First(set) == CHOOSE e \in set : TRUE
Ranks == [viewer |-> 1, analyst |-> 2, admin |-> 3, owner |-> 4]
LowestFirst(role) ==
  /\ \A u \in Members \ {Self} : Ranks[role[First(Members \ {Self})]] <= Ranks[role[u]]
  /\ (\E u \in Members : role[u] = "analyst") => \E u \in Members : role[u] = "viewer"

DashboardInit ==
  \/ part = "secrets" /\ Secrets!Init /\ Blank15
  \/ part = "auth" /\ Auth!Init /\ Blank15
  \/ part = "cache" /\ Cache!Init /\ x1 = First(Orgs) /\ Blank14
  \/ part = "screen" /\ Screen!Init /\ Blank16
  \/ part = "alerts" /\ Queue!Init /\ Blank18
  \/ part = "wizard" /\ Wizard!Init /\ Blank8
  \/ part = "transfer" /\ Transfer!Init /\ Blank11
  \/ part = "team" /\ Team!Init /\ LowestFirst(x1) /\ Blank11
  \/ part = "settings" /\ Settings!Init /\ x1 = First(Names)
  \/ part = "reports" /\ Reports!Init /\ Blank14
  \/ part = "wallet" /\ Wallet!Init /\ Blank16
  \/ part = "watch" /\ Watch!Init /\ Blank13
  \/ part = "verify" /\ Verify!Init /\ Blank11

DashboardNext ==
  \/ part = "secrets" /\ Secrets!Next /\ UNCHANGED Rest15
  \/ part = "auth" /\ Auth!Next /\ UNCHANGED Rest15
  \/ part = "cache" /\ Cache!Next /\ UNCHANGED Rest14
  \/ part = "screen" /\ Screen!Next /\ UNCHANGED Rest16
  \/ part = "alerts" /\ Queue!Next /\ UNCHANGED Rest18
  \/ part = "wizard" /\ Wizard!Next /\ UNCHANGED Rest8
  \/ part = "transfer" /\ Transfer!Next /\ UNCHANGED Rest11
  \/ part = "team" /\ Team!Next /\ UNCHANGED Rest11
  \/ part = "settings" /\ Settings!Next /\ UNCHANGED Rest20
  \/ part = "reports" /\ Reports!Next /\ UNCHANGED Rest14
  \/ part = "wallet" /\ Wallet!Next /\ UNCHANGED Rest16
  \/ part = "watch" /\ Watch!Next /\ UNCHANGED Rest13
  \/ part = "verify" /\ Verify!Next /\ UNCHANGED Rest11
DashboardSpec == DashboardInit /\ [][DashboardNext]_<<part, x1, x2, x3, x4, x5, x6, x7, x8, x9, x10, x11, x12, x13, x14, x15, x16, x17, x18, x19, x20>>

(* What the modules say of their parts.                                      *)

\* A key's secret leaves the screen only by its user's doing, and the signing secret shown is
\* the one Hera signs with, but for overlaps the user can see and lost answers (SecretPages).
SecretsAreShown == part = "secrets" => Secrets!KeySecretsStay /\ Secrets!ShownSecretWorks

\* The guard leaves nobody on its skeleton but a browser that kept its cookie, and with a live
\* session only after a logout that failed or an answer that came late (AuthPages).
SignInHolds == part = "auth" => Auth!StuckOnlyWithCookie /\ Auth!NotThrownOut

\* The cache shows the rows of one org at a time, and in them the user's acknowledged writes,
\* but for what nothing asks for again (QueryCache).
CacheIsHonest == part = "cache" => Cache!OneOrgOnScreen /\ Cache!OwnWritesShow

\* The screening page shows the answer to what was asked last, in its form too (ScreenPage); a
\* verdict on a report is that of the hash and the file named beside it, and of what was asked
\* last but for files that overtake each other (VerifyPage).
ScreenShowsWhatWasAsked ==
  /\ part = "screen" => Screen!LatestRunShown /\ Screen!FormFitsResult
  /\ part = "verify" => Verify!VerdictIsOfWhatIsNamed /\ Verify!ShowsTheLastAsked

\* Notes and decisions go to the alert they were made on (AlertQueue).
DecisionsGoWhereMade == part = "alerts" => Queue!NotesGoWhereWritten /\ Queue!DecidedAsChosen

\* A form makes one transfer, complete and with its own amount (TravelRuleWizard); its page
\* catches up with what happened to it (TransferPage).
TransfersAreKept ==
  /\ part = "wizard" => Wizard!ReviewIsComplete /\ Wizard!OneTransferPerForm /\ Wizard!UsdFollowsAmount
  /\ part = "transfer" => Transfer!CopyCatchesUp /\ Transfer!TrackTellsHistory /\ Transfer!SettlementHashShown

\* The team page and the API agree on who may do what (TeamPage).
TeamPageAgrees == part = "team" => Team!OfferedIsAllowed /\ Team!AllowedIsOffered /\ Team!OwnChangesShow

\* Once nothing is under way, switch and forms tell what is stored (SettingsPage), the reports what
\* became of them (ReportsPage), the wallets what is watched (WatchPages), and reasons and evidence
\* are of the newest screening this tab knows (WalletScreening).
PagesCatchUp ==
  /\ part = "settings" => Settings!SwitchTells /\ Settings!FormsTell
  /\ part = "reports" => Reports!PollsToTheEnd
  /\ part = "wallet" => Wallet!ShowsNothingOlder /\ Wallet!EvidenceIsCurrent
  /\ part = "watch" => Watch!ListTells

================================================================================
