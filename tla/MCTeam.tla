--------------------------------- MODULE MCTeam ---------------------------------
(* The team on small sets: members and their sessions, then, apart from     *)
(* them, accounts and invites.  part says which of the two is explored.     *)
EXTENDS Members, TLC

CONSTANTS Emails, Invites, Links

VARIABLES part, invite, link, account, member, announced, visit

accountVars == <<invite, link, account, member, announced, visit>>

Accounts == INSTANCE Accounts WITH None <- Nobody, Visits <- Requests

(* "No row" is no row.                                                       *)
ASSUME NoneIsNothing ==
  Nobody \notin Accounts!Rows \cup [email : Emails, used : BOOLEAN, expired : BOOLEAN]

TeamInit == part \in {"members", "accounts"} /\ Init /\ Accounts!Init
TeamNext ==
  /\ UNCHANGED part
  /\ \/ part = "members" /\ Next /\ UNCHANGED accountVars
     \/ part = "accounts" /\ Accounts!Next /\ UNCHANGED vars
TeamSpec == TeamInit /\ [][TeamNext]_<<vars, accountVars, part>>

Symmetry ==
  UNION {Permutations(S) : S \in {Users, Sessions, Requests}}

(* Owners decide on owners; an invite that is settled stays so, joining     *)
(* verifies an address, once, and a second open invite was a revived one.   *)
DecisionsHold ==
  /\ OwnersDecideOnOwners /\ Accounts!SettledInvitesStay
  /\ [](Accounts!JoiningVerifies /\ Accounts!VerifiedOnce /\ Accounts!SecondInviteWasRevived)
=============================================================================
