-------------------------------- MODULE Accounts --------------------------------
(***************************************************************************)
(* How people come to be members of one org: signing up, verifying an      *)
(* address and accepting an invite (AuthService of apps/api/src/auth and    *)
(* InvitesService of src/team).  What members then do is Members.          *)
(*                                                                         *)
(* Simplifications.                                                        *)
(*   - An invite or a verification link is its row; a token that no longer  *)
(*     finds a row ("That invite" 404) does nothing.                        *)
(*   - Creating, revoking and resending an invite end with an audit event,  *)
(*     which locks the org row: each is one step.  Accepting one is two:    *)
(*     it reads, hashes the password, and only then opens a transaction;    *)
(*     so is following a verification link.                                 *)
(*   - Expiry happens at any time.                                          *)
(***************************************************************************)
EXTENDS Naturals

CONSTANTS
  Emails, Invites, Links,
  Visits,     (* requests that read first and write later                   *)
  None

VARIABLES
  invite,     (* rows of invites: email, state, expired; and whether an     *)
              (* expired one was ever sent again                            *)
  link,       (* rows of email_verifications                                *)
  account,    (* account[e]: "none", "unverified" or "verified"             *)
  member,     (* the addresses whose account is a member of the org         *)
  announced,  (* announced[e]: user.email_verified events                   *)
  visit       (* what each visit has read                                   *)

vars == <<invite, link, account, member, announced, visit>>

IsOpen(i) == invite[i] # None /\ invite[i].state = "open" /\ ~invite[i].expired
Usable(l) == link[l] # None /\ ~link[l].used /\ ~link[l].expired
Free(t) == visit[t] = None

Init ==
  /\ invite = [i \in Invites |-> None]
  /\ link = [l \in Links |-> None]
  /\ account = [e \in Emails |-> "none"]
  /\ member = {}
  /\ announced = [e \in Emails |-> 0]
  /\ visit = [t \in Visits |-> None]

-----------------------------------------------------------------------------
(* InvitesService.create, under the lock of the org row.                    *)
NotPending(e) == ~\E i \in Invites : IsOpen(i) /\ invite[i].email = e

Create(i, e) ==
  /\ invite[i] = None
  /\ e \notin member
  /\ NotPending(e)
  /\ invite' = [invite EXCEPT ![i] = [email |-> e, state |-> "open", expired |-> FALSE, revived |-> FALSE]]
  /\ UNCHANGED <<link, account, member, announced, visit>>

Revoke(i) ==
  /\ invite[i] # None /\ invite[i].state = "open"
  /\ invite' = [invite EXCEPT ![i].state = "revoked"]
  /\ UNCHANGED <<link, account, member, announced, visit>>

Resend(i) ==
  /\ invite[i] # None /\ invite[i].state = "open"
  /\ invite' = [invite EXCEPT ![i].expired = FALSE, ![i].revived = @ \/ invite[i].expired]
  /\ UNCHANGED <<link, account, member, announced, visit>>

(* accept: the invite and the account of its address are read ...           *)
OpenInvite(t, i) ==
  /\ Free(t)
  /\ IsOpen(i)
  /\ visit' = [visit EXCEPT ![t] = [to |-> i, known |-> account[invite[i].email] # "none"]]
  /\ UNCHANGED <<invite, link, account, member, announced>>

(* ... and, once the password is checked or hashed, the invite is locked    *)
(* and looked at again.  A second account for the address, or a second      *)
(* membership, fails on its unique index.                                   *)
NotLookedAtAgain(i) == TRUE   (* mutant: the row read before is trusted *)
OpenWhenLocked(i) == IsOpen(i)
Proved(e) == "verified"

Accept(t) ==
  LET i == visit[t].to  e == invite[i].email IN
  /\ ~Free(t) /\ visit[t].to \in Invites
  /\ IF OpenWhenLocked(i) /\ (visit[t].known \/ account[e] = "none") /\ e \notin member
       THEN /\ invite' = [invite EXCEPT ![i].state = "accepted"]
            /\ account' = [account EXCEPT ![e] = IF visit[t].known THEN Proved(e) ELSE "verified"]
            /\ member' = member \cup {e}
       ELSE UNCHANGED <<invite, account, member>>
  /\ visit' = [visit EXCEPT ![t] = None]
  /\ UNCHANGED <<link, announced>>

(* MembersService.remove.                                                   *)
Leave(e) ==
  /\ member' = member \ {e} /\ e \in member
  /\ UNCHANGED <<invite, link, account, announced, visit>>

-----------------------------------------------------------------------------
Issue(l, e) ==
  /\ link[l] = None
  /\ link' = [link EXCEPT ![l] = [email |-> e, used |-> FALSE, expired |-> FALSE]]

(* signup: an account, an org of its own and a first link.                  *)
Signup(e, l) ==
  /\ account[e] = "none"
  /\ account' = [account EXCEPT ![e] = "unverified"]
  /\ Issue(l, e)
  /\ UNCHANGED <<invite, member, announced, visit>>

(* resendVerification: the account is read, then the link is inserted.      *)
AskVerification(t, e) ==
  /\ Free(t)
  /\ account[e] = "unverified"
  /\ visit' = [visit EXCEPT ![t] = [to |-> e]]
  /\ UNCHANGED <<invite, link, account, member, announced>>

SendVerification(t, l) ==
  /\ ~Free(t) /\ visit[t].to \in Emails
  /\ Issue(l, visit[t].to)
  /\ visit' = [visit EXCEPT ![t] = None]
  /\ UNCHANGED <<invite, account, member, announced>>

(* verifyEmail: the link is read; a transaction locks the account, uses up  *)
(* all its links and announces an address that was not verified before.     *)
OpenLink(t, l) ==
  /\ Free(t)
  /\ Usable(l)
  /\ visit' = [visit EXCEPT ![t] = [to |-> l]]
  /\ UNCHANGED <<invite, link, account, member, announced>>

EveryLink(e) == TRUE   (* mutant: the account is not looked at when locked *)
NewlyVerified(e) == account[e] = "unverified"

Verify(t) ==
  LET e == link[visit[t].to].email IN
  /\ ~Free(t) /\ visit[t].to \in Links
  /\ link' = [l \in Links |-> IF link[l] # None /\ link[l].email = e
                                THEN [link[l] EXCEPT !.used = TRUE] ELSE link[l]]
  /\ account' = [account EXCEPT ![e] = "verified"]
  /\ announced' = [announced EXCEPT ![e] = IF NewlyVerified(e) THEN @ + 1 ELSE @]
  /\ visit' = [visit EXCEPT ![t] = None]
  /\ UNCHANGED <<invite, member>>

(* Time passes; a request fails or its client leaves.                       *)
Expire ==
  /\ \/ /\ \E i \in Invites : invite[i] # None /\ invite' = [invite EXCEPT ![i].expired = TRUE]
        /\ UNCHANGED link
     \/ /\ \E l \in Links : link[l] # None /\ link' = [link EXCEPT ![l].expired = TRUE]
        /\ UNCHANGED invite
  /\ UNCHANGED <<account, member, announced, visit>>

GiveUp(t) ==
  /\ ~Free(t)
  /\ visit' = [visit EXCEPT ![t] = None]
  /\ UNCHANGED <<invite, link, account, member, announced>>

Next ==
  \/ \E i \in Invites : Revoke(i) \/ Resend(i) \/ \E e \in Emails : Create(i, e)
  \/ \E e \in Emails : Leave(e) \/ \E l \in Links : Signup(e, l)
  \/ Expire
  \/ \E t \in Visits :
       \/ Accept(t) \/ Verify(t) \/ GiveUp(t)
       \/ \E i \in Invites : OpenInvite(t, i)
       \/ \E e \in Emails : AskVerification(t, e)
       \/ \E l \in Links : SendVerification(t, l) \/ OpenLink(t, l)

Spec == Init /\ [][Next]_vars

-----------------------------------------------------------------------------
Rows == [email : Emails, state : {"open", "revoked", "accepted"}, expired : BOOLEAN, revived : BOOLEAN]

TypeOK ==
  /\ invite \in [Invites -> Rows \cup {None}]
  /\ link \in [Links -> [email : Emails, used : BOOLEAN, expired : BOOLEAN] \cup {None}]
  /\ account \in [Emails -> {"none", "unverified", "verified"}]
  /\ member \subseteq Emails
  /\ announced \in [Emails -> Nat]
  /\ DOMAIN visit = Visits

(* An invite that was accepted or revoked stays so: an accept that read it  *)
(* open cannot take it back from a revoke, nor a second person use it.      *)
SettledInvitesStay ==
  [][\A i \in Invites : invite[i] # None /\ invite[i].state # "open" => invite'[i] = [invite[i] EXCEPT !.expired = invite'[i].expired]]_vars

(* "The token arrived in their inbox, which proves the address": whoever    *)
(* has joined by an invite, known before or not, has a verified account.    *)
JoiningVerifies ==
  \A i \in Invites : invite[i] # None /\ invite[i].state = "accepted" => account[invite[i].email] = "verified"

(* user.email_verified is recorded once for an account, however many links  *)
(* are followed at the same time.                                           *)
VerifiedOnce == \A e \in Emails : announced[e] <= (IF account[e] = "verified" THEN 1 ELSE 0)

(* Two invites are open for one address only if one of them had expired and *)
(* was sent again.                                                          *)
SecondInviteWasRevived ==
  \A i, j \in Invites : i # j /\ IsOpen(i) /\ IsOpen(j) /\ invite[i].email = invite[j].email =>
    invite[i].revived \/ invite[j].revived

(* All of it; each part is kept by every step given the others.             *)
AccountsInv == TypeOK /\ JoiningVerifies /\ VerifiedOnce /\ SecondInviteWasRevived

=============================================================================
