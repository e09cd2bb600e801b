-------------------------------- MODULE TeamProofs --------------------------------
(***************************************************************************)
(* Proofs about the team, for every number of users, addresses, sessions,   *)
(* invites, links and requests under way: Accounts, then Members.           *)
(***************************************************************************)
EXTENDS MCTeam, FiniteSetTheorems, TLAPS

-----------------------------------------------------------------------------
(* Accounts: signing up, verifying an address, invites.                     *)

USE DEF Accounts!Rows, Accounts!IsOpen

USE NoneIsNothing

LEMMA AccountsInitInv == Accounts!Init => Accounts!AccountsInv
BY DEF Accounts!Init, Accounts!AccountsInv, Accounts!TypeOK, Accounts!JoiningVerifies, Accounts!VerifiedOnce, Accounts!SecondInviteWasRevived

-----------------------------------------------------------------------------
(* One lemma for each step.                                                 *)

LEMMA CreateKeeps ==
  ASSUME Accounts!AccountsInv, NEW i \in Invites, NEW e \in Emails, Accounts!Create(i, e)
  PROVE  Accounts!AccountsInv'
<1>1. Accounts!TypeOK /\ Accounts!TypeOK'
  BY DEF Accounts!AccountsInv, Accounts!TypeOK, Accounts!Create, Accounts!NotPending
<1>2. Accounts!JoiningVerifies'
  BY <1>1 DEF Accounts!AccountsInv, Accounts!JoiningVerifies, Accounts!TypeOK, Accounts!Create, Accounts!NotPending
<1>3. Accounts!VerifiedOnce'
  BY <1>1 DEF Accounts!AccountsInv, Accounts!VerifiedOnce, Accounts!TypeOK, Accounts!Create, Accounts!NotPending
<1>4. Accounts!SecondInviteWasRevived'
  BY <1>1 DEF Accounts!AccountsInv, Accounts!SecondInviteWasRevived, Accounts!TypeOK, Accounts!Create, Accounts!NotPending
<1> QED
  BY <1>1, <1>2, <1>3, <1>4 DEF Accounts!AccountsInv

LEMMA AccountsRevokeKeeps ==
  ASSUME Accounts!AccountsInv, NEW i \in Invites, Accounts!Revoke(i)
  PROVE  Accounts!AccountsInv'
<1>1. Accounts!TypeOK /\ Accounts!TypeOK'
  BY DEF Accounts!AccountsInv, Accounts!TypeOK, Accounts!Revoke
<1>2. Accounts!JoiningVerifies'
  BY <1>1 DEF Accounts!AccountsInv, Accounts!JoiningVerifies, Accounts!TypeOK, Accounts!Revoke
<1>3. Accounts!VerifiedOnce'
  BY <1>1 DEF Accounts!AccountsInv, Accounts!VerifiedOnce, Accounts!TypeOK, Accounts!Revoke
<1>4. Accounts!SecondInviteWasRevived'
  BY <1>1 DEF Accounts!AccountsInv, Accounts!SecondInviteWasRevived, Accounts!TypeOK, Accounts!Revoke
<1> QED
  BY <1>1, <1>2, <1>3, <1>4 DEF Accounts!AccountsInv

LEMMA ResendKeeps ==
  ASSUME Accounts!AccountsInv, NEW i \in Invites, Accounts!Resend(i)
  PROVE  Accounts!AccountsInv'
<1>1. Accounts!TypeOK /\ Accounts!TypeOK'
  <2>1. Accounts!TypeOK
    BY DEF Accounts!AccountsInv
  <2>2. invite[i] \in Accounts!Rows
    BY <2>1 DEF Accounts!TypeOK, Accounts!Resend
  <2>3. (invite[i].revived \/ invite[i].expired) \in BOOLEAN
    BY <2>2
  <2>4. invite' \in [Invites -> Accounts!Rows \cup {Nobody}]
    BY <2>1, <2>2, <2>3 DEF Accounts!TypeOK, Accounts!Resend
  <2> QED
    BY <2>1, <2>4 DEF Accounts!TypeOK, Accounts!Resend
<1>2. Accounts!JoiningVerifies'
  BY <1>1 DEF Accounts!AccountsInv, Accounts!JoiningVerifies, Accounts!TypeOK, Accounts!Resend
<1>3. Accounts!VerifiedOnce'
  BY <1>1 DEF Accounts!AccountsInv, Accounts!VerifiedOnce, Accounts!TypeOK, Accounts!Resend
<1>4. Accounts!SecondInviteWasRevived'
  BY <1>1 DEF Accounts!AccountsInv, Accounts!SecondInviteWasRevived, Accounts!TypeOK, Accounts!Resend
<1> QED
  BY <1>1, <1>2, <1>3, <1>4 DEF Accounts!AccountsInv

LEMMA OpenInviteKeeps ==
  ASSUME Accounts!AccountsInv, NEW t \in Requests, NEW i \in Invites, Accounts!OpenInvite(t, i)
  PROVE  Accounts!AccountsInv'
<1>1. Accounts!TypeOK /\ Accounts!TypeOK'
  BY DEF Accounts!AccountsInv, Accounts!TypeOK, Accounts!OpenInvite
<1>2. Accounts!JoiningVerifies'
  BY <1>1 DEF Accounts!AccountsInv, Accounts!JoiningVerifies, Accounts!TypeOK, Accounts!OpenInvite
<1>3. Accounts!VerifiedOnce'
  BY <1>1 DEF Accounts!AccountsInv, Accounts!VerifiedOnce, Accounts!TypeOK, Accounts!OpenInvite
<1>4. Accounts!SecondInviteWasRevived'
  BY <1>1 DEF Accounts!AccountsInv, Accounts!SecondInviteWasRevived, Accounts!TypeOK, Accounts!OpenInvite
<1> QED
  BY <1>1, <1>2, <1>3, <1>4 DEF Accounts!AccountsInv

LEMMA AcceptKeeps ==
  ASSUME Accounts!AccountsInv, NEW t \in Requests, Accounts!Accept(t)
  PROVE  Accounts!AccountsInv'
<1>1. Accounts!TypeOK /\ Accounts!TypeOK'
  BY DEF Accounts!AccountsInv, Accounts!TypeOK, Accounts!Accept, Accounts!OpenWhenLocked, Accounts!Proved
<1>2. Accounts!JoiningVerifies'
  BY <1>1 DEF Accounts!AccountsInv, Accounts!JoiningVerifies, Accounts!TypeOK, Accounts!Accept, Accounts!OpenWhenLocked, Accounts!Proved
<1>3. Accounts!VerifiedOnce'
  BY <1>1 DEF Accounts!AccountsInv, Accounts!VerifiedOnce, Accounts!TypeOK, Accounts!Accept, Accounts!OpenWhenLocked, Accounts!Proved
<1>4. Accounts!SecondInviteWasRevived'
  BY <1>1 DEF Accounts!AccountsInv, Accounts!SecondInviteWasRevived, Accounts!TypeOK, Accounts!Accept, Accounts!OpenWhenLocked, Accounts!Proved
<1> QED
  BY <1>1, <1>2, <1>3, <1>4 DEF Accounts!AccountsInv

LEMMA LeaveKeeps ==
  ASSUME Accounts!AccountsInv, NEW e \in Emails, Accounts!Leave(e)
  PROVE  Accounts!AccountsInv'
<1>1. Accounts!TypeOK /\ Accounts!TypeOK'
  BY DEF Accounts!AccountsInv, Accounts!TypeOK, Accounts!Leave
<1>2. Accounts!JoiningVerifies'
  BY <1>1 DEF Accounts!AccountsInv, Accounts!JoiningVerifies, Accounts!TypeOK, Accounts!Leave
<1>3. Accounts!VerifiedOnce'
  BY <1>1 DEF Accounts!AccountsInv, Accounts!VerifiedOnce, Accounts!TypeOK, Accounts!Leave
<1>4. Accounts!SecondInviteWasRevived'
  BY <1>1 DEF Accounts!AccountsInv, Accounts!SecondInviteWasRevived, Accounts!TypeOK, Accounts!Leave
<1> QED
  BY <1>1, <1>2, <1>3, <1>4 DEF Accounts!AccountsInv

LEMMA SignupKeeps ==
  ASSUME Accounts!AccountsInv, NEW e \in Emails, NEW l \in Links, Accounts!Signup(e, l)
  PROVE  Accounts!AccountsInv'
<1>1. Accounts!TypeOK /\ Accounts!TypeOK'
  BY DEF Accounts!AccountsInv, Accounts!TypeOK, Accounts!Signup, Accounts!Issue
<1>2. Accounts!JoiningVerifies'
  BY <1>1 DEF Accounts!AccountsInv, Accounts!JoiningVerifies, Accounts!TypeOK, Accounts!Signup, Accounts!Issue
<1>3. Accounts!VerifiedOnce'
  BY <1>1 DEF Accounts!AccountsInv, Accounts!VerifiedOnce, Accounts!TypeOK, Accounts!Signup, Accounts!Issue
<1>4. Accounts!SecondInviteWasRevived'
  BY <1>1 DEF Accounts!AccountsInv, Accounts!SecondInviteWasRevived, Accounts!TypeOK, Accounts!Signup, Accounts!Issue
<1> QED
  BY <1>1, <1>2, <1>3, <1>4 DEF Accounts!AccountsInv

LEMMA AskVerificationKeeps ==
  ASSUME Accounts!AccountsInv, NEW t \in Requests, NEW e \in Emails, Accounts!AskVerification(t, e)
  PROVE  Accounts!AccountsInv'
<1>1. Accounts!TypeOK /\ Accounts!TypeOK'
  BY DEF Accounts!AccountsInv, Accounts!TypeOK, Accounts!AskVerification
<1>2. Accounts!JoiningVerifies'
  BY <1>1 DEF Accounts!AccountsInv, Accounts!JoiningVerifies, Accounts!TypeOK, Accounts!AskVerification
<1>3. Accounts!VerifiedOnce'
  BY <1>1 DEF Accounts!AccountsInv, Accounts!VerifiedOnce, Accounts!TypeOK, Accounts!AskVerification
<1>4. Accounts!SecondInviteWasRevived'
  BY <1>1 DEF Accounts!AccountsInv, Accounts!SecondInviteWasRevived, Accounts!TypeOK, Accounts!AskVerification
<1> QED
  BY <1>1, <1>2, <1>3, <1>4 DEF Accounts!AccountsInv

LEMMA SendVerificationKeeps ==
  ASSUME Accounts!AccountsInv, NEW t \in Requests, NEW l \in Links, Accounts!SendVerification(t, l)
  PROVE  Accounts!AccountsInv'
<1>1. Accounts!TypeOK /\ Accounts!TypeOK'
  BY DEF Accounts!AccountsInv, Accounts!TypeOK, Accounts!SendVerification, Accounts!Issue
<1>2. Accounts!JoiningVerifies'
  BY <1>1 DEF Accounts!AccountsInv, Accounts!JoiningVerifies, Accounts!TypeOK, Accounts!SendVerification, Accounts!Issue
<1>3. Accounts!VerifiedOnce'
  BY <1>1 DEF Accounts!AccountsInv, Accounts!VerifiedOnce, Accounts!TypeOK, Accounts!SendVerification, Accounts!Issue
<1>4. Accounts!SecondInviteWasRevived'
  BY <1>1 DEF Accounts!AccountsInv, Accounts!SecondInviteWasRevived, Accounts!TypeOK, Accounts!SendVerification, Accounts!Issue
<1> QED
  BY <1>1, <1>2, <1>3, <1>4 DEF Accounts!AccountsInv

LEMMA OpenLinkKeeps ==
  ASSUME Accounts!AccountsInv, NEW t \in Requests, NEW l \in Links, Accounts!OpenLink(t, l)
  PROVE  Accounts!AccountsInv'
<1>1. Accounts!TypeOK /\ Accounts!TypeOK'
  BY DEF Accounts!AccountsInv, Accounts!TypeOK, Accounts!OpenLink
<1>2. Accounts!JoiningVerifies'
  BY <1>1 DEF Accounts!AccountsInv, Accounts!JoiningVerifies, Accounts!TypeOK, Accounts!OpenLink
<1>3. Accounts!VerifiedOnce'
  BY <1>1 DEF Accounts!AccountsInv, Accounts!VerifiedOnce, Accounts!TypeOK, Accounts!OpenLink
<1>4. Accounts!SecondInviteWasRevived'
  BY <1>1 DEF Accounts!AccountsInv, Accounts!SecondInviteWasRevived, Accounts!TypeOK, Accounts!OpenLink
<1> QED
  BY <1>1, <1>2, <1>3, <1>4 DEF Accounts!AccountsInv

LEMMA VerifyKeeps ==
  ASSUME Accounts!AccountsInv, NEW t \in Requests, Accounts!Verify(t)
  PROVE  Accounts!AccountsInv'
<1>1. Accounts!TypeOK /\ Accounts!TypeOK'
  <2>1. Accounts!TypeOK
    BY DEF Accounts!AccountsInv
  <2>2. ASSUME NEW l \in Links, link[l] # Nobody
        PROVE  [link[l] EXCEPT !.used = TRUE] \in [email : Emails, used : BOOLEAN, expired : BOOLEAN]
    BY <2>1, <2>2 DEF Accounts!TypeOK
  <2>3. link' \in [Links -> [email : Emails, used : BOOLEAN, expired : BOOLEAN] \cup {Nobody}]
    BY <2>1, <2>2 DEF Accounts!TypeOK, Accounts!Verify
  <2>4. PICK e : /\ account' = [account EXCEPT ![e] = "verified"]
                 /\ \/ announced' = [announced EXCEPT ![e] = announced[e] + 1]
                    \/ announced' = [announced EXCEPT ![e] = announced[e]]
    BY DEF Accounts!Verify
  <2>5. account' \in [Emails -> {"none", "unverified", "verified"}]
    BY <2>1, <2>4 DEF Accounts!TypeOK
  <2>6. announced' \in [Emails -> Nat]
    BY <2>1, <2>4 DEF Accounts!TypeOK
  <2> QED
    BY <2>1, <2>3, <2>5, <2>6 DEF Accounts!TypeOK, Accounts!Verify
<1>2. Accounts!JoiningVerifies'
  BY <1>1 DEF Accounts!AccountsInv, Accounts!JoiningVerifies, Accounts!TypeOK, Accounts!Verify, Accounts!NewlyVerified
<1>3. Accounts!VerifiedOnce'
  BY <1>1 DEF Accounts!AccountsInv, Accounts!VerifiedOnce, Accounts!TypeOK, Accounts!Verify, Accounts!NewlyVerified
<1>4. Accounts!SecondInviteWasRevived'
  BY <1>1 DEF Accounts!AccountsInv, Accounts!SecondInviteWasRevived, Accounts!TypeOK, Accounts!Verify, Accounts!NewlyVerified
<1> QED
  BY <1>1, <1>2, <1>3, <1>4 DEF Accounts!AccountsInv

LEMMA ExpireKeeps ==
  ASSUME Accounts!AccountsInv, Accounts!Expire
  PROVE  Accounts!AccountsInv'
<1>1. Accounts!TypeOK /\ Accounts!TypeOK'
  <2>1. Accounts!TypeOK
    BY DEF Accounts!AccountsInv
  <2>2. ASSUME NEW i \in Invites, invite[i] # Nobody, invite' = [invite EXCEPT ![i].expired = TRUE]
        PROVE  invite' \in [Invites -> Accounts!Rows \cup {Nobody}]
    BY <2>1, <2>2 DEF Accounts!TypeOK
  <2>3. ASSUME NEW l \in Links, link[l] # Nobody, link' = [link EXCEPT ![l].expired = TRUE]
        PROVE  link' \in [Links -> [email : Emails, used : BOOLEAN, expired : BOOLEAN] \cup {Nobody}]
    BY <2>1, <2>3 DEF Accounts!TypeOK
  <2> QED
    BY <2>1, <2>2, <2>3 DEF Accounts!TypeOK, Accounts!Expire
<1>2. Accounts!JoiningVerifies'
  BY <1>1 DEF Accounts!AccountsInv, Accounts!JoiningVerifies, Accounts!TypeOK, Accounts!Expire
<1>3. Accounts!VerifiedOnce'
  BY <1>1 DEF Accounts!AccountsInv, Accounts!VerifiedOnce, Accounts!TypeOK, Accounts!Expire
<1>4. Accounts!SecondInviteWasRevived'
  BY <1>1 DEF Accounts!AccountsInv, Accounts!SecondInviteWasRevived, Accounts!TypeOK, Accounts!Expire
<1> QED
  BY <1>1, <1>2, <1>3, <1>4 DEF Accounts!AccountsInv

LEMMA GiveUpKeeps ==
  ASSUME Accounts!AccountsInv, NEW t \in Requests, Accounts!GiveUp(t)
  PROVE  Accounts!AccountsInv'
<1>1. Accounts!TypeOK /\ Accounts!TypeOK'
  BY DEF Accounts!AccountsInv, Accounts!TypeOK, Accounts!GiveUp
<1>2. Accounts!JoiningVerifies'
  BY <1>1 DEF Accounts!AccountsInv, Accounts!JoiningVerifies, Accounts!TypeOK, Accounts!GiveUp
<1>3. Accounts!VerifiedOnce'
  BY <1>1 DEF Accounts!AccountsInv, Accounts!VerifiedOnce, Accounts!TypeOK, Accounts!GiveUp
<1>4. Accounts!SecondInviteWasRevived'
  BY <1>1 DEF Accounts!AccountsInv, Accounts!SecondInviteWasRevived, Accounts!TypeOK, Accounts!GiveUp
<1> QED
  BY <1>1, <1>2, <1>3, <1>4 DEF Accounts!AccountsInv

-----------------------------------------------------------------------------
LEMMA AccountsStepKeeps == ASSUME Accounts!AccountsInv, [Accounts!Next]_(Accounts!vars) PROVE Accounts!AccountsInv'
<1>1. CASE Accounts!Next
  BY <1>1, CreateKeeps, AccountsRevokeKeeps, ResendKeeps, OpenInviteKeeps, AcceptKeeps, LeaveKeeps, SignupKeeps, AskVerificationKeeps, SendVerificationKeeps, OpenLinkKeeps, VerifyKeeps, ExpireKeeps, GiveUpKeeps DEF Accounts!Next
<1>2. CASE UNCHANGED Accounts!vars
  BY <1>2 DEF Accounts!vars, Accounts!AccountsInv, Accounts!TypeOK, Accounts!JoiningVerifies, Accounts!VerifiedOnce, Accounts!SecondInviteWasRevived
<1> QED
  BY <1>1, <1>2

(* Whoever joined by an invite is verified, an address is announced once,   *)
(* and a second open invite for it was revived: in every interleaving.      *)
THEOREM AccountsAreSound == Accounts!Spec => []Accounts!AccountsInv
BY AccountsInitInv, AccountsStepKeeps, PTL DEF Accounts!Spec

-----------------------------------------------------------------------------
(* What a step may do to an invite that is settled: let it expire.          *)
OnlyExpires(i) ==
  invite[i] # Nobody /\ invite[i].state # "open" =>
    invite'[i] = [invite[i] EXCEPT !.expired = invite'[i].expired]

LEMMA SettledStep == ASSUME Accounts!AccountsInv, [Accounts!Next]_(Accounts!vars), NEW i \in Invites PROVE OnlyExpires(i)
<1>0. Accounts!TypeOK
  BY DEF Accounts!AccountsInv
<1>1. ASSUME invite'[i] = invite[i] PROVE OnlyExpires(i)
  BY <1>0, <1>1 DEF OnlyExpires, Accounts!TypeOK
<1>2. ASSUME NEW j \in Invites, Accounts!Revoke(j) \/ Accounts!Resend(j) \/ \E e \in Emails : Accounts!Create(j, e)
      PROVE  OnlyExpires(i)
  BY <1>0, <1>1, <1>2 DEF OnlyExpires, Accounts!Revoke, Accounts!Resend, Accounts!Create, Accounts!TypeOK
<1>3. ASSUME NEW t \in Requests, Accounts!Accept(t) PROVE OnlyExpires(i)
  BY <1>0, <1>1, <1>3 DEF OnlyExpires, Accounts!Accept, Accounts!OpenWhenLocked, Accounts!TypeOK
<1>4. CASE Accounts!Expire
  <2>1. CASE invite' = invite
    BY <1>1, <2>1
  <2>2. CASE \E j \in Invites : invite[j] # Nobody /\ invite' = [invite EXCEPT ![j].expired = TRUE]
    BY <1>0, <1>1, <2>2 DEF OnlyExpires, Accounts!TypeOK
  <2> QED
    BY <1>4, <2>1, <2>2 DEF Accounts!Expire
<1>5. CASE invite' = invite
  BY <1>1, <1>5
<1>6. \/ invite' = invite
      \/ Accounts!Expire
      \/ \E t \in Requests : Accounts!Accept(t)
      \/ \E j \in Invites : Accounts!Revoke(j) \/ Accounts!Resend(j) \/ \E e \in Emails : Accounts!Create(j, e)
  BY DEF Accounts!Next, Accounts!vars, Accounts!Leave, Accounts!Signup, Accounts!Verify, Accounts!GiveUp, Accounts!OpenInvite, Accounts!AskVerification, Accounts!SendVerification,
      Accounts!OpenLink
<1> QED
  BY <1>2, <1>3, <1>4, <1>5, <1>6

(* An accept that read an invite open cannot take it back from a revoke,    *)
(* and nobody accepts it a second time.                                     *)
THEOREM SettledStaysSettled == Accounts!Spec => Accounts!SettledInvitesStay
<1>1. Accounts!AccountsInv /\ [Accounts!Next]_(Accounts!vars) => [\A i \in Invites : OnlyExpires(i)]_(Accounts!vars)
  BY SettledStep
<1> QED
  BY <1>1, AccountsAreSound, PTL DEF Accounts!Spec, Accounts!SettledInvitesStay, OnlyExpires

HIDE NoneIsNothing

-----------------------------------------------------------------------------
(* Members: roles, removals, sessions.                                      *)

USE MembersAssumption
USE DEF lockVars, sessionVars

LEMMA InitInv == Init => MembersInv
<1> SUFFICES ASSUME Init PROVE MembersInv
  OBVIOUS
<1>1. TypeOK
  BY DEF Init, TypeOK, Ops, NoOp
<1> QED
  BY <1>1 DEF Init, MembersInv, StepFitsKind, TargetIsHeld, AnotherOwnerIsHeld, RefusedWhenLocked, MovedIsLocked, MoverKnowsTheUser, DoomedAreLocked, NewcomersAreRaced, AlwaysAnOwner, OnlyRacesLeaveSessions, Deciding, Here, Owners


-----------------------------------------------------------------------------
(* One lemma for each step.  The end of a request releases what it held.    *)
LEMMA EndIsTyped ==
  ASSUME TypeOK, NEW t \in Requests, End(t)
  PROVE  /\ pc' \in [Requests -> {"idle", "asked", "counting", "writing", "revoked", "login",
                                  "switch", "moved"}]
         /\ op' \in [Requests -> Ops]
         /\ left' \in [Requests -> SUBSET Users]
         /\ doomed' \in [Requests -> SUBSET Sessions]
         /\ held' \in [Users -> Requests \cup {Nobody}]
         /\ moving' \in [Sessions -> Requests \cup {Nobody}]
BY DEF End, Released, TypeOK, Ops, NoOp

LEMMA AskRoleKeeps == ASSUME MembersInv, NEW t \in Requests, NEW p \in Users, NEW u \in Users, NEW r \in Roles, AskRole(t, p, u, r) PROVE MembersInv'
<1>1. TypeOK /\ TypeOK'
  BY DEF MembersInv, TypeOK, Ops, AskRole, Begin, RoleAtLeast
<1>2. StepFitsKind'
  BY <1>1 DEF MembersInv, StepFitsKind, AskRole, Begin, RoleAtLeast, Deciding, TypeOK, Ops
<1>3. TargetIsHeld'
  BY <1>1 DEF MembersInv, TargetIsHeld, StepFitsKind, AskRole, Begin, RoleAtLeast,
      Deciding, TypeOK, Ops
<1>4. AnotherOwnerIsHeld'
  BY <1>1 DEF MembersInv, AnotherOwnerIsHeld, TargetIsHeld, AskRole, Begin, RoleAtLeast,
      Deciding, TypeOK, Ops
<1>5. RefusedWhenLocked'
  BY <1>1 DEF MembersInv, RefusedWhenLocked, TargetIsHeld, StepFitsKind, AskRole, Begin,
      RoleAtLeast, Deciding, TypeOK, Ops
<1>6. MovedIsLocked'
  BY <1>1 DEF MembersInv, MovedIsLocked, DoomedAreLocked, StepFitsKind, AskRole, Begin,
      RoleAtLeast, Deciding, TypeOK, Ops
<1>7. MoverKnowsTheUser'
  BY <1>1 DEF MembersInv, MoverKnowsTheUser, StepFitsKind, AskRole, Begin, RoleAtLeast,
      Deciding, TypeOK, Ops
<1>8. DoomedAreLocked'
  BY <1>1 DEF MembersInv, DoomedAreLocked, AskRole, Begin, RoleAtLeast, TypeOK, Ops
<1>9. NewcomersAreRaced'
  BY <1>1 DEF MembersInv, NewcomersAreRaced, MoverKnowsTheUser, TargetIsHeld,
      DoomedAreLocked, MovedIsLocked, StepFitsKind, AskRole, Begin, RoleAtLeast, Here,
      Deciding, TypeOK, Ops
<1>10. AlwaysAnOwner'
  BY <1>1 DEF MembersInv, AlwaysAnOwner, AnotherOwnerIsHeld, AskRole, Begin, RoleAtLeast,
      Owners, TypeOK, Ops
<1>11. OnlyRacesLeaveSessions'
  BY <1>1 DEF MembersInv, OnlyRacesLeaveSessions, NewcomersAreRaced, StepFitsKind,
      MoverKnowsTheUser, MovedIsLocked, AskRole, Begin, RoleAtLeast, Here, Deciding, TypeOK,
      Ops
<1> QED
  BY <1>1, <1>2, <1>3, <1>4, <1>5, <1>6, <1>7, <1>8, <1>9, <1>10, <1>11 DEF MembersInv

LEMMA AskRemovalKeeps == ASSUME MembersInv, NEW t \in Requests, NEW p \in Users, NEW u \in Users, AskRemoval(t, p, u) PROVE MembersInv'
<1>1. TypeOK /\ TypeOK'
  BY DEF MembersInv, TypeOK, Ops, AskRemoval, Begin, RoleAtLeast
<1>2. StepFitsKind'
  BY <1>1 DEF MembersInv, StepFitsKind, AskRemoval, Begin, RoleAtLeast, Deciding, TypeOK,
      Ops
<1>3. TargetIsHeld'
  BY <1>1 DEF MembersInv, TargetIsHeld, StepFitsKind, AskRemoval, Begin, RoleAtLeast,
      Deciding, TypeOK, Ops
<1>4. AnotherOwnerIsHeld'
  BY <1>1 DEF MembersInv, AnotherOwnerIsHeld, TargetIsHeld, AskRemoval, Begin,
      RoleAtLeast, Deciding, TypeOK, Ops
<1>5. RefusedWhenLocked'
  BY <1>1 DEF MembersInv, RefusedWhenLocked, TargetIsHeld, StepFitsKind, AskRemoval,
      Begin, RoleAtLeast, Deciding, TypeOK, Ops
<1>6. MovedIsLocked'
  BY <1>1 DEF MembersInv, MovedIsLocked, DoomedAreLocked, StepFitsKind, AskRemoval, Begin,
      RoleAtLeast, Deciding, TypeOK, Ops
<1>7. MoverKnowsTheUser'
  BY <1>1 DEF MembersInv, MoverKnowsTheUser, StepFitsKind, AskRemoval, Begin, RoleAtLeast,
      Deciding, TypeOK, Ops
<1>8. DoomedAreLocked'
  BY <1>1 DEF MembersInv, DoomedAreLocked, AskRemoval, Begin, RoleAtLeast, TypeOK, Ops
<1>9. NewcomersAreRaced'
  BY <1>1 DEF MembersInv, NewcomersAreRaced, MoverKnowsTheUser, TargetIsHeld,
      DoomedAreLocked, MovedIsLocked, StepFitsKind, AskRemoval, Begin, RoleAtLeast, Here,
      Deciding, TypeOK, Ops
<1>10. AlwaysAnOwner'
  BY <1>1 DEF MembersInv, AlwaysAnOwner, AnotherOwnerIsHeld, AskRemoval, Begin,
      RoleAtLeast, Owners, TypeOK, Ops
<1>11. OnlyRacesLeaveSessions'
  BY <1>1 DEF MembersInv, OnlyRacesLeaveSessions, NewcomersAreRaced, StepFitsKind,
      MoverKnowsTheUser, MovedIsLocked, AskRemoval, Begin, RoleAtLeast, Here, Deciding,
      TypeOK, Ops
<1> QED
  BY <1>1, <1>2, <1>3, <1>4, <1>5, <1>6, <1>7, <1>8, <1>9, <1>10, <1>11 DEF MembersInv

LEMMA LockMemberKeeps == ASSUME MembersInv, NEW t \in Requests, LockMember(t) PROVE MembersInv'
<1>1. TypeOK /\ TypeOK'
  <2>1. TypeOK
    BY DEF MembersInv
  <2>2. CASE Refused(op[t], role[op[t].user])
    BY <2>1, <2>2, EndIsTyped DEF LockMember, TypeOK
  <2>3. CASE ~Refused(op[t], role[op[t].user])
    <3>1. op[t].user \in Users
      BY <2>1 DEF TypeOK, Ops, NoOp, LockMember, MembersInv, StepFitsKind
    <3>2. Owners \subseteq Users
      BY DEF Owners
    <3> QED
      BY <2>1, <2>3, <3>1, <3>2 DEF LockMember, Goto, TypeOK
  <2> QED
    BY <2>1, <2>2, <2>3
<1>2. StepFitsKind'
  BY <1>1 DEF MembersInv, StepFitsKind, LockMember, Goto, End, Released, Refused, NoOp,
      Owners, Deciding, TypeOK, Ops
<1>3. TargetIsHeld'
  BY <1>1 DEF MembersInv, TargetIsHeld, StepFitsKind, LockMember, Goto, End, Released,
      Refused, NoOp, Owners, Deciding, TypeOK, Ops
<1>4. AnotherOwnerIsHeld'
  BY <1>1 DEF MembersInv, AnotherOwnerIsHeld, TargetIsHeld, LockMember, Goto, End,
      Released, Refused, NoOp, Owners, Deciding, TypeOK, Ops
<1>5. RefusedWhenLocked'
  BY <1>1 DEF MembersInv, RefusedWhenLocked, TargetIsHeld, StepFitsKind, LockMember, Goto,
      End, Released, Refused, NoOp, Owners, Deciding, TypeOK, Ops
<1>6. MovedIsLocked'
  BY <1>1 DEF MembersInv, MovedIsLocked, DoomedAreLocked, StepFitsKind, LockMember, Goto,
      End, Released, Refused, NoOp, Owners, Deciding, TypeOK, Ops
<1>7. MoverKnowsTheUser'
  BY <1>1 DEF MembersInv, MoverKnowsTheUser, StepFitsKind, LockMember, Goto, End,
      Released, Refused, NoOp, Owners, Deciding, TypeOK, Ops
<1>8. DoomedAreLocked'
  BY <1>1 DEF MembersInv, DoomedAreLocked, LockMember, Goto, End, Released, Refused, NoOp,
      Owners, TypeOK, Ops
<1>9. NewcomersAreRaced'
  BY <1>1 DEF MembersInv, NewcomersAreRaced, MoverKnowsTheUser, TargetIsHeld,
      DoomedAreLocked, MovedIsLocked, StepFitsKind, LockMember, Goto, End, Released, Refused,
      NoOp, Owners, Here, Deciding, TypeOK, Ops
<1>10. AlwaysAnOwner'
  BY <1>1 DEF MembersInv, AlwaysAnOwner, AnotherOwnerIsHeld, LockMember, Goto, End,
      Released, Refused, NoOp, Owners, TypeOK, Ops
<1>11. OnlyRacesLeaveSessions'
  BY <1>1 DEF MembersInv, OnlyRacesLeaveSessions, NewcomersAreRaced, StepFitsKind,
      MoverKnowsTheUser, MovedIsLocked, LockMember, Goto, End, Released, Refused, NoOp,
      Owners, Here, Deciding, TypeOK, Ops
<1> QED
  BY <1>1, <1>2, <1>3, <1>4, <1>5, <1>6, <1>7, <1>8, <1>9, <1>10, <1>11 DEF MembersInv

LEMMA LockOwnerKeeps == ASSUME MembersInv, NEW t \in Requests, NEW v \in Users, LockOwner(t, v) PROVE MembersInv'
<1>1. TypeOK /\ TypeOK'
  BY DEF MembersInv, TypeOK, Ops, LockOwner, Unlockable
<1>2. StepFitsKind'
  BY <1>1 DEF MembersInv, StepFitsKind, LockOwner, Unlockable, Deciding, TypeOK, Ops
<1>3. TargetIsHeld'
  BY <1>1 DEF MembersInv, TargetIsHeld, StepFitsKind, LockOwner, Unlockable, Deciding,
      TypeOK, Ops
<1>4. AnotherOwnerIsHeld'
  BY <1>1 DEF MembersInv, AnotherOwnerIsHeld, TargetIsHeld, LockOwner, Unlockable,
      Deciding, TypeOK, Ops
<1>5. RefusedWhenLocked'
  BY <1>1 DEF MembersInv, RefusedWhenLocked, TargetIsHeld, StepFitsKind, LockOwner,
      Unlockable, Deciding, TypeOK, Ops
<1>6. MovedIsLocked'
  BY <1>1 DEF MembersInv, MovedIsLocked, DoomedAreLocked, StepFitsKind, LockOwner,
      Unlockable, Deciding, TypeOK, Ops
<1>7. MoverKnowsTheUser'
  BY <1>1 DEF MembersInv, MoverKnowsTheUser, StepFitsKind, LockOwner, Unlockable,
      Deciding, TypeOK, Ops
<1>8. DoomedAreLocked'
  BY <1>1 DEF MembersInv, DoomedAreLocked, LockOwner, Unlockable, TypeOK, Ops
<1>9. NewcomersAreRaced'
  BY <1>1 DEF MembersInv, NewcomersAreRaced, MoverKnowsTheUser, TargetIsHeld,
      DoomedAreLocked, MovedIsLocked, StepFitsKind, LockOwner, Unlockable, Here, Deciding,
      TypeOK, Ops
<1>10. AlwaysAnOwner'
  BY <1>1 DEF MembersInv, AlwaysAnOwner, AnotherOwnerIsHeld, LockOwner, Unlockable,
      Owners, TypeOK, Ops
<1>11. OnlyRacesLeaveSessions'
  BY <1>1 DEF MembersInv, OnlyRacesLeaveSessions, NewcomersAreRaced, StepFitsKind,
      MoverKnowsTheUser, MovedIsLocked, LockOwner, Unlockable, Here, Deciding, TypeOK, Ops
<1> QED
  BY <1>1, <1>2, <1>3, <1>4, <1>5, <1>6, <1>7, <1>8, <1>9, <1>10, <1>11 DEF MembersInv

LEMMA CheckOwnersKeeps == ASSUME MembersInv, NEW t \in Requests, CheckOwners(t) PROVE MembersInv'
<1>1. TypeOK /\ TypeOK'
  BY DEF MembersInv, TypeOK, Ops, CheckOwners, Goto, End, Released, NoOp
<1>2. StepFitsKind'
  BY <1>1 DEF MembersInv, StepFitsKind, CheckOwners, Goto, End, Released, NoOp, Deciding,
      TypeOK, Ops
<1>3. TargetIsHeld'
  BY <1>1 DEF MembersInv, TargetIsHeld, StepFitsKind, CheckOwners, Goto, End, Released,
      NoOp, Deciding, TypeOK, Ops
<1>4. AnotherOwnerIsHeld'
  <2> DEFINE mine == {v \in Owners : held[v] = t}
  <2>1. CASE LastOwner(t)
    BY <1>1, <2>1 DEF MembersInv, AnotherOwnerIsHeld, TargetIsHeld, Deciding, CheckOwners, End,
        Released, TypeOK, Ops
  <2>2. CASE ~LastOwner(t)
    <3>1. PICK v \in mine : v # op[t].user
      <4> SUFFICES ASSUME mine \subseteq {op[t].user} PROVE FALSE
        OBVIOUS
      <4>1. IsFiniteSet({op[t].user}) /\ Cardinality({op[t].user}) = 1
        BY FS_Singleton
      <4>2. Cardinality(mine) <= Cardinality({op[t].user})
        BY <4>1, FS_Subset
      <4> QED
        BY <2>2, <4>1, <4>2 DEF LastOwner, OwnerCount
    <3>2. v \in Users /\ role[v] = "owner" /\ held[v] = t
      BY DEF Owners
    <3> QED
      BY <1>1, <2>2, <3>1, <3>2 DEF MembersInv, AnotherOwnerIsHeld, CheckOwners, Goto, TypeOK
  <2> QED
    BY <2>1, <2>2
<1>5. RefusedWhenLocked'
  BY <1>1 DEF MembersInv, RefusedWhenLocked, TargetIsHeld, StepFitsKind, CheckOwners,
      Goto, End, Released, NoOp, Deciding, TypeOK, Ops
<1>6. MovedIsLocked'
  BY <1>1 DEF MembersInv, MovedIsLocked, DoomedAreLocked, StepFitsKind, CheckOwners, Goto,
      End, Released, NoOp, Deciding, TypeOK, Ops
<1>7. MoverKnowsTheUser'
  BY <1>1 DEF MembersInv, MoverKnowsTheUser, StepFitsKind, CheckOwners, Goto, End,
      Released, NoOp, Deciding, TypeOK, Ops
<1>8. DoomedAreLocked'
  BY <1>1 DEF MembersInv, DoomedAreLocked, CheckOwners, Goto, End, Released, NoOp, TypeOK,
      Ops
<1>9. NewcomersAreRaced'
  BY <1>1 DEF MembersInv, NewcomersAreRaced, MoverKnowsTheUser, TargetIsHeld,
      DoomedAreLocked, MovedIsLocked, StepFitsKind, CheckOwners, Goto, End, Released, NoOp,
      Here, Deciding, TypeOK, Ops
<1>10. AlwaysAnOwner'
  BY <1>1 DEF MembersInv, AlwaysAnOwner, AnotherOwnerIsHeld, CheckOwners, Goto, End,
      Released, NoOp, Owners, TypeOK, Ops
<1>11. OnlyRacesLeaveSessions'
  BY <1>1 DEF MembersInv, OnlyRacesLeaveSessions, NewcomersAreRaced, StepFitsKind,
      MoverKnowsTheUser, MovedIsLocked, CheckOwners, Goto, End, Released, NoOp, Here,
      Deciding, TypeOK, Ops
<1> QED
  BY <1>1, <1>2, <1>3, <1>4, <1>5, <1>6, <1>7, <1>8, <1>9, <1>10, <1>11 DEF MembersInv

LEMMA CommitRoleKeeps == ASSUME MembersInv, NEW t \in Requests, CommitRole(t) PROVE MembersInv'
<1>1. TypeOK /\ TypeOK'
  BY DEF MembersInv, TypeOK, Ops, CommitRole, End, Released, NoOp
<1>2. StepFitsKind'
  BY <1>1 DEF MembersInv, StepFitsKind, CommitRole, End, Released, NoOp, Deciding, TypeOK,
      Ops
<1>3. TargetIsHeld'
  BY <1>1 DEF MembersInv, TargetIsHeld, StepFitsKind, CommitRole, End, Released, NoOp,
      Deciding, TypeOK, Ops
<1>4. AnotherOwnerIsHeld'
  BY <1>1 DEF MembersInv, AnotherOwnerIsHeld, TargetIsHeld, CommitRole, End, Released,
      NoOp, Deciding, TypeOK, Ops
<1>5. RefusedWhenLocked'
  BY <1>1 DEF MembersInv, RefusedWhenLocked, TargetIsHeld, StepFitsKind, CommitRole, End,
      Released, NoOp, Deciding, TypeOK, Ops
<1>6. MovedIsLocked'
  BY <1>1 DEF MembersInv, MovedIsLocked, DoomedAreLocked, StepFitsKind, CommitRole, End,
      Released, NoOp, Deciding, TypeOK, Ops
<1>7. MoverKnowsTheUser'
  BY <1>1 DEF MembersInv, MoverKnowsTheUser, StepFitsKind, CommitRole, End, Released,
      NoOp, Deciding, TypeOK, Ops
<1>8. DoomedAreLocked'
  BY <1>1 DEF MembersInv, DoomedAreLocked, CommitRole, End, Released, NoOp, TypeOK, Ops
<1>9. NewcomersAreRaced'
  BY <1>1 DEF MembersInv, NewcomersAreRaced, MoverKnowsTheUser, TargetIsHeld,
      DoomedAreLocked, MovedIsLocked, StepFitsKind, CommitRole, End, Released, NoOp, Here,
      Deciding, TypeOK, Ops
<1>10. AlwaysAnOwner'
  BY <1>1 DEF MembersInv, AlwaysAnOwner, AnotherOwnerIsHeld, CommitRole, End, Released,
      NoOp, Owners, TypeOK, Ops
<1>11. OnlyRacesLeaveSessions'
  BY <1>1 DEF MembersInv, OnlyRacesLeaveSessions, NewcomersAreRaced, StepFitsKind,
      MoverKnowsTheUser, MovedIsLocked, CommitRole, End, Released, NoOp, Here, Deciding,
      TypeOK, Ops
<1> QED
  BY <1>1, <1>2, <1>3, <1>4, <1>5, <1>6, <1>7, <1>8, <1>9, <1>10, <1>11 DEF MembersInv

LEMMA RevokeKeeps == ASSUME MembersInv, NEW t \in Requests, Revoke(t) PROVE MembersInv'
<1>1. TypeOK /\ TypeOK'
  BY DEF MembersInv, TypeOK, Ops, Revoke, Revocable, Here, Goto
<1>2. StepFitsKind'
  BY <1>1 DEF MembersInv, StepFitsKind, Revoke, Revocable, Here, Goto, Deciding, TypeOK,
      Ops
<1>3. TargetIsHeld'
  BY <1>1 DEF MembersInv, TargetIsHeld, StepFitsKind, Revoke, Revocable, Here, Goto,
      Deciding, TypeOK, Ops
<1>4. AnotherOwnerIsHeld'
  BY <1>1 DEF MembersInv, AnotherOwnerIsHeld, TargetIsHeld, Revoke, Revocable, Here, Goto,
      Deciding, TypeOK, Ops
<1>5. RefusedWhenLocked'
  BY <1>1 DEF MembersInv, RefusedWhenLocked, TargetIsHeld, StepFitsKind, Revoke,
      Revocable, Here, Goto, Deciding, TypeOK, Ops
<1>6. MovedIsLocked'
  <2> SUFFICES ASSUME NEW q \in Requests, pc'[q] = "moved"
               PROVE  (moving[op[q].of] = q /\ session[op[q].of] # Nobody)'
    BY DEF MovedIsLocked
  <2>1. pc[q] = "moved" /\ op'[q] = op[q] /\ session' = session
    BY <1>1 DEF Revoke, Goto, TypeOK
  <2>2. op[q].of \in Sessions
    BY <1>1, <2>1 DEF MembersInv, StepFitsKind, TypeOK, Ops, NoOp
  <2>3. moving[op[q].of] = q /\ session[op[q].of] # Nobody
    BY <2>1 DEF MembersInv, MovedIsLocked
  <2>4. op[q].of \notin Here(op[t].user)
    BY <2>3 DEF Revoke
  <2> QED
    BY <1>1, <2>1, <2>2, <2>3, <2>4 DEF Revoke, Revocable
<1>7. MoverKnowsTheUser'
  BY <1>1 DEF MembersInv, MoverKnowsTheUser, StepFitsKind, Revoke, Revocable, Here, Goto,
      Deciding, TypeOK, Ops
<1>8. DoomedAreLocked'
  BY <1>1 DEF MembersInv, DoomedAreLocked, Revoke, Revocable, Here, Goto, TypeOK, Ops
<1>9. NewcomersAreRaced'
  BY <1>1 DEF MembersInv, NewcomersAreRaced, MoverKnowsTheUser, TargetIsHeld,
      DoomedAreLocked, MovedIsLocked, StepFitsKind, Revoke, Revocable, Here, Goto, Deciding,
      TypeOK, Ops
<1>10. AlwaysAnOwner'
  BY <1>1 DEF MembersInv, AlwaysAnOwner, AnotherOwnerIsHeld, Revoke, Revocable, Here,
      Goto, Owners, TypeOK, Ops
<1>11. OnlyRacesLeaveSessions'
  BY <1>1 DEF MembersInv, OnlyRacesLeaveSessions, NewcomersAreRaced, StepFitsKind,
      MoverKnowsTheUser, MovedIsLocked, Revoke, Revocable, Here, Goto, Deciding, TypeOK, Ops
<1> QED
  BY <1>1, <1>2, <1>3, <1>4, <1>5, <1>6, <1>7, <1>8, <1>9, <1>10, <1>11 DEF MembersInv

LEMMA CommitRemovalKeeps == ASSUME MembersInv, NEW t \in Requests, CommitRemoval(t) PROVE MembersInv'
<1>1. TypeOK /\ TypeOK'
  BY DEF MembersInv, TypeOK, Ops, CommitRemoval, End, Released, NoOp
<1>2. StepFitsKind'
  BY <1>1 DEF MembersInv, StepFitsKind, CommitRemoval, End, Released, NoOp, Deciding,
      TypeOK, Ops
<1>3. TargetIsHeld'
  BY <1>1 DEF MembersInv, TargetIsHeld, StepFitsKind, CommitRemoval, End, Released, NoOp,
      Deciding, TypeOK, Ops
<1>4. AnotherOwnerIsHeld'
  BY <1>1 DEF MembersInv, AnotherOwnerIsHeld, TargetIsHeld, CommitRemoval, End, Released,
      NoOp, Deciding, TypeOK, Ops
<1>5. RefusedWhenLocked'
  BY <1>1 DEF MembersInv, RefusedWhenLocked, TargetIsHeld, StepFitsKind, CommitRemoval,
      End, Released, NoOp, Deciding, TypeOK, Ops
<1>6. MovedIsLocked'
  BY <1>1 DEF MembersInv, MovedIsLocked, DoomedAreLocked, StepFitsKind, CommitRemoval,
      End, Released, NoOp, Deciding, TypeOK, Ops
<1>7. MoverKnowsTheUser'
  BY <1>1 DEF MembersInv, MoverKnowsTheUser, StepFitsKind, CommitRemoval, End, Released,
      NoOp, Deciding, TypeOK, Ops
<1>8. DoomedAreLocked'
  BY <1>1 DEF MembersInv, DoomedAreLocked, CommitRemoval, End, Released, NoOp, TypeOK, Ops
<1>9. NewcomersAreRaced'
  BY <1>1 DEF MembersInv, NewcomersAreRaced, MoverKnowsTheUser, TargetIsHeld,
      DoomedAreLocked, MovedIsLocked, StepFitsKind, CommitRemoval, End, Released, NoOp, Here,
      Deciding, TypeOK, Ops
<1>10. AlwaysAnOwner'
  BY <1>1 DEF MembersInv, AlwaysAnOwner, AnotherOwnerIsHeld, CommitRemoval, End, Released,
      NoOp, Owners, TypeOK, Ops
<1>11. OnlyRacesLeaveSessions'
  BY <1>1 DEF MembersInv, OnlyRacesLeaveSessions, NewcomersAreRaced, StepFitsKind,
      MoverKnowsTheUser, MovedIsLocked, CommitRemoval, End, Released, NoOp, Here, Deciding,
      TypeOK, Ops
<1> QED
  BY <1>1, <1>2, <1>3, <1>4, <1>5, <1>6, <1>7, <1>8, <1>9, <1>10, <1>11 DEF MembersInv

LEMMA AbortKeeps == ASSUME MembersInv, NEW t \in Requests, Abort(t) PROVE MembersInv'
<1>1. TypeOK /\ TypeOK'
  BY DEF MembersInv, TypeOK, Ops, Abort, End, Released, NoOp
<1>2. StepFitsKind'
  BY <1>1 DEF MembersInv, StepFitsKind, Abort, End, Released, NoOp, Deciding, TypeOK, Ops
<1>3. TargetIsHeld'
  BY <1>1 DEF MembersInv, TargetIsHeld, StepFitsKind, Abort, End, Released, NoOp,
      Deciding, TypeOK, Ops
<1>4. AnotherOwnerIsHeld'
  BY <1>1 DEF MembersInv, AnotherOwnerIsHeld, TargetIsHeld, Abort, End, Released, NoOp,
      Deciding, TypeOK, Ops
<1>5. RefusedWhenLocked'
  BY <1>1 DEF MembersInv, RefusedWhenLocked, TargetIsHeld, StepFitsKind, Abort, End,
      Released, NoOp, Deciding, TypeOK, Ops
<1>6. MovedIsLocked'
  BY <1>1 DEF MembersInv, MovedIsLocked, DoomedAreLocked, StepFitsKind, Abort, End,
      Released, NoOp, Deciding, TypeOK, Ops
<1>7. MoverKnowsTheUser'
  BY <1>1 DEF MembersInv, MoverKnowsTheUser, StepFitsKind, Abort, End, Released, NoOp,
      Deciding, TypeOK, Ops
<1>8. DoomedAreLocked'
  BY <1>1 DEF MembersInv, DoomedAreLocked, Abort, End, Released, NoOp, TypeOK, Ops
<1>9. NewcomersAreRaced'
  BY <1>1 DEF MembersInv, NewcomersAreRaced, MoverKnowsTheUser, TargetIsHeld,
      DoomedAreLocked, MovedIsLocked, StepFitsKind, Abort, End, Released, NoOp, Here,
      Deciding, TypeOK, Ops
<1>10. AlwaysAnOwner'
  BY <1>1 DEF MembersInv, AlwaysAnOwner, AnotherOwnerIsHeld, Abort, End, Released, NoOp,
      Owners, TypeOK, Ops
<1>11. OnlyRacesLeaveSessions'
  BY <1>1 DEF MembersInv, OnlyRacesLeaveSessions, NewcomersAreRaced, StepFitsKind,
      MoverKnowsTheUser, MovedIsLocked, Abort, End, Released, NoOp, Here, Deciding, TypeOK,
      Ops
<1> QED
  BY <1>1, <1>2, <1>3, <1>4, <1>5, <1>6, <1>7, <1>8, <1>9, <1>10, <1>11 DEF MembersInv

LEMMA AskLoginKeeps == ASSUME MembersInv, NEW t \in Requests, NEW u \in Users, NEW org \in {"here", "away"}, AskLogin(t, u, org) PROVE MembersInv'
<1>1. TypeOK /\ TypeOK'
  BY DEF MembersInv, TypeOK, Ops, AskLogin, Begin
<1>2. StepFitsKind'
  BY <1>1 DEF MembersInv, StepFitsKind, AskLogin, Begin, Deciding, TypeOK, Ops
<1>3. TargetIsHeld'
  BY <1>1 DEF MembersInv, TargetIsHeld, StepFitsKind, AskLogin, Begin, Deciding, TypeOK,
      Ops
<1>4. AnotherOwnerIsHeld'
  BY <1>1 DEF MembersInv, AnotherOwnerIsHeld, TargetIsHeld, AskLogin, Begin, Deciding,
      TypeOK, Ops
<1>5. RefusedWhenLocked'
  BY <1>1 DEF MembersInv, RefusedWhenLocked, TargetIsHeld, StepFitsKind, AskLogin, Begin,
      Deciding, TypeOK, Ops
<1>6. MovedIsLocked'
  BY <1>1 DEF MembersInv, MovedIsLocked, DoomedAreLocked, StepFitsKind, AskLogin, Begin,
      Deciding, TypeOK, Ops
<1>7. MoverKnowsTheUser'
  BY <1>1 DEF MembersInv, MoverKnowsTheUser, StepFitsKind, AskLogin, Begin, Deciding,
      TypeOK, Ops
<1>8. DoomedAreLocked'
  BY <1>1 DEF MembersInv, DoomedAreLocked, AskLogin, Begin, TypeOK, Ops
<1>9. NewcomersAreRaced'
  BY <1>1 DEF MembersInv, NewcomersAreRaced, MoverKnowsTheUser, TargetIsHeld,
      DoomedAreLocked, MovedIsLocked, StepFitsKind, AskLogin, Begin, Here, Deciding, TypeOK,
      Ops
<1>10. AlwaysAnOwner'
  BY <1>1 DEF MembersInv, AlwaysAnOwner, AnotherOwnerIsHeld, AskLogin, Begin, Owners,
      TypeOK, Ops
<1>11. OnlyRacesLeaveSessions'
  BY <1>1 DEF MembersInv, OnlyRacesLeaveSessions, NewcomersAreRaced, StepFitsKind,
      MoverKnowsTheUser, MovedIsLocked, AskLogin, Begin, Here, Deciding, TypeOK, Ops
<1> QED
  BY <1>1, <1>2, <1>3, <1>4, <1>5, <1>6, <1>7, <1>8, <1>9, <1>10, <1>11 DEF MembersInv

LEMMA LoginKeeps == ASSUME MembersInv, NEW t \in Requests, NEW s \in Sessions, Login(t, s) PROVE MembersInv'
<1>1. TypeOK /\ TypeOK'
  <2>1. TypeOK
    BY DEF MembersInv
  <2>2. op[t] \in [kind : {"login"}, user : Users, to : {"here", "away"}]
    BY <2>1 DEF TypeOK, Ops, NoOp, Login, MembersInv, StepFitsKind
  <2>3. session' \in [Sessions -> [user : Users, org : {"here", "away"}] \cup {Nobody}]
    BY <2>1, <2>2 DEF Login, NewSession, TypeOK
  <2>4. raced' \in [Sessions -> BOOLEAN]
    BY <2>1 DEF Login, NewSession, TypeOK
  <2> QED
    BY <2>1, <2>3, <2>4, EndIsTyped DEF Login, TypeOK
<1>2. StepFitsKind'
  BY <1>1 DEF MembersInv, StepFitsKind, Login, NewSession, LeavingAlready, End, Released,
      NoOp, Deciding, TypeOK, Ops
<1>3. TargetIsHeld'
  BY <1>1 DEF MembersInv, TargetIsHeld, StepFitsKind, Login, NewSession, LeavingAlready,
      End, Released, NoOp, Deciding, TypeOK, Ops
<1>4. AnotherOwnerIsHeld'
  BY <1>1 DEF MembersInv, AnotherOwnerIsHeld, TargetIsHeld, Login, NewSession,
      LeavingAlready, End, Released, NoOp, Deciding, TypeOK, Ops
<1>5. RefusedWhenLocked'
  BY <1>1 DEF MembersInv, RefusedWhenLocked, TargetIsHeld, StepFitsKind, Login,
      NewSession, LeavingAlready, End, Released, NoOp, Deciding, TypeOK, Ops
<1>6. MovedIsLocked'
  BY <1>1 DEF MembersInv, MovedIsLocked, DoomedAreLocked, StepFitsKind, Login, NewSession,
      LeavingAlready, End, Released, NoOp, Deciding, TypeOK, Ops
<1>7. MoverKnowsTheUser'
  BY <1>1 DEF MembersInv, MoverKnowsTheUser, StepFitsKind, Login, NewSession,
      LeavingAlready, End, Released, NoOp, Deciding, TypeOK, Ops
<1>8. DoomedAreLocked'
  BY <1>1 DEF MembersInv, DoomedAreLocked, Login, NewSession, LeavingAlready, End,
      Released, NoOp, TypeOK, Ops
<1>9. NewcomersAreRaced'
  <2> SUFFICES ASSUME NEW q \in Requests, pc'[q] = "revoked", NEW x \in Sessions,
                      x \in Here(op[q].user)', x \notin doomed'[q]
               PROVE  raced'[x]
    BY DEF NewcomersAreRaced, Here
  <2>1. q # t /\ pc[q] = "revoked" /\ op'[q] = op[q] /\ doomed'[q] = doomed[q]
    BY <1>1 DEF Login, End, TypeOK
  <2>2. CASE x = s
    <3>1. session'[s] = [user |-> op[t].user, org |-> op[t].to]
      BY <1>1 DEF Login, NewSession, TypeOK
    <3>2. op[t].user = op[q].user /\ op[t].to = "here"
      BY <2>1, <2>2, <3>1 DEF Here
    <3>3. LeavingAlready(op[t].user)
      BY <2>1, <3>2 DEF LeavingAlready
    <3> QED
      BY <1>1, <2>2, <3>2, <3>3 DEF Login, NewSession, TypeOK
  <2>3. CASE x # s
    <3>1. session'[x] = session[x] /\ raced'[x] = raced[x]
      BY <1>1, <2>3 DEF Login, NewSession, TypeOK
    <3>2. x \in Here(op[q].user)
      BY <2>1, <3>1 DEF Here
    <3> QED
      BY <2>1, <3>1, <3>2 DEF MembersInv, NewcomersAreRaced
  <2> QED
    BY <2>2, <2>3
<1>10. AlwaysAnOwner'
  BY <1>1 DEF MembersInv, AlwaysAnOwner, AnotherOwnerIsHeld, Login, NewSession,
      LeavingAlready, End, Released, NoOp, Owners, TypeOK, Ops
<1>11. OnlyRacesLeaveSessions'
  <2>1. session'[s] = [user |-> op[t].user, org |-> op[t].to]
    BY <1>1 DEF Login, NewSession, TypeOK
  <2>2. op[t].to = "here" /\ role[op[t].user] = "none" => raced'[s]
    BY <1>1 DEF Login, NewSession, TypeOK
  <2>3. role' = role /\ \A x \in Sessions \ {s} : session'[x] = session[x] /\ raced'[x] = raced[x]
    BY <1>1 DEF Login, NewSession, TypeOK
  <2>4. ASSUME NEW x \in Sessions, session'[x] # Nobody, session'[x].org = "here",
               role'[session'[x].user] = "none"
        PROVE  raced'[x]
    <3>1. CASE x = s
      BY <2>1, <2>2, <2>3, <2>4, <3>1
    <3>2. CASE x # s
      BY <2>3, <2>4, <3>2 DEF MembersInv, OnlyRacesLeaveSessions
    <3> QED
      BY <3>1, <3>2
  <2> QED
    BY <2>4 DEF OnlyRacesLeaveSessions
<1> QED
  BY <1>1, <1>2, <1>3, <1>4, <1>5, <1>6, <1>7, <1>8, <1>9, <1>10, <1>11 DEF MembersInv

LEMMA AskSwitchKeeps == ASSUME MembersInv, NEW t \in Requests, NEW s \in Sessions, NEW org \in {"here", "away"}, AskSwitch(t, s, org) PROVE MembersInv'
<1>1. TypeOK /\ TypeOK'
  BY DEF MembersInv, TypeOK, Ops, AskSwitch, Begin
<1>2. StepFitsKind'
  BY <1>1 DEF MembersInv, StepFitsKind, AskSwitch, Begin, Deciding, TypeOK, Ops
<1>3. TargetIsHeld'
  BY <1>1 DEF MembersInv, TargetIsHeld, StepFitsKind, AskSwitch, Begin, Deciding, TypeOK,
      Ops
<1>4. AnotherOwnerIsHeld'
  BY <1>1 DEF MembersInv, AnotherOwnerIsHeld, TargetIsHeld, AskSwitch, Begin, Deciding,
      TypeOK, Ops
<1>5. RefusedWhenLocked'
  BY <1>1 DEF MembersInv, RefusedWhenLocked, TargetIsHeld, StepFitsKind, AskSwitch, Begin,
      Deciding, TypeOK, Ops
<1>6. MovedIsLocked'
  BY <1>1 DEF MembersInv, MovedIsLocked, DoomedAreLocked, StepFitsKind, AskSwitch, Begin,
      Deciding, TypeOK, Ops
<1>7. MoverKnowsTheUser'
  BY <1>1 DEF MembersInv, MoverKnowsTheUser, StepFitsKind, AskSwitch, Begin, Deciding,
      TypeOK, Ops
<1>8. DoomedAreLocked'
  BY <1>1 DEF MembersInv, DoomedAreLocked, AskSwitch, Begin, TypeOK, Ops
<1>9. NewcomersAreRaced'
  BY <1>1 DEF MembersInv, NewcomersAreRaced, MoverKnowsTheUser, TargetIsHeld,
      DoomedAreLocked, MovedIsLocked, StepFitsKind, AskSwitch, Begin, Here, Deciding, TypeOK,
      Ops
<1>10. AlwaysAnOwner'
  BY <1>1 DEF MembersInv, AlwaysAnOwner, AnotherOwnerIsHeld, AskSwitch, Begin, Owners,
      TypeOK, Ops
<1>11. OnlyRacesLeaveSessions'
  BY <1>1 DEF MembersInv, OnlyRacesLeaveSessions, NewcomersAreRaced, StepFitsKind,
      MoverKnowsTheUser, MovedIsLocked, AskSwitch, Begin, Here, Deciding, TypeOK, Ops
<1> QED
  BY <1>1, <1>2, <1>3, <1>4, <1>5, <1>6, <1>7, <1>8, <1>9, <1>10, <1>11 DEF MembersInv

LEMMA MoveKeeps == ASSUME MembersInv, NEW t \in Requests, Move(t) PROVE MembersInv'
<1>1. TypeOK /\ TypeOK'
  BY DEF MembersInv, TypeOK, Ops, Move, Goto, End, Released, NoOp
<1>2. StepFitsKind'
  BY <1>1 DEF MembersInv, StepFitsKind, Move, Goto, End, Released, NoOp, Deciding, TypeOK,
      Ops
<1>3. TargetIsHeld'
  BY <1>1 DEF MembersInv, TargetIsHeld, StepFitsKind, Move, Goto, End, Released, NoOp,
      Deciding, TypeOK, Ops
<1>4. AnotherOwnerIsHeld'
  BY <1>1 DEF MembersInv, AnotherOwnerIsHeld, TargetIsHeld, Move, Goto, End, Released,
      NoOp, Deciding, TypeOK, Ops
<1>5. RefusedWhenLocked'
  BY <1>1 DEF MembersInv, RefusedWhenLocked, TargetIsHeld, StepFitsKind, Move, Goto, End,
      Released, NoOp, Deciding, TypeOK, Ops
<1>6. MovedIsLocked'
  BY <1>1 DEF MembersInv, MovedIsLocked, DoomedAreLocked, StepFitsKind, Move, Goto, End,
      Released, NoOp, Deciding, TypeOK, Ops
<1>7. MoverKnowsTheUser'
  BY <1>1 DEF MembersInv, MoverKnowsTheUser, StepFitsKind, Move, Goto, End, Released,
      NoOp, Deciding, TypeOK, Ops
<1>8. DoomedAreLocked'
  BY <1>1 DEF MembersInv, DoomedAreLocked, Move, Goto, End, Released, NoOp, TypeOK, Ops
<1>9. NewcomersAreRaced'
  BY <1>1 DEF MembersInv, NewcomersAreRaced, MoverKnowsTheUser, TargetIsHeld,
      DoomedAreLocked, MovedIsLocked, StepFitsKind, Move, Goto, End, Released, NoOp, Here,
      Deciding, TypeOK, Ops
<1>10. AlwaysAnOwner'
  BY <1>1 DEF MembersInv, AlwaysAnOwner, AnotherOwnerIsHeld, Move, Goto, End, Released,
      NoOp, Owners, TypeOK, Ops
<1>11. OnlyRacesLeaveSessions'
  BY <1>1 DEF MembersInv, OnlyRacesLeaveSessions, NewcomersAreRaced, StepFitsKind,
      MoverKnowsTheUser, MovedIsLocked, Move, Goto, End, Released, NoOp, Here, Deciding,
      TypeOK, Ops
<1> QED
  BY <1>1, <1>2, <1>3, <1>4, <1>5, <1>6, <1>7, <1>8, <1>9, <1>10, <1>11 DEF MembersInv

LEMMA CommitSwitchKeeps == ASSUME MembersInv, NEW t \in Requests, CommitSwitch(t) PROVE MembersInv'
<1>1. TypeOK /\ TypeOK'
  <2>1. TypeOK
    BY DEF MembersInv
  <2>2. op[t].to \in {"here", "away"} /\ op[t].of \in Sessions
    BY <2>1 DEF TypeOK, Ops, NoOp, CommitSwitch, MembersInv, StepFitsKind
  <2>3. session[op[t].of] \in [user : Users, org : {"here", "away"}]
    BY <2>1, <2>2 DEF TypeOK, CommitSwitch, MembersInv, MovedIsLocked
  <2>4. session' \in [Sessions -> [user : Users, org : {"here", "away"}] \cup {Nobody}]
    BY <2>1, <2>2, <2>3 DEF CommitSwitch, TypeOK
  <2>5. raced' \in [Sessions -> BOOLEAN]
    BY <2>1 DEF CommitSwitch, TypeOK
  <2> QED
    BY <2>1, <2>4, <2>5, EndIsTyped DEF CommitSwitch, TypeOK
<1>2. StepFitsKind'
  BY <1>1 DEF MembersInv, StepFitsKind, CommitSwitch, StillMember, LeavingAlready, End,
      Released, NoOp, Deciding, TypeOK, Ops
<1>3. TargetIsHeld'
  BY <1>1 DEF MembersInv, TargetIsHeld, StepFitsKind, CommitSwitch, StillMember,
      LeavingAlready, End, Released, NoOp, Deciding, TypeOK, Ops
<1>4. AnotherOwnerIsHeld'
  BY <1>1 DEF MembersInv, AnotherOwnerIsHeld, TargetIsHeld, CommitSwitch, StillMember,
      LeavingAlready, End, Released, NoOp, Deciding, TypeOK, Ops
<1>5. RefusedWhenLocked'
  BY <1>1 DEF MembersInv, RefusedWhenLocked, TargetIsHeld, StepFitsKind, CommitSwitch,
      StillMember, LeavingAlready, End, Released, NoOp, Deciding, TypeOK, Ops
<1>6. MovedIsLocked'
  BY <1>1 DEF MembersInv, MovedIsLocked, DoomedAreLocked, StepFitsKind, CommitSwitch,
      StillMember, LeavingAlready, End, Released, NoOp, Deciding, TypeOK, Ops
<1>7. MoverKnowsTheUser'
  <2> SUFFICES ASSUME NEW q \in Requests, pc'[q] \in {"switch", "moved"}, session'[op'[q].of] # Nobody
               PROVE  session'[op'[q].of].user = op'[q].user
    BY DEF MoverKnowsTheUser
  <2>1. q # t /\ pc[q] \in {"switch", "moved"} /\ op'[q] = op[q]
    BY <1>1 DEF CommitSwitch, End, TypeOK
  <2>2. op[q].of \in Sessions /\ op[t].of \in Sessions
    BY <1>1, <2>1 DEF MembersInv, StepFitsKind, TypeOK, Ops, NoOp, CommitSwitch
  <2>3. session[op[t].of] \in [user : Users, org : {"here", "away"}]
    BY <1>1, <2>2 DEF TypeOK, CommitSwitch, MembersInv, MovedIsLocked
  <2>4. \/ session'[op[q].of] = session[op[q].of]
        \/ op[q].of = op[t].of /\ session'[op[q].of] = [session[op[t].of] EXCEPT !.org = op[t].to]
    BY <1>1, <2>2 DEF CommitSwitch, TypeOK
  <2>5. session[op[q].of] # Nobody /\ session'[op[q].of].user = session[op[q].of].user
    <3>1. CASE session'[op[q].of] = session[op[q].of]
      BY <2>1, <3>1
    <3>2. CASE op[q].of = op[t].of /\ session'[op[q].of] = [session[op[t].of] EXCEPT !.org = op[t].to]
      BY <2>3, <3>2 DEF CommitSwitch, MembersInv, MovedIsLocked
    <3> QED
      BY <2>4, <3>1, <3>2
  <2> QED
    BY <2>1, <2>5 DEF MembersInv, MoverKnowsTheUser
<1>8. DoomedAreLocked'
  BY <1>1 DEF MembersInv, DoomedAreLocked, CommitSwitch, StillMember, LeavingAlready, End,
      Released, NoOp, TypeOK, Ops
<1>9. NewcomersAreRaced'
  BY <1>1 DEF MembersInv, NewcomersAreRaced, MoverKnowsTheUser, TargetIsHeld,
      DoomedAreLocked, MovedIsLocked, StepFitsKind, CommitSwitch, StillMember, LeavingAlready,
      End, Released, NoOp, Here, Deciding, TypeOK, Ops
<1>10. AlwaysAnOwner'
  BY <1>1 DEF MembersInv, AlwaysAnOwner, AnotherOwnerIsHeld, CommitSwitch, StillMember,
      LeavingAlready, End, Released, NoOp, Owners, TypeOK, Ops
<1>11. OnlyRacesLeaveSessions'
  BY <1>1 DEF MembersInv, OnlyRacesLeaveSessions, NewcomersAreRaced, StepFitsKind,
      MoverKnowsTheUser, MovedIsLocked, CommitSwitch, StillMember, LeavingAlready, End,
      Released, NoOp, Here, Deciding, TypeOK, Ops
<1> QED
  BY <1>1, <1>2, <1>3, <1>4, <1>5, <1>6, <1>7, <1>8, <1>9, <1>10, <1>11 DEF MembersInv

LEMMA LogoutKeeps == ASSUME MembersInv, NEW s \in Sessions, Logout(s) PROVE MembersInv'
<1>1. TypeOK /\ TypeOK'
  BY DEF MembersInv, TypeOK, Ops, Logout
<1>2. StepFitsKind'
  BY <1>1 DEF MembersInv, StepFitsKind, Logout, Deciding, TypeOK, Ops
<1>3. TargetIsHeld'
  BY <1>1 DEF MembersInv, TargetIsHeld, StepFitsKind, Logout, Deciding, TypeOK, Ops
<1>4. AnotherOwnerIsHeld'
  BY <1>1 DEF MembersInv, AnotherOwnerIsHeld, TargetIsHeld, Logout, Deciding, TypeOK, Ops
<1>5. RefusedWhenLocked'
  BY <1>1 DEF MembersInv, RefusedWhenLocked, TargetIsHeld, StepFitsKind, Logout, Deciding,
      TypeOK, Ops
<1>6. MovedIsLocked'
  BY <1>1 DEF MembersInv, MovedIsLocked, DoomedAreLocked, StepFitsKind, Logout, Deciding,
      TypeOK, Ops
<1>7. MoverKnowsTheUser'
  BY <1>1 DEF MembersInv, MoverKnowsTheUser, StepFitsKind, Logout, Deciding, TypeOK, Ops
<1>8. DoomedAreLocked'
  BY <1>1 DEF MembersInv, DoomedAreLocked, Logout, TypeOK, Ops
<1>9. NewcomersAreRaced'
  BY <1>1 DEF MembersInv, NewcomersAreRaced, MoverKnowsTheUser, TargetIsHeld,
      DoomedAreLocked, MovedIsLocked, StepFitsKind, Logout, Here, Deciding, TypeOK, Ops
<1>10. AlwaysAnOwner'
  BY <1>1 DEF MembersInv, AlwaysAnOwner, AnotherOwnerIsHeld, Logout, Owners, TypeOK, Ops
<1>11. OnlyRacesLeaveSessions'
  BY <1>1 DEF MembersInv, OnlyRacesLeaveSessions, NewcomersAreRaced, StepFitsKind,
      MoverKnowsTheUser, MovedIsLocked, Logout, Here, Deciding, TypeOK, Ops
<1> QED
  BY <1>1, <1>2, <1>3, <1>4, <1>5, <1>6, <1>7, <1>8, <1>9, <1>10, <1>11 DEF MembersInv

LEMMA JoinKeeps == ASSUME MembersInv, NEW u \in Users, NEW r \in Roles, NEW s \in Sessions, Join(u, r, s) PROVE MembersInv'
<1>1. TypeOK /\ TypeOK'
  BY DEF MembersInv, TypeOK, Ops, Join, NewSession
<1>2. StepFitsKind'
  BY <1>1 DEF MembersInv, StepFitsKind, Join, NewSession, Deciding, TypeOK, Ops
<1>3. TargetIsHeld'
  BY <1>1 DEF MembersInv, TargetIsHeld, StepFitsKind, Join, NewSession, Deciding, TypeOK,
      Ops
<1>4. AnotherOwnerIsHeld'
  BY <1>1 DEF MembersInv, AnotherOwnerIsHeld, TargetIsHeld, Join, NewSession, Deciding,
      TypeOK, Ops
<1>5. RefusedWhenLocked'
  BY <1>1 DEF MembersInv, RefusedWhenLocked, TargetIsHeld, StepFitsKind, Join, NewSession,
      Deciding, TypeOK, Ops
<1>6. MovedIsLocked'
  BY <1>1 DEF MembersInv, MovedIsLocked, DoomedAreLocked, StepFitsKind, Join, NewSession,
      Deciding, TypeOK, Ops
<1>7. MoverKnowsTheUser'
  BY <1>1 DEF MembersInv, MoverKnowsTheUser, StepFitsKind, Join, NewSession, Deciding,
      TypeOK, Ops
<1>8. DoomedAreLocked'
  BY <1>1 DEF MembersInv, DoomedAreLocked, Join, NewSession, TypeOK, Ops
<1>9. NewcomersAreRaced'
  BY <1>1 DEF MembersInv, NewcomersAreRaced, MoverKnowsTheUser, TargetIsHeld,
      DoomedAreLocked, MovedIsLocked, StepFitsKind, Join, NewSession, Here, Deciding, TypeOK,
      Ops
<1>10. AlwaysAnOwner'
  BY <1>1 DEF MembersInv, AlwaysAnOwner, AnotherOwnerIsHeld, Join, NewSession, Owners,
      TypeOK, Ops
<1>11. OnlyRacesLeaveSessions'
  BY <1>1 DEF MembersInv, OnlyRacesLeaveSessions, NewcomersAreRaced, StepFitsKind,
      MoverKnowsTheUser, MovedIsLocked, Join, NewSession, Here, Deciding, TypeOK, Ops
<1> QED
  BY <1>1, <1>2, <1>3, <1>4, <1>5, <1>6, <1>7, <1>8, <1>9, <1>10, <1>11 DEF MembersInv

-----------------------------------------------------------------------------
LEMMA StepKeeps == ASSUME MembersInv, [Next]_vars PROVE MembersInv'
<1>1. ASSUME NEW t \in Requests, Ask(t) PROVE MembersInv'
  BY <1>1, AskRemovalKeeps, AskRoleKeeps, AskLoginKeeps, AskSwitchKeeps DEF Ask
<1>2. ASSUME NEW t \in Requests, Step(t) PROVE MembersInv'
  BY <1>2, LockMemberKeeps, CheckOwnersKeeps, LockOwnerKeeps, CommitRoleKeeps, RevokeKeeps,
     CommitRemovalKeeps, AbortKeeps, LoginKeeps, MoveKeeps, CommitSwitchKeeps DEF Step
<1>3. ASSUME NEW s \in Sessions, Logout(s) PROVE MembersInv'
  BY <1>3, LogoutKeeps
<1>4. ASSUME NEW u \in Users, NEW r \in Roles, NEW s \in Sessions, Join(u, r, s) PROVE MembersInv'
  BY <1>4, JoinKeeps
<1>5. CASE UNCHANGED vars
  BY <1>5 DEF vars, MembersInv, TypeOK, StepFitsKind, TargetIsHeld, AnotherOwnerIsHeld,
      RefusedWhenLocked, MovedIsLocked, MoverKnowsTheUser, DoomedAreLocked, NewcomersAreRaced,
      Here, AlwaysAnOwner, Owners, OnlyRacesLeaveSessions
<1> QED
  BY <1>1, <1>2, <1>3, <1>4, <1>5 DEF Next

(* Every interleaving of requests keeps the invariant.                      *)
THEOREM MembersAreSound == Spec => []MembersInv
BY InitInv, StepKeeps, PTL DEF Spec

(* The tables and the requests stay within their types.                     *)
THEOREM TypeCorrect == Spec => []TypeOK
<1>1. MembersInv => TypeOK
  BY DEF MembersInv
<1> QED
  BY <1>1, MembersAreSound, PTL

(* The last owner can never be demoted or removed, and none leaves last.    *)
THEOREM OwnerStays == Spec => []AlwaysAnOwner
<1>1. MembersInv => AlwaysAnOwner
  BY DEF MembersInv
<1> QED
  BY <1>1, MembersAreSound, PTL

(* A removed member keeps no session, but one that was made or moved while  *)
(* the removal was under way.                                               *)
THEOREM SessionsGoWithMembership == Spec => []OnlyRacesLeaveSessions
<1>1. MembersInv => OnlyRacesLeaveSessions
  BY DEF MembersInv
<1> QED
  BY <1>1, MembersAreSound, PTL

-----------------------------------------------------------------------------
(* What a step must be if it makes u an owner, or an owner no more.         *)
DecidedByAnOwner(u) ==
  (role[u] = "owner") # (role'[u] = "owner") =>
    \E t \in Requests :
      /\ pc[t] \in {"writing", "revoked"} /\ pc'[t] = "idle" /\ op[t].user = u
      /\ op[t].by = "owner" \/ (op[t].kind = "remove" /\ op[t].self)

LEMMA DecisionStep == ASSUME MembersInv, [Next]_vars, NEW u \in Users PROVE DecidedByAnOwner(u)
<1>0. TypeOK
  BY DEF MembersInv
<1>1. ASSUME role'[u] = role[u] PROVE DecidedByAnOwner(u)
  BY <1>1 DEF DecidedByAnOwner
<1>2. ASSUME NEW t \in Requests, CommitRole(t) PROVE DecidedByAnOwner(u)
  <2>1. op[t].user # u => role'[u] = role[u]
    BY <1>0, <1>2 DEF CommitRole, TypeOK
  <2>2. op[t].user = u => role'[u] = op[t].to /\ pc'[t] = "idle"
    BY <1>0, <1>2 DEF CommitRole, End, TypeOK
  <2>3. op[t].by # "owner" => op[t].to # "owner" /\ role[op[t].user] # "owner"
    BY <1>2 DEF CommitRole, MembersInv, RefusedWhenLocked, Deciding
  <2> QED
    BY <1>1, <1>2, <2>1, <2>2, <2>3 DEF DecidedByAnOwner, CommitRole
<1>3. ASSUME NEW t \in Requests, CommitRemoval(t) PROVE DecidedByAnOwner(u)
  <2>1. op[t].user # u => role'[u] = role[u]
    BY <1>0, <1>3 DEF CommitRemoval, TypeOK
  <2>2. op[t].user = u => role'[u] = "none" /\ pc'[t] = "idle"
    BY <1>0, <1>3 DEF CommitRemoval, End, TypeOK
  <2>3. op[t].by # "owner" /\ role[op[t].user] = "owner" => op[t].kind = "remove" /\ op[t].self
    BY <1>3 DEF CommitRemoval, MembersInv, RefusedWhenLocked, Deciding
  <2> QED
    BY <1>1, <1>3, <2>1, <2>2, <2>3 DEF DecidedByAnOwner, CommitRemoval
<1>4. ASSUME NEW v \in Users, NEW r \in Roles, NEW s \in Sessions, Join(v, r, s)
      PROVE  DecidedByAnOwner(u)
  BY <1>0, <1>4 DEF Join, TypeOK, DecidedByAnOwner
<1>5. CASE role' = role
  BY <1>1, <1>5
<1>6. \/ role' = role
      \/ \E t \in Requests : CommitRole(t) \/ CommitRemoval(t)
      \/ \E v \in Users, r \in Roles, s \in Sessions : Join(v, r, s)
  <2>1. ASSUME NEW t \in Requests, Ask(t) PROVE role' = role
    BY <2>1 DEF Ask, AskRole, AskRemoval, AskLogin, AskSwitch
  <2>2. ASSUME NEW t \in Requests, Step(t), ~CommitRole(t), ~CommitRemoval(t) PROVE role' = role
    <3>1. CASE LockMember(t) \/ CheckOwners(t) \/ \E v \in Users : LockOwner(t, v)
      BY <3>1 DEF LockMember, CheckOwners, LockOwner
    <3>2. CASE Revoke(t) \/ Abort(t) \/ Move(t) \/ CommitSwitch(t)
      BY <3>2 DEF Revoke, Abort, Move, CommitSwitch
    <3>3. CASE \E s \in Sessions : Login(t, s)
      BY <3>3 DEF Login
    <3> QED
      BY <2>2, <3>1, <3>2, <3>3 DEF Step
  <2>3. ASSUME NEW s \in Sessions, Logout(s) PROVE role' = role
    BY <2>3 DEF Logout
  <2>4. CASE UNCHANGED vars
    BY <2>4 DEF vars
  <2> QED
    BY <2>1, <2>2, <2>3, <2>4 DEF Next
<1> QED
  BY <1>2, <1>3, <1>4, <1>5, <1>6

(* Nobody stops being an owner, or becomes one, but by a request that an    *)
(* owner sent or by leaving, even if the requester was demoted meanwhile.   *)
THEOREM OwnersDecide == Spec => OwnersDecideOnOwners
<1>1. MembersInv /\ [Next]_vars => [\A u \in Users : DecidedByAnOwner(u)]_vars
  BY DecisionStep
<1> QED
  BY <1>1, MembersAreSound, PTL DEF Spec, OwnersDecideOnOwners, DecidedByAnOwner

-----------------------------------------------------------------------------
(* Accounts and members together.                                           *)

LEMMA TeamStep ==
  ASSUME TeamNext \/ UNCHANGED <<vars, accountVars, part>>
  PROVE  [Next]_vars /\ [Accounts!Next]_(Accounts!vars)
BY DEF TeamNext, accountVars, Accounts!vars

(* Owners decide on owners; a settled invite stays so, joining verifies an  *)
(* address, once, and a second open invite was a revived one: for any       *)
(* users, addresses, sessions, invites and requests.                        *)
THEOREM TeamDecisionsHold == TeamSpec => DecisionsHold
<1>1. TeamSpec => Spec /\ Accounts!Spec
  <2>1. TeamInit => Init /\ Accounts!Init
    BY DEF TeamInit
  <2>2. [TeamNext]_<<vars, accountVars, part>> => [Next]_vars /\ [Accounts!Next]_(Accounts!vars)
    BY TeamStep
  <2> QED
    BY <2>1, <2>2, PTL DEF TeamSpec, Spec, Accounts!Spec
<1>2. Accounts!AccountsInv =>
        Accounts!JoiningVerifies /\ Accounts!VerifiedOnce /\ Accounts!SecondInviteWasRevived
  BY DEF Accounts!AccountsInv
<1> QED
  BY <1>1, <1>2, OwnersDecide, AccountsAreSound, SettledStaysSettled, PTL DEF DecisionsHold

===================================================================================
