----------------------------- MODULE MCAuditChain -----------------------------
(***************************************************************************)
(* Instances of AuditChain for TLC.  The programs are those of services of *)
(* apps/api; a hash is the pair of what was hashed, so it never collides.  *)
(***************************************************************************)
EXTENDS AuditChain, TLC

CONSTANTS o1, o2, r1, r2, r3, r4, r5, r6

Hash(prev, data) == <<prev, data>>

S(op, o) == [op |-> op, org |-> o]

(* ScreeningsService.screen; wallets, transfers and reports are alike.      *)
(* Mutant: record is not given the transaction and runs after it. *)
ScreenRecordsLater(o) ==
  <<S("write", o), S("commit", o), S("record", o), S("write", o), S("commit", o)>>
Screen(o) == <<S("write", o), S("record", o), S("write", o), S("commit", o)>>

(* InvitesService.create; OrgService locks first too.                       *)
(* Mutant: without the SELECT ... FOR UPDATE. *)
InviteUnlocked(o) == <<S("write", o), S("record", o), S("commit", o)>>
Invite(o) == <<S("lock", o), S("write", o), S("record", o), S("commit", o)>>

(* AuthService.resetPassword of a user with two memberships.                *)
ResetIn(o, p) == <<S("update", o), S("record", o), S("record", p), S("commit", o)>>

(* AuthService.login: the session is committed before the event.            *)
Login(o) == <<S("write", o), S("commit", o), S("record", o), S("commit", o)>>

TwoOrgs == (r1 :> ResetIn(o1, o2)) @@ (r2 :> ResetIn(o2, o1)) @@ (r3 :> Screen(o1))
             @@ (r4 :> Screen(o1)) @@ (r5 :> Invite(o1)) @@ (r6 :> Login(o2))
Meetings == {{r1, r2, r3, r5}, {r1, r2, r3, r6}, {r1, r3, r4, r5, r6}}
JustLogin == {r6}
JustInvite == {r5}

=============================================================================
