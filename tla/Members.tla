-------------------------------- MODULE Members --------------------------------
(***************************************************************************)
(* Memberships of one org and the sessions that point at it (MembersService *)
(* of apps/api/src/team, SessionsService and AuthService of src/auth).     *)
(*                                                                         *)
(* Simplifications.                                                        *)
(*   - "here" is the org, "away" any other one its members belong to.      *)
(*   - A transaction is split where another one can come in between: at    *)
(*     its row locks and before its commit.  Its audit event locks the org  *)
(*     row as the last thing before the commit (AuditChain).               *)
(*   - Expiry of a session is a logout.                                     *)
(***************************************************************************)
EXTENDS FiniteSets, Integers

CONSTANTS
  Users, Sessions,
  Requests,   (* requests that may be under way at once                    *)
  Roles,      (* "viewer", "analyst", "admin", "owner" or some of them      *)
  Nobody      (* no request, no session                                     *)

ASSUME MembersAssumption ==
  /\ Nobody \notin Requests /\ IsFiniteSet(Users)
  /\ "owner" \in Roles /\ "none" \notin Roles

VARIABLES
  role,      (* role[u]: the committed membership row of u, or "none"       *)
  held,      (* held[u]: the request that has locked that row               *)
  pc, op,    (* of each request                                             *)
  left,      (* left[t]: owner rows that ownerCount has still to lock       *)
  doomed,    (* doomed[t]: sessions that t has deleted and not committed    *)
  session,   (* the sessions table                                          *)
  moving,    (* moving[s]: the request that has locked the row of s         *)
  raced      (* history: s was made or moved while its member was removed   *)

lockVars    == <<held, left, doomed, moving>>
sessionVars == <<session, raced>>
vars == <<role, pc, op, lockVars, sessionVars>>

Rank == [viewer |-> 0, analyst |-> 1, admin |-> 2, owner |-> 3]
RoleAtLeast(r, minimum) == r # "none" /\ Rank[r] >= Rank[minimum]

Owners == {u \in Users : role[u] = "owner"}
Here(u) == {s \in Sessions : session[s] # Nobody /\ session[s] = [user |-> u, org |-> "here"]}
LeavingAlready(u) == \E t \in Requests : pc[t] = "revoked" /\ op[t].user = u
NoOp == [kind |-> "none"]

(* signup: an org begins with one owner and that owner's session.           *)
Init ==
  /\ \E u \in Users, s \in Sessions :
       /\ role = [v \in Users |-> IF v = u THEN "owner" ELSE "none"]
       /\ session = [x \in Sessions |-> IF x = s THEN [user |-> u, org |-> "here"] ELSE Nobody]
  /\ held = [u \in Users |-> Nobody]
  /\ pc = [t \in Requests |-> "idle"]
  /\ op = [t \in Requests |-> NoOp]
  /\ left = [t \in Requests |-> {}]
  /\ doomed = [t \in Requests |-> {}]
  /\ moving = [s \in Sessions |-> Nobody]
  /\ raced = [s \in Sessions |-> FALSE]

Begin(t, where, o) ==
  /\ pc[t] = "idle"
  /\ pc' = [pc EXCEPT ![t] = where]
  /\ op' = [op EXCEPT ![t] = o]

Goto(t, where) == pc' = [pc EXCEPT ![t] = where] /\ UNCHANGED op

(* The end of a transaction, or of the request before it.                   *)
Released(lock, t) == [x \in DOMAIN lock |-> IF lock[x] = t THEN Nobody ELSE lock[x]]
End(t) ==
  /\ pc' = [pc EXCEPT ![t] = "idle"]
  /\ op' = [op EXCEPT ![t] = NoOp]
  /\ left' = [left EXCEPT ![t] = {}]
  /\ doomed' = [doomed EXCEPT ![t] = {}]
  /\ held' = Released(held, t)
  /\ moving' = Released(moving, t)

-----------------------------------------------------------------------------
(* PATCH and DELETE /org/members/:userId.  The guard reads the requester's  *)
(* role before the transaction.                                             *)
AskRole(t, p, u, r) ==
  /\ RoleAtLeast(role[p], "admin")
  /\ Begin(t, "asked", [kind |-> "set", by |-> role[p], self |-> p = u, user |-> u, to |-> r])
  /\ UNCHANGED <<role, lockVars, sessionVars>>

AskRemoval(t, p, u) ==
  /\ RoleAtLeast(role[p], IF p = u THEN "viewer" ELSE "admin")
  /\ Begin(t, "asked", [kind |-> "remove", by |-> role[p], self |-> p = u, user |-> u, to |-> "none"])
  /\ UNCHANGED <<role, lockVars, sessionVars>>

(* 404, nothing to do, or "Only owners can ...".                            *)
Refused(o, r) ==
  \/ r \in {"none", o.to}
  \/ /\ o.by # "owner"
     /\ (r = "owner" /\ ~(o.kind = "remove" /\ o.self)) \/ o.to = "owner"

LockMember(t) ==
  LET u == op[t].user IN
  /\ pc[t] = "asked"
  /\ held[u] = Nobody
  /\ IF Refused(op[t], role[u])
       THEN End(t)
       ELSE /\ held' = [held EXCEPT ![u] = t]
            /\ left' = [left EXCEPT ![t] = IF role[u] = "owner" THEN Owners ELSE {}]
            /\ Goto(t, IF role[u] = "owner" THEN "counting" ELSE "writing")
            /\ UNCHANGED <<doomed, moving>>
  /\ UNCHANGED <<role, sessionVars>>

(* ownerCount: SELECT ... WHERE role = 'owner' FOR UPDATE waits for a row   *)
(* that another request holds and then looks at what it has become.         *)
NeverWaits(v, t) == FALSE   (* mutant: a plain SELECT *)
Unlockable(v, t) == held[v] \notin {Nobody, t}

LockOwner(t, v) ==
  /\ pc[t] = "counting"
  /\ v \in left[t]
  /\ ~Unlockable(v, t)
  /\ left' = [left EXCEPT ![t] = @ \ {v}]
  /\ held' = IF role[v] = "none" THEN held ELSE [held EXCEPT ![v] = t]
  /\ UNCHANGED <<role, pc, op, doomed, moving, sessionVars>>

OwnerCount(t) == Cardinality({v \in Owners : held[v] = t})
LastOwner(t) == OwnerCount(t) <= 1

CheckOwners(t) ==
  /\ pc[t] = "counting"
  /\ left[t] = {}
  /\ IF LastOwner(t) THEN End(t) ELSE Goto(t, "writing") /\ UNCHANGED lockVars
  /\ UNCHANGED <<role, sessionVars>>

CommitRole(t) ==
  /\ pc[t] = "writing" /\ op[t].kind = "set"
  /\ role' = [role EXCEPT ![op[t].user] = op[t].to]
  /\ End(t)
  /\ UNCHANGED sessionVars

(* revokeForOrg, which waits for sessions that are being moved.             *)
NoneRevoked(u) == {}   (* mutant: the sessions are left to expire *)
Revocable(u) == Here(u)

Revoke(t) ==
  LET u == op[t].user IN
  /\ pc[t] = "writing" /\ op[t].kind = "remove"
  /\ \A s \in Here(u) : moving[s] = Nobody
  /\ doomed' = [doomed EXCEPT ![t] = Revocable(u)]
  /\ moving' = [s \in Sessions |-> IF s \in Revocable(u) THEN t ELSE moving[s]]
  /\ Goto(t, "revoked")
  /\ UNCHANGED <<role, held, left, sessionVars>>

CommitRemoval(t) ==
  /\ pc[t] = "revoked"
  /\ role' = [role EXCEPT ![op[t].user] = "none"]
  /\ session' = [s \in Sessions |-> IF s \in doomed[t] THEN Nobody ELSE session[s]]
  /\ raced' = [s \in Sessions |-> raced[s] /\ s \notin doomed[t]]
  /\ End(t)

(* A deadlock, or a connection that is lost. *)
Abort(t) ==
  /\ pc[t] # "idle"
  /\ End(t)
  /\ UNCHANGED <<role, sessionVars>>

-----------------------------------------------------------------------------
(* A session id is never used twice: not while a request still names it.   *)
NewSession(s, u, org, late) ==
  /\ session[s] = Nobody
  /\ \A t \in Requests : op[t].kind = "switch" => op[t].of # s
  /\ session' = [session EXCEPT ![s] = [user |-> u, org |-> org]]
  /\ raced' = [raced EXCEPT ![s] = late]

(* login: the membership is read, the session inserted, each on its own.    *)
AskLogin(t, u, org) ==
  /\ org = "here" => role[u] # "none"
  /\ Begin(t, "login", [kind |-> "login", user |-> u, to |-> org])
  /\ UNCHANGED <<role, lockVars, sessionVars>>

Login(t, s) ==
  LET u == op[t].user IN
  /\ pc[t] = "login"
  /\ NewSession(s, u, op[t].to, op[t].to = "here" /\ (role[u] = "none" \/ LeavingAlready(u)))
  /\ End(t)
  /\ UNCHANGED role

(* switchOrg: the membership is read; a transaction moves the session,      *)
(* records, and me() answers 404 if the membership has gone.                *)
AskSwitch(t, s, org) ==
  /\ session[s] # Nobody /\ session[s].org # org
  /\ org = "here" => role[session[s].user] # "none"
  /\ Begin(t, "switch", [kind |-> "switch", user |-> session[s].user, to |-> org, of |-> s])
  /\ UNCHANGED <<role, lockVars, sessionVars>>

Move(t) ==
  /\ pc[t] = "switch"
  /\ moving[op[t].of] = Nobody
  /\ IF session[op[t].of] = Nobody
       THEN End(t)
       ELSE /\ moving' = [moving EXCEPT ![op[t].of] = t]
            /\ Goto(t, "moved")
            /\ UNCHANGED <<held, left, doomed>>
  /\ UNCHANGED <<role, sessionVars>>

StillMember(u, org) == org = "here" => role[u] # "none"

CommitSwitch(t) ==
  LET u == op[t].user  s == op[t].of IN
  /\ pc[t] = "moved"
  /\ IF StillMember(u, op[t].to)
       THEN /\ session' = [session EXCEPT ![s].org = op[t].to]
            /\ raced' = [raced EXCEPT ![s] = op[t].to = "here" /\ LeavingAlready(u)]
       ELSE UNCHANGED sessionVars
  /\ End(t)
  /\ UNCHANGED role

Logout(s) ==
  /\ session[s] # Nobody
  /\ moving[s] = Nobody
  /\ session' = [session EXCEPT ![s] = Nobody]
  /\ raced' = [raced EXCEPT ![s] = FALSE]
  /\ UNCHANGED <<role, pc, op, lockVars>>

(* An invite is accepted (Accounts): never as an owner.                     *)
Join(u, r, s) ==
  /\ role[u] = "none"
  /\ r # "owner"
  /\ role' = [role EXCEPT ![u] = r]
  /\ NewSession(s, u, "here", FALSE)
  /\ UNCHANGED <<pc, op, lockVars>>

-----------------------------------------------------------------------------
Step(t) ==
  \/ LockMember(t) \/ CheckOwners(t) \/ (\E v \in Users : LockOwner(t, v))
  \/ CommitRole(t) \/ Revoke(t) \/ CommitRemoval(t) \/ Abort(t)
  \/ (\E s \in Sessions : Login(t, s)) \/ Move(t) \/ CommitSwitch(t)

Ask(t) ==
  \/ \E p, u \in Users : AskRemoval(t, p, u) \/ \E r \in Roles : AskRole(t, p, u, r)
  \/ \E org \in {"here", "away"} :
       \/ \E u \in Users : AskLogin(t, u, org)
       \/ \E s \in Sessions : AskSwitch(t, s, org)

Next ==
  \/ \E t \in Requests : Ask(t) \/ Step(t)
  \/ \E s \in Sessions : Logout(s)
  \/ \E u \in Users, r \in Roles, s \in Sessions : Join(u, r, s)

Spec == Init /\ [][Next]_vars

-----------------------------------------------------------------------------
Ops ==
  {NoOp} \cup [kind : {"set", "remove"}, by : Roles, self : BOOLEAN, user : Users, to : Roles \cup {"none"}]
    \cup [kind : {"login"}, user : Users, to : {"here", "away"}]
    \cup [kind : {"switch"}, user : Users, to : {"here", "away"}, of : Sessions]

TypeOK ==
  /\ role \in [Users -> Roles \cup {"none"}]
  /\ held \in [Users -> Requests \cup {Nobody}]
  /\ pc \in [Requests -> {"idle", "asked", "counting", "writing", "revoked", "login", "switch", "moved"}]
  /\ op \in [Requests -> Ops]
  /\ left \in [Requests -> SUBSET Users]
  /\ doomed \in [Requests -> SUBSET Sessions]
  /\ session \in [Sessions -> [user : Users, org : {"here", "away"}] \cup {Nobody}]
  /\ moving \in [Sessions -> Requests \cup {Nobody}]
  /\ raced \in [Sessions -> BOOLEAN]

(* "The last owner can never be demoted or removed", by no interleaving of  *)
(* demotions, removals and leaves of several owners.                        *)
AlwaysAnOwner == Owners # {}

(* "A removed member loses every session pointed at that org": what is left *)
(* was made or moved by a login or a switch that overlapped the removal.    *)
OnlyRacesLeaveSessions ==
  \A s \in Sessions :
    session[s] # Nobody /\ session[s].org = "here" /\ role[session[s].user] = "none" => raced[s]

(* "Admins can't change owners or make anyone an owner": whoever stops      *)
(* being an owner, or becomes one, does so by a request an owner sent, or   *)
(* left; even if that requester has been demoted since.                     *)
OwnersDecideOnOwners ==
  [][\A u \in Users : (role[u] = "owner") # (role'[u] = "owner") =>
       \E t \in Requests :
         /\ pc[t] \in {"writing", "revoked"} /\ pc'[t] = "idle" /\ op[t].user = u
         /\ op[t].by = "owner" \/ (op[t].kind = "remove" /\ op[t].self)]_vars

-----------------------------------------------------------------------------
(* Why these hold, whatever the requests and however they interleave.       *)
Deciding == {"counting", "writing", "revoked"}

(* A request does what its kind says.                                       *)
StepFitsKind ==
  \A t \in Requests :
    /\ pc[t] \in {"asked"} \cup Deciding =>
         (op[t].kind = "set" /\ op[t].to \in Roles) \/ (op[t].kind = "remove" /\ op[t].to = "none")
    /\ pc[t] = "revoked" => op[t].kind = "remove"
    /\ pc[t] = "login" => op[t].kind = "login"
    /\ pc[t] \in {"switch", "moved"} => op[t].kind = "switch"

(* The row that is decided on is there and locked until the end.            *)
TargetIsHeld ==
  \A t \in Requests : pc[t] \in Deciding => held[op[t].user] = t /\ role[op[t].user] # "none"

(* An owner is demoted or removed only beside another whose row is locked.  *)
AnotherOwnerIsHeld ==
  \A t \in Requests : pc[t] \in {"writing", "revoked"} /\ role[op[t].user] = "owner" =>
    \E v \in Users \ {op[t].user} : role[v] = "owner" /\ held[v] = t

RefusedWhenLocked ==
  \A t \in Requests : pc[t] \in Deciding /\ op[t].by # "owner" =>
    /\ op[t].to # "owner"
    /\ role[op[t].user] = "owner" => op[t].kind = "remove" /\ op[t].self

(* Sessions that are moved or about to be deleted stay where they are.      *)
MovedIsLocked ==
  \A t \in Requests : pc[t] = "moved" => moving[op[t].of] = t /\ session[op[t].of] # Nobody

MoverKnowsTheUser ==
  \A t \in Requests : pc[t] \in {"switch", "moved"} /\ session[op[t].of] # Nobody =>
    session[op[t].of].user = op[t].user

DoomedAreLocked == \A t \in Requests : \A s \in doomed[t] : moving[s] = t /\ pc[t] = "revoked"

(* What a removal has not found came while it was under way.                *)
NewcomersAreRaced ==
  \A t \in Requests : pc[t] = "revoked" => \A s \in Here(op[t].user) \ doomed[t] : raced[s]

MembersInv ==
  /\ TypeOK
  /\ StepFitsKind /\ TargetIsHeld /\ AnotherOwnerIsHeld /\ RefusedWhenLocked
  /\ MovedIsLocked /\ MoverKnowsTheUser /\ DoomedAreLocked /\ NewcomersAreRaced
  /\ AlwaysAnOwner /\ OnlyRacesLeaveSessions

=============================================================================
