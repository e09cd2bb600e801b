----------------------------- MODULE OrgPagesProofs -----------------------------
(***************************************************************************)
(* Proofs about the pages of the dashboard that are about the org itself:  *)
(* each page has an invariant, stated at the end of its module, that holds *)
(* at first, that no step of the page breaks, and that gives what the      *)
(* module promises.  DashboardProofs puts the pages together.              *)
(***************************************************************************)
EXTENDS MCOrgPages, FiniteSetTheorems, TLAPS

-----------------------------------------------------------------------------
(* The members on the team page (TeamPage).                                 *)

LEMMA OwnersAreCounted ==
  ASSUME NEW members
  PROVE  Team!Cardinality(Team!Owners(members)) \in Nat
<1>1. Team!Cardinality(Team!Owners(members)) = Cardinality(Team!Owners(members))
  BY DEF Team!Cardinality, Cardinality
<1>2. Team!Owners(members) \subseteq Members
  BY DEF Team!Owners
<1>3. IsFiniteSet(Team!Owners(members))
  BY <1>2, TeamIsFinite, FS_Subset
<1> QED
  BY <1>1, <1>3, FS_CardinalityType

(* By caches that are up to date the page offers what the API allows, and   *)
(* no less.                                                                 *)
LEMMA UpToDate ==
  ASSUME Team!TeamInv, Team!Known
  PROVE  x2 = x1[Self] /\ x3 = x1
<1>1. Self \in Members
  BY TeamIsFinite
<1> QED
  BY DEF Team!TeamInv, Team!Known, Team!ListSound, Team!MeSound, Team!FetchBrings

LEMMA OffersAreAllowed ==
  ASSUME Team!TeamInv, Team!Known, NEW kind, NEW u \in Members, NEW r \in Team!ROLES \cup {None},
         Team!Offered(kind, u, r)
  PROVE  Team!Allowed(kind, u, r)
<1>1. x2 = x1[Self] /\ x3 = x1
  BY UpToDate
<1>2. Team!Cardinality(Team!Owners(x1)) \in Nat
  BY OwnersAreCounted
<1>3. CASE kind = "role"
  <2>1. /\ x1[u] # None /\ Team!isAdmin(x1[Self]) /\ ~Team!lastOwner(u)
        /\ x1[Self] = "owner" \/ x1[u] # "owner"
        /\ r \in Team!ROLES /\ (x1[Self] # "owner" => r # "owner")
    BY <1>1, <1>3 DEF Team!Offered, Team!canEditRole, Team!roleOptions
  <2>2. x1[u] = "owner" => Team!Cardinality(Team!Owners(x1)) > 1
    BY <1>1, <1>2, <2>1 DEF Team!lastOwner
  <2> QED
    BY <1>3, <2>1, <2>2 DEF Team!Allowed, Team!updateRole
<1>4. CASE kind # "role"
  <2>1. /\ x1[u] # None /\ ~Team!lastOwner(u)
        /\ u = Self \/ (Team!isAdmin(x1[Self]) /\ (x1[Self] = "owner" \/ x1[u] # "owner"))
    BY <1>1, <1>4 DEF Team!Offered, Team!canRemove
  <2>2. x1[u] = "owner" => Team!Cardinality(Team!Owners(x1)) > 1
    BY <1>1, <1>2, <2>1 DEF Team!lastOwner
  <2> QED
    BY <1>4, <2>1, <2>2 DEF Team!Allowed, Team!remove
<1> QED
  BY <1>3, <1>4

LEMMA AllowedAreOffered == Team!TeamInv => Team!AllowedIsOffered
<1> SUFFICES ASSUME Team!TeamInv, Team!Known, NEW u \in Members
             PROVE  /\ Team!remove(u) => Team!canRemove(u)
                    /\ \A r \in Team!ROLES \ {x1[u]} :
                         Team!updateRole(u, r) => Team!canEditRole(u) /\ r \in Team!roleOptions
  BY DEF Team!AllowedIsOffered
<1>1. x2 = x1[Self] /\ x3 = x1
  BY UpToDate
<1>2. Team!Cardinality(Team!Owners(x1)) \in Nat
  BY OwnersAreCounted
<1>3. (x1[u] = "owner" => Team!Cardinality(Team!Owners(x1)) > 1) => ~Team!lastOwner(u)
  BY <1>1, <1>2 DEF Team!lastOwner
<1>4. Team!remove(u) => Team!canRemove(u)
  BY <1>1, <1>3 DEF Team!remove, Team!canRemove
<1>5. ASSUME NEW r \in Team!ROLES \ {x1[u]}, Team!updateRole(u, r)
      PROVE  Team!canEditRole(u) /\ r \in Team!roleOptions
  <2>1. /\ Team!isAdmin(x1[Self]) /\ x1[u] # None /\ (x1[Self] = "owner" \/ "owner" \notin {x1[u], r})
        /\ x1[u] = "owner" => Team!Cardinality(Team!Owners(x1)) > 1
    BY <1>5 DEF Team!updateRole
  <2> QED
    BY <1>1, <1>3, <2>1 DEF Team!canEditRole, Team!roleOptions
<1> QED
  BY <1>4, <1>5

LEMMA TeamInit == Team!Init => Team!TeamInv
<1> SUFFICES ASSUME Team!Init PROVE Team!TeamInv
  OBVIOUS
<1>1. x1 \in [Members -> Team!ROLES \cup {None}]
  <2>1. x1 \in [Members -> Team!ROLES]
    BY DEF Team!Init
  <2> QED
    BY <2>1
<1>2. Team!ListSound /\ Team!MeSound
  BY DEF Team!Init, Team!ListSound, Team!MeSound, Team!FetchBrings, Team!Idle
<1> QED
  BY <1>1, <1>2 DEF Team!Init, Team!TeamInv, Team!Gone

(* A change is asked for as the caches show it.                             *)
LEMMA TeamActs ==
  ASSUME Team!TeamInv, NEW kind, NEW u, NEW r, Team!Act(kind, u, r), ~x10,
         Team!ChangeSound([kind |-> kind, user |-> u, role |-> r]),
         UNCHANGED <<x1, x2, x3, x4, x5, x10, x11>>, x6' # None => x6' = x6 \/ Team!ChangeSound(x6')
  PROVE  Team!TeamInv'
<1> DEFINE t == [id |-> x8, kind |-> kind, user |-> u, role |-> r, answer |-> "awaited",
                 fair |-> Team!Known /\ Team!Offered(kind, u, r)]
<1>1. x7' = x7 \cup {t}
  BY DEF Team!Act
<1>2. u \in Members /\ r \in Team!ROLES \cup {None} /\ (kind # "role" => r = None)
  BY DEF Team!ChangeSound
<1>3. /\ DOMAIN t = {"id", "kind", "user", "role", "answer", "fair"} /\ t.kind = kind /\ t.user = u /\ t.role = r
      /\ t.answer = "awaited" /\ t.fair \in BOOLEAN /\ (t.fair => Team!Known /\ Team!Offered(kind, u, r))
  OBVIOUS
<1> HIDE DEF t
<1>4. ASSUME NEW a, a = t PROVE Team!ActSound(a)'
  <2>1. a.fair => Team!Allowed(kind, u, r)
    BY <1>2, <1>3, <1>4, OffersAreAllowed
  <2>2. Team!Allowed(kind, u, r)' = Team!Allowed(kind, u, r)
    BY DEF Team!Allowed, Team!updateRole, Team!remove
  <2>3. Team!ChangeSound(a)'
    BY <1>2, <1>3, <1>4 DEF Team!ChangeSound
  <2>4. a.answer = "awaited" /\ a.fair \in BOOLEAN /\ DOMAIN a = {"id", "kind", "user", "role", "answer", "fair"}
    BY <1>3, <1>4
  <2>5. a.fair => Team!Allowed(a.kind, a.user, a.role)'
    BY <1>3, <1>4, <2>1, <2>2
  <2> QED
    BY <2>3, <2>4, <2>5 DEF Team!ActSound
<1>5. ASSUME NEW a \in x7 PROVE Team!ActSound(a)'
  <2>1. Team!ActSound(a)
    BY DEF Team!TeamInv
  <2>2. Team!Allowed(a.kind, a.user, a.role)' = Team!Allowed(a.kind, a.user, a.role)
    BY DEF Team!Allowed, Team!updateRole, Team!remove
  <2> QED
    BY <2>1, <2>2 DEF Team!ActSound, Team!ChangeSound
<1>6. Team!ListSound' /\ Team!MeSound'
  BY <1>1 DEF Team!TeamInv, Team!ListSound, Team!MeSound, Team!FetchBrings
<1>7. x6' # None => Team!ChangeSound(x6')
  BY DEF Team!TeamInv
<1> QED
  BY <1>1, <1>4, <1>5, <1>6, <1>7 DEF Team!TeamInv, Team!Gone, Team!ChangeSound

(* What leaves the roles alone.                                             *)
LEMMA TeamKeeps ==
  ASSUME Team!TeamInv, UNCHANGED x1, \A a \in x7' : a \in x7 \/ Team!ActSound(a)',
         x10' \in BOOLEAN, x11' \in BOOLEAN, x10' => x1[Self] = None /\ x6' = None,
         Team!ListSound', Team!MeSound', x6' # None => x6' = x6 \/ Team!ChangeSound(x6')
  PROVE  Team!TeamInv'
<1>1. ASSUME NEW a \in x7 PROVE Team!ActSound(a)'
  <2>1. Team!ActSound(a)
    BY DEF Team!TeamInv
  <2>2. Team!Allowed(a.kind, a.user, a.role)' = Team!Allowed(a.kind, a.user, a.role)
    BY DEF Team!Allowed, Team!updateRole, Team!remove
  <2> QED
    BY <2>1, <2>2 DEF Team!ActSound, Team!ChangeSound
<1>2. Team!Gone'
  BY DEF Team!Gone
<1>3. (x6 # None => Team!ChangeSound(x6))'
  BY DEF Team!TeamInv, Team!ChangeSound
<1> QED
  BY <1>1, <1>2, <1>3 DEF Team!TeamInv

(* A change that waits is not fair any more once roles have changed.        *)
LEMMA UnfairIsSound ==
  ASSUME NEW c, Team!ActSound(c), NEW b, b = [c EXCEPT !.fair = @ /\ c.answer # "awaited"],
         x1[Self] = None => x1'[Self] = None
  PROVE  Team!ActSound(b)' /\ b.answer = c.answer /\ b.user = c.user
<1>1. /\ DOMAIN b = {"id", "kind", "user", "role", "answer", "fair"} /\ b.kind = c.kind /\ b.user = c.user
      /\ b.role = c.role /\ b.answer = c.answer /\ b.fair = (c.fair /\ c.answer # "awaited")
  BY DEF Team!ActSound
<1>2. b.fair \in BOOLEAN /\ (b.fair => c.fair /\ c.answer # "awaited")
  BY <1>1 DEF Team!ActSound
<1> QED
  BY <1>1, <1>2 DEF Team!ActSound, Team!ChangeSound

LEMMA TeamServes ==
  ASSUME Team!TeamInv, NEW a \in x7, Team!Serve(a)
  PROVE  Team!TeamInv'
<1> DEFINE ok == Team!Allowed(a.kind, a.user, a.role)
<1>1. /\ a.answer = "awaited" /\ x1[Self] # None
      /\ x1' = (IF ok THEN [x1 EXCEPT ![a.user] = a.role] ELSE x1)
      /\ x7' = Team!Unfair(x7 \ {a}) \cup {[a EXCEPT !.answer = IF ok THEN "ok" ELSE "refused"]}
      /\ UNCHANGED <<x2, x3, x4, x5, x6, x10, x11>>
  BY DEF Team!Serve, Team!Allowed, Team!Caches
<1>2. Team!ActSound(a) /\ x1 \in [Members -> Team!ROLES \cup {None}] /\ Self \in Members /\ x10 \in BOOLEAN
  BY TeamIsFinite DEF Team!TeamInv
<1>3. a.user \in Members /\ a.role \in Team!ROLES \cup {None} /\ (a.kind # "role" => a.role = None)
  BY <1>2 DEF Team!ActSound, Team!ChangeSound
<1>4. x1' \in [Members -> Team!ROLES \cup {None}]
  BY <1>1, <1>2, <1>3
<1>5. ASSUME NEW b \in x7', b \in Team!Unfair(x7 \ {a}) PROVE Team!ActSound(b)'
  <2>1. PICK c \in x7 \ {a} : b = [c EXCEPT !.fair = @ /\ c.answer # "awaited"]
    BY <1>5 DEF Team!Unfair
  <2>2. Team!ActSound(c)
    BY DEF Team!TeamInv
  <2> QED
    BY <1>1, <2>1, <2>2, UnfairIsSound
<1>6. ASSUME NEW b, b = [a EXCEPT !.answer = IF ok THEN "ok" ELSE "refused"]
      PROVE  Team!ActSound(b)' /\ b.user = a.user /\ b.answer = (IF ok THEN "ok" ELSE "refused")
  <2>1. /\ DOMAIN b = {"id", "kind", "user", "role", "answer", "fair"} /\ b.kind = a.kind /\ b.user = a.user
        /\ b.role = a.role /\ b.answer = (IF ok THEN "ok" ELSE "refused") /\ b.fair = a.fair
    BY <1>2, <1>6 DEF Team!ActSound
  <2>2. a.fair => ok
    BY <1>1, <1>2 DEF Team!ActSound
  <2>3. ok /\ a.kind # "role" /\ a.user = Self => x1'[Self] = None
    BY <1>1, <1>2, <1>3
  <2>4. b.fair \in BOOLEAN /\ Team!ChangeSound(b)'
    BY <1>2, <2>1 DEF Team!ActSound, Team!ChangeSound
  <2>5. b.answer \in {"ok", "refused"} /\ (b.answer = "ok" <=> ok)
    BY <2>1
  <2> HIDE DEF ok
  <2>6. b.fair => b.answer = "ok"
    BY <2>1, <2>2
  <2> QED
    BY <2>1, <2>3, <2>4, <2>5, <2>6 DEF Team!ActSound
<1>7. \A b \in x7' : Team!ActSound(b)'
  BY <1>1, <1>5, <1>6
<1>8. CASE ok
  <2>1. \E b \in x7' : b.answer = "ok" /\ b.user = a.user
    BY <1>1, <1>6, <1>8
  <2>2. Team!ListSound'
    BY <2>1 DEF Team!ListSound
  <2>3. ASSUME a.user = Self PROVE Team!MeSound'
    BY <2>1, <2>3 DEF Team!MeSound
  <2>4. ASSUME a.user # Self PROVE Team!MeSound'
    <3>1. x1'[Self] = x1[Self]
      BY <1>1, <1>2, <1>8, <2>4
    <3>2. ASSUME NEW c \in x7, c.answer = "ok", c.user = Self
          PROVE  \E b \in x7' : b.answer = "ok" /\ b.user = Self
      <4> DEFINE b == [c EXCEPT !.fair = @ /\ c.answer # "awaited"]
      <4>1. b \in x7'
        BY <1>1, <3>2 DEF Team!Unfair
      <4>2. Team!ActSound(c)
        BY DEF Team!TeamInv
      <4>3. b.answer = "ok" /\ b.user = Self
        BY <3>2, <4>2 DEF Team!ActSound
      <4> QED
        BY <4>1, <4>3
    <3> QED
      BY <1>1, <3>1, <3>2 DEF Team!TeamInv, Team!MeSound, Team!FetchBrings
  <2>5. Team!MeSound'
    BY <2>3, <2>4
  <2> QED
    BY <1>1, <1>2, <1>4, <1>7, <2>2, <2>5 DEF Team!TeamInv, Team!Gone, Team!ChangeSound
<1>9. CASE ~ok
  <2>1. x1' = x1
    BY <1>1, <1>9
  <2>2. ASSUME NEW c \in x7, c.answer = "ok"
        PROVE  \E b \in x7' : b.answer = "ok" /\ b.user = c.user
    <3> DEFINE b == [c EXCEPT !.fair = @ /\ c.answer # "awaited"]
    <3>1. b \in x7'
      BY <1>1, <2>2 DEF Team!Unfair
    <3>2. Team!ActSound(c)
      BY DEF Team!TeamInv
    <3>3. b.answer = "ok" /\ b.user = c.user
      BY <2>2, <3>2 DEF Team!ActSound
    <3> QED
      BY <3>1, <3>3
  <2>3. Team!ListSound' /\ Team!MeSound'
    BY <1>1, <2>1, <2>2 DEF Team!TeamInv, Team!ListSound, Team!MeSound, Team!FetchBrings
  <2> QED
    BY <1>1, <1>2, <1>4, <1>7, <2>3 DEF Team!TeamInv, Team!Gone, Team!ChangeSound
<1> QED
  BY <1>8, <1>9

LEMMA TeamStep == Team!TeamInv /\ [Team!Next]_(Team!vars) => Team!TeamInv'
<1> SUFFICES ASSUME Team!TeamInv, [Team!Next]_(Team!vars) PROVE Team!TeamInv'
  OBVIOUS
<1>1. /\ x1 \in [Members -> Team!ROLES \cup {None}] /\ x10 \in BOOLEAN /\ x11 \in BOOLEAN
      /\ x10 => x1[Self] = None /\ x6 = None
      /\ Team!ListSound /\ Team!MeSound /\ (x6 # None => Team!ChangeSound(x6))
      /\ \A a \in x7 : Team!ActSound(a)
  BY DEF Team!TeamInv, Team!Gone
<1>2. UNCHANGED <<x1, x2, x3, x4, x5, x7, x11>> => Team!ListSound' /\ Team!MeSound'
  BY <1>1 DEF Team!ListSound, Team!MeSound, Team!FetchBrings
<1>3. ASSUME NEW u \in Members, NEW r \in Team!ROLES, Team!PickRole(u, r)
      PROVE  Team!TeamInv'
  <2>1. ~x10 /\ UNCHANGED <<x1, x2, x3, x4, x5, x10, x11>>
    BY <1>3 DEF Team!PickRole, Team!Caches
  <2>2. CASE u = Self
    <3>1. x6' = [kind |-> "role", user |-> u, role |-> r] /\ x7' = x7
      BY <1>3, <2>2 DEF Team!PickRole
    <3>2. Team!ChangeSound(x6')
      BY <3>1 DEF Team!ChangeSound
    <3> QED
      BY <1>1, <1>2, <2>1, <3>1, <3>2, TeamKeeps
  <2>3. CASE u # Self
    <3>1. Team!Act("role", u, r) /\ x6' = x6
      BY <1>3, <2>3 DEF Team!PickRole
    <3>2. Team!ChangeSound([kind |-> "role", user |-> u, role |-> r])
      BY DEF Team!ChangeSound
    <3> QED
      BY <2>1, <3>1, <3>2, TeamActs
  <2> QED
    BY <2>2, <2>3
<1>4. ASSUME NEW u \in Members, Team!AskToRemove(u)
      PROVE  Team!TeamInv'
  <2>1. /\ ~x10 /\ UNCHANGED <<x1, x2, x3, x4, x5, x7, x10, x11>>
        /\ x6' = [kind |-> "remove", user |-> u, role |-> None]
    BY <1>4 DEF Team!AskToRemove, Team!Caches
  <2>2. Team!ChangeSound(x6')
    BY <2>1 DEF Team!ChangeSound
  <2> QED
    BY <1>1, <1>2, <2>1, <2>2, TeamKeeps
<1>5. CASE Team!Close
  <2>1. x6' = None /\ UNCHANGED <<x1, x2, x3, x4, x5, x7, x10, x11>>
    BY <1>5 DEF Team!Close, Team!Caches
  <2> QED
    BY <1>1, <1>2, <2>1, TeamKeeps
<1>6. CASE Team!Confirm
  <2>1. /\ x6 # None /\ Team!Act(x6.kind, x6.user, x6.role) /\ UNCHANGED <<x1, x2, x3, x4, x5, x6, x10, x11>>
    BY <1>6 DEF Team!Confirm, Team!Caches
  <2>2. ~x10 /\ Team!ChangeSound([kind |-> x6.kind, user |-> x6.user, role |-> x6.role])
    BY <1>1, <2>1 DEF Team!ChangeSound
  <2> QED
    BY <2>1, <2>2, TeamActs
<1>7. ASSUME NEW a \in x7, Team!Serve(a)
      PROVE  Team!TeamInv'
  BY <1>7, TeamServes
<1>8. ASSUME NEW a \in x7, Team!Cut(a)
      PROVE  Team!TeamInv'
  <2>1. /\ x7' = (x7 \ {a}) \cup {[a EXCEPT !.answer = "lost"]} /\ x11' = TRUE
        /\ UNCHANGED <<x1, x2, x3, x4, x5, x6, x10>>
    BY <1>8 DEF Team!Cut, Team!Caches
  <2>2. ASSUME NEW b, b = [a EXCEPT !.answer = "lost"] PROVE Team!ActSound(b)'
    <3>1. Team!ActSound(a)
      BY <1>1
    <3>2. /\ DOMAIN b = {"id", "kind", "user", "role", "answer", "fair"} /\ b.kind = a.kind /\ b.user = a.user
          /\ b.role = a.role /\ b.answer = "lost" /\ b.fair = a.fair
      BY <2>2, <3>1 DEF Team!ActSound
    <3> QED
      BY <3>1, <3>2 DEF Team!ActSound, Team!ChangeSound
  <2>3. Team!ListSound' /\ Team!MeSound'
    BY <2>1 DEF Team!ListSound, Team!MeSound
  <2> QED
    BY <1>1, <2>1, <2>2, <2>3, TeamKeeps
<1>9. ASSUME NEW a \in x7, Team!Answered(a)
      PROVE  Team!TeamInv'
  <2>1. /\ x7' = x7 \ {a} /\ UNCHANGED <<x1, x2, x3, x11>>
        /\ x6' = (IF (a.answer = "ok" /\ a.kind = "remove") \/ (a.kind = "role" /\ a.user = Self) THEN None ELSE x6)
        /\ x10' = (x10 \/ (a.answer = "ok" /\ a.kind = "remove" /\ a.user = Self))
    BY <1>9 DEF Team!Answered
  <2>2. x10' => x1[Self] = None /\ x6' = None
    BY <1>1, <2>1 DEF Team!ActSound
  <2>3. CASE a.answer = "ok"
    <3>1. /\ x5' = [state |-> "asked", answer |-> x3]
          /\ x4' = (IF a.user = Self THEN [state |-> "asked", answer |-> x2] ELSE x4)
      BY <1>9, <2>3 DEF Team!Answered, Team!Refetched, Team!Ask
    <3>2. Team!ListSound'
      BY <3>1 DEF Team!ListSound, Team!FetchBrings
    <3>3. ASSUME a.user = Self PROVE Team!MeSound'
      BY <3>1, <3>3 DEF Team!MeSound, Team!FetchBrings
    <3>4. ASSUME a.user # Self PROVE Team!MeSound'
      BY <1>1, <2>1, <3>1, <3>4 DEF Team!MeSound, Team!FetchBrings
    <3> QED
      BY <1>1, <2>1, <2>2, <3>2, <3>3, <3>4, TeamKeeps
  <2>4. CASE a.answer # "ok"
    <3>1. UNCHANGED <<x4, x5>>
      BY <1>9, <2>4 DEF Team!Answered
    <3>2. Team!ListSound' /\ Team!MeSound'
      BY <1>1, <2>1, <2>4, <3>1 DEF Team!ListSound, Team!MeSound, Team!FetchBrings
    <3> QED
      BY <1>1, <2>1, <2>2, <3>2, TeamKeeps
  <2> QED
    BY <2>3, <2>4
<1>10. ASSUME NEW u \in Members, NEW r \in Team!ROLES \cup {None}, Team!Colleague(u, r)
       PROVE  Team!TeamInv'
  <2>1. /\ x1[u] # None /\ x1' = [x1 EXCEPT ![u] = r] /\ x11' = TRUE /\ x7' = Team!Unfair(x7)
        /\ UNCHANGED <<x2, x3, x4, x5, x6, x10>>
    BY <1>10 DEF Team!Colleague, Team!Caches
  <2>2. x1' \in [Members -> Team!ROLES \cup {None}] /\ (x1[Self] = None => x1'[Self] = None)
    BY <1>1, <2>1, TeamIsFinite
  <2>3. ASSUME NEW b \in x7' PROVE Team!ActSound(b)'
    <3>1. PICK c \in x7 : b = [c EXCEPT !.fair = @ /\ c.answer # "awaited"]
      BY <2>1 DEF Team!Unfair
    <3> QED
      BY <1>1, <2>2, <3>1, UnfairIsSound
  <2>4. Team!ListSound' /\ Team!MeSound'
    BY <2>1 DEF Team!ListSound, Team!MeSound
  <2> QED
    BY <1>1, <2>1, <2>2, <2>3, <2>4 DEF Team!TeamInv, Team!Gone, Team!ChangeSound
<1>11. CASE Team!Refetch
  <2>1. /\ x4' = [state |-> "asked", answer |-> x2] /\ x5' = [state |-> "asked", answer |-> x3]
        /\ x11' = (x7 # {}) /\ UNCHANGED <<x1, x2, x3, x6, x7, x10>>
    BY <1>11 DEF Team!Refetch, Team!Ask
  <2>2. Team!ListSound' /\ Team!MeSound'
    BY <2>1 DEF Team!ListSound, Team!MeSound, Team!FetchBrings
  <2>3. x11' \in BOOLEAN
    BY <2>1
  <2> QED
    BY <1>1, <2>1, <2>2, <2>3, TeamKeeps
<1>12. ASSUME UNCHANGED <<x1, x6, x7, x10, x11>>, Team!FetchBrings(x5, x3, x1)' \/ UNCHANGED <<x3, x5>>,
              Team!FetchBrings(x4, x2, x1[Self])' \/ UNCHANGED <<x2, x4>>
       PROVE  Team!TeamInv'
  <2>1. Team!ListSound' /\ Team!MeSound'
    BY <1>1, <1>12 DEF Team!ListSound, Team!MeSound, Team!FetchBrings
  <2> QED
    BY <1>1, <1>12, <2>1, TeamKeeps
<1>13. CASE Team!ServeMe
  <2>1. x4' = [state |-> "answered", answer |-> x1[Self]] /\ UNCHANGED <<x1, x2, x3, x5, x6, x7, x10, x11>>
    BY <1>13 DEF Team!ServeMe
  <2> QED
    BY <1>12, <2>1 DEF Team!FetchBrings
<1>14. CASE Team!ServeList
  <2>1. x5' = [state |-> "answered", answer |-> x1] /\ UNCHANGED <<x1, x2, x3, x4, x6, x7, x10, x11>>
    BY <1>14 DEF Team!ServeList
  <2> QED
    BY <1>12, <2>1 DEF Team!FetchBrings
<1>15. CASE Team!MeArrives
  <2>1. /\ x4.state = "answered" /\ x2' = x4.answer /\ x4' = [state |-> "idle", answer |-> x2']
        /\ UNCHANGED <<x1, x3, x5, x6, x7, x10, x11>>
    BY <1>15 DEF Team!MeArrives, Team!Idle
  <2>2. Team!ListSound' /\ Team!MeSound'
    BY <1>1, <2>1 DEF Team!ListSound, Team!MeSound, Team!FetchBrings
  <2> QED
    BY <1>1, <2>1, <2>2, TeamKeeps
<1>16. CASE Team!ListArrives
  <2>1. /\ x5.state = "answered" /\ x3' = x5.answer /\ x5' = [state |-> "idle", answer |-> x3']
        /\ UNCHANGED <<x1, x2, x4, x6, x7, x10, x11>>
    BY <1>16 DEF Team!ListArrives, Team!Idle
  <2>2. Team!ListSound' /\ Team!MeSound'
    BY <1>1, <2>1 DEF Team!ListSound, Team!MeSound, Team!FetchBrings
  <2> QED
    BY <1>1, <2>1, <2>2, TeamKeeps
<1>17. CASE UNCHANGED Team!vars
  BY <1>12, <1>17 DEF Team!vars
<1> QED
  BY <1>3, <1>4, <1>5, <1>6, <1>7, <1>8, <1>9, <1>10, <1>11, <1>13, <1>14, <1>15, <1>16, <1>17 DEF Team!Next

-----------------------------------------------------------------------------
(* The form for a new transfer (TravelRuleWizard).                          *)

LEMMA WizardInit == Wizard!Init => Wizard!WizardInv
<1> SUFFICES ASSUME Wizard!Init PROVE Wizard!WizardInv
  OBVIOUS
<1>1. PICK c \in Wizard!Chains : x3 = Wizard!defaultValues(c)
  BY DEF Wizard!Init
<1>2. x3 \in Wizard!Values /\ x3.usd = "none" /\ x3.amount = "none"
  BY <1>1 DEF Wizard!defaultValues, Wizard!Values, Wizard!Chains
<1>3. Wizard!EarlierAreComplete
  BY DEF Wizard!Init, Wizard!EarlierAreComplete
<1>4. Wizard!DraftsAreCounted
  BY DEF Wizard!Init, Wizard!DraftsAreCounted
<1>5. x2 \in 0..Wizard!LAST
  BY DEF Wizard!Init, Wizard!LAST
<1>6. x7 \in BOOLEAN
  BY Zenon DEF Wizard!Init
<1> QED
  BY <1>2, <1>3, <1>4, <1>5, <1>6 DEF Wizard!WizardInv, Wizard!UsdFollowsAmount

(* The first of the steps with an error.                                    *)
LEMMA FirstBad ==
  ASSUME NEW S \in SUBSET {0, 1, 2}, S # {}
  PROVE  Wizard!Min(S) \in S /\ \A s \in S : Wizard!Min(S) <= s
<1>1. \E x \in S : \A y \in S : x <= y
  <2>1. CASE 0 \in S
    BY <2>1
  <2>2. CASE 0 \notin S /\ 1 \in S
    BY <2>2
  <2>3. CASE 0 \notin S /\ 1 \notin S
    <3>1. S = {2}
      BY <2>3
    <3> QED
      BY <3>1
  <2> QED
    BY <2>1, <2>2, <2>3
<1>2. Wizard!Min(S) = CHOOSE x \in S : \A y \in S : x <= y
  BY DEF Wizard!Min
<1> QED
  BY <1>1, <1>2

(* What an edit of a step leaves right: the steps before it, and the value  *)
(* that follows the amount.                                                 *)
LEMMA Edited ==
  ASSUME Wizard!WizardInv, NEW s \in 0..2, NEW v, Wizard!Edit(s, v), v \in Wizard!Values,
         \A t \in 0..s - 1 : t \in Wizard!travelRuleResolver(v) => t \in Wizard!travelRuleResolver(x3),
         v.asset = "stable" /\ ~v.touched => v.usd = v.amount
  PROVE  Wizard!WizardInv'
<1>1. x2 = s /\ x3' = v /\ UNCHANGED <<x1, x2, x4, x5, x6, x7, x8>>
  BY DEF Wizard!Edit
<1>2. Wizard!EarlierAreComplete'
  <2>1. x7 \/ \A t \in 0..x2 - 1 : t \notin Wizard!travelRuleResolver(x3)
    BY DEF Wizard!WizardInv, Wizard!EarlierAreComplete
  <2>2. ASSUME NEW t \in 0..x2 - 1, t \notin Wizard!travelRuleResolver(x3)
        PROVE  t \notin Wizard!travelRuleResolver(v)
    BY <1>1, <2>2
  <2>3. x7 \/ \A t \in 0..x2 - 1 : t \notin Wizard!travelRuleResolver(v)
    BY <2>1, <2>2
  <2> QED
    BY <1>1, <2>3 DEF Wizard!EarlierAreComplete, Wizard!travelRuleResolver
<1> QED
  BY <1>1, <1>2 DEF Wizard!WizardInv, Wizard!DraftsAreCounted, Wizard!UsdFollowsAmount

LEMMA Fewer == \A a \in 0..3, b \in 0..3 : b <= a => \A s \in 0..b - 1 : s \in 0..a - 1
OBVIOUS

(* Steps that leave the form's values alone.                                *)
LEMMA Stepped ==
  ASSUME Wizard!WizardInv, UNCHANGED x3, x2' \in 0..Wizard!LAST, x7' \in BOOLEAN,
         x7' \/ x2' <= x2 \/ \A s \in 0..x2' - 1 : s \notin Wizard!travelRuleResolver(x3),
         x7 => x7', Wizard!DraftsAreCounted'
  PROVE  Wizard!WizardInv'
<1>1. Wizard!travelRuleResolver(x3)' = Wizard!travelRuleResolver(x3)
  BY DEF Wizard!travelRuleResolver
<1>2. x2 \in 0..3 /\ x2' \in 0..3 /\ (x7 \/ \A s \in 0..x2 - 1 : s \notin Wizard!travelRuleResolver(x3))
  BY DEF Wizard!WizardInv, Wizard!EarlierAreComplete, Wizard!LAST
<1>3. x7' \/ \A s \in 0..x2' - 1 : s \notin Wizard!travelRuleResolver(x3)
  <2>1. x2 \in 0..3 /\ x2' \in 0..3
    BY <1>2
  <2>2. x2' <= x2 => \A s \in 0..x2' - 1 : s \in 0..x2 - 1
    BY <2>1, Fewer, Zenon
  <2> QED
    BY <1>2, <2>2, Zenon
<1>4. Wizard!EarlierAreComplete'
  BY <1>1, <1>3 DEF Wizard!EarlierAreComplete
<1> QED
  BY <1>4 DEF Wizard!WizardInv, Wizard!UsdFollowsAmount, Wizard!Values

LEMMA WizardStep == Wizard!WizardInv /\ [Wizard!Next]_(Wizard!vars) => Wizard!WizardInv'
<1> SUFFICES ASSUME Wizard!WizardInv, [Wizard!Next]_(Wizard!vars) PROVE Wizard!WizardInv'
  OBVIOUS
<1>1. /\ x2 \in 0..3 /\ x3 \in Wizard!Values /\ x7 \in BOOLEAN /\ Wizard!DraftsAreCounted
      /\ x3.asset = "stable" /\ ~x3.touched => x3.usd = x3.amount
      /\ x7 \/ \A s \in 0..x2 - 1 : s \notin Wizard!travelRuleResolver(x3)
  BY DEF Wizard!WizardInv, Wizard!UsdFollowsAmount, Wizard!EarlierAreComplete, Wizard!LAST
<1>2. UNCHANGED <<x1, x4, x6, x8>> => Wizard!DraftsAreCounted'
  BY <1>1 DEF Wizard!DraftsAreCounted
<1>3. ASSUME NEW p \in {"nameless", "named", "identified"}, Wizard!EditParties(p)
      PROVE  Wizard!WizardInv'
  <2> DEFINE v == [x3 EXCEPT !.parties = p]
  <2>1. /\ v \in Wizard!Values /\ v.asset = x3.asset /\ v.touched = x3.touched /\ v.usd = x3.usd
        /\ v.amount = x3.amount
    BY <1>1 DEF Wizard!Values
  <2>2. Wizard!Edit(0, v)
    BY <1>3 DEF Wizard!EditParties
  <2> HIDE DEF v
  <2>3. v.asset = "stable" /\ ~v.touched => v.usd = v.amount
    BY <1>1, <2>1
  <2> QED
    BY <2>1, <2>2, <2>3, Edited
<1>4. ASSUME NEW a \in {"unfinished"} \cup Wizard!Chains, Wizard!EditAccounts(a)
      PROVE  Wizard!WizardInv'
  <2>1. PICK c \in Wizard!Chains : Wizard!Edit(1, [x3 EXCEPT !.accounts = a, !.chain = c])
    BY <1>1, <1>4 DEF Wizard!EditAccounts, Wizard!Values
  <2> DEFINE v == [x3 EXCEPT !.accounts = a, !.chain = c]
  <2>2. /\ v \in Wizard!Values /\ v.asset = x3.asset /\ v.touched = x3.touched /\ v.usd = x3.usd
        /\ v.amount = x3.amount /\ v.parties = x3.parties
    BY <1>1 DEF Wizard!Values
  <2>3. Wizard!Edit(1, v)
    BY <2>1
  <2> HIDE DEF v
  <2>4. v.asset = "stable" /\ ~v.touched => v.usd = v.amount
    BY <1>1, <2>2
  <2>5. \A t \in 0..1 - 1 : t \in Wizard!travelRuleResolver(v) => t \in Wizard!travelRuleResolver(x3)
    BY <2>2 DEF Wizard!travelRuleResolver
  <2> QED
    BY <2>2, <2>3, <2>4, <2>5, Edited
<1>5. ASSUME NEW v, Wizard!Edit(2, v), v \in Wizard!Values, v.parties = x3.parties, v.accounts = x3.accounts,
             v.asset = "stable" /\ ~v.touched => v.usd = v.amount
      PROVE  Wizard!WizardInv'
  <2>1. \A t \in 0..2 - 1 : t \in Wizard!travelRuleResolver(v) => t \in Wizard!travelRuleResolver(x3)
    BY <1>5 DEF Wizard!travelRuleResolver
  <2> QED
    BY <1>5, <2>1, Edited
<1>6. ASSUME NEW c \in Wizard!Chains, Wizard!PickChain(c)
      PROVE  Wizard!WizardInv'
  <2> DEFINE v == [x3 EXCEPT !.chain = c, !.picked = (c # x3.first)]
  <2>1. /\ v \in Wizard!Values /\ v.asset = x3.asset /\ v.touched = x3.touched /\ v.usd = x3.usd
        /\ v.amount = x3.amount /\ v.parties = x3.parties /\ v.accounts = x3.accounts
    BY <1>1 DEF Wizard!Values
  <2>2. Wizard!Edit(2, v)
    BY <1>6 DEF Wizard!PickChain
  <2> HIDE DEF v
  <2>3. v.asset = "stable" /\ ~v.touched => v.usd = v.amount
    BY <1>1, <2>1
  <2> QED
    BY <1>5, <2>1, <2>2, <2>3
<1>7. ASSUME NEW w \in Wizard!Values
      PROVE  /\ Wizard!Follow(w) \in Wizard!Values
             /\ Wizard!Follow(w).parties = w.parties /\ Wizard!Follow(w).accounts = w.accounts
             /\ Wizard!Follow(w).asset = "stable" /\ ~Wizard!Follow(w).touched
                  => Wizard!Follow(w).usd = Wizard!Follow(w).amount
  BY <1>7 DEF Wizard!Follow, Wizard!Values
<1>8. ASSUME NEW a \in {"none", "small", "large"}, Wizard!EditAmount(a)
      PROVE  Wizard!WizardInv'
  <2> DEFINE w == [x3 EXCEPT !.amount = a]
  <2>1. w \in Wizard!Values /\ w.parties = x3.parties /\ w.accounts = x3.accounts
    BY <1>1 DEF Wizard!Values
  <2>2. Wizard!Edit(2, Wizard!Follow(w))
    BY <1>8 DEF Wizard!EditAmount
  <2> HIDE DEF w
  <2> QED
    BY <1>5, <1>7, <2>1, <2>2
<1>9. ASSUME NEW a \in {"stable", "other"}, Wizard!EditAsset(a)
      PROVE  Wizard!WizardInv'
  <2> DEFINE w == [x3 EXCEPT !.asset = a]
  <2>1. w \in Wizard!Values /\ w.parties = x3.parties /\ w.accounts = x3.accounts
    BY <1>1 DEF Wizard!Values
  <2>2. Wizard!Edit(2, Wizard!Follow(w))
    BY <1>9 DEF Wizard!EditAsset
  <2> HIDE DEF w
  <2> QED
    BY <1>5, <1>7, <2>1, <2>2
<1>10. ASSUME NEW u \in {"none", "small", "large"}, Wizard!EditUsd(u)
       PROVE  Wizard!WizardInv'
  <2> DEFINE v == [x3 EXCEPT !.usd = u, !.touched = TRUE]
  <2>1. v \in Wizard!Values /\ v.touched /\ v.parties = x3.parties /\ v.accounts = x3.accounts
    BY <1>1 DEF Wizard!Values
  <2>2. Wizard!Edit(2, v)
    BY <1>10 DEF Wizard!EditUsd
  <2> HIDE DEF v
  <2> QED
    BY <1>5, <2>1, <2>2
<1>11. ASSUME NEW target \in 0..Wizard!LAST, Wizard!goTo(target)
       PROVE  Wizard!WizardInv'
  <2> DEFINE bad == {s \in x2..target - 1 : s \in Wizard!travelRuleResolver(x3)}
  <2>1. /\ target # x2 /\ x2' = (IF bad = {} THEN target ELSE Wizard!Min(bad))
        /\ UNCHANGED <<x1, x3, x4, x5, x6, x7, x8>>
    BY <1>11 DEF Wizard!goTo
  <2>2. bad \in SUBSET {0, 1, 2} /\ target \in 0..3
    BY <1>1 DEF Wizard!LAST, Wizard!travelRuleResolver
  <2>3. CASE bad = {}
    <3>1. x2' = target
      BY <2>1, <2>3
    <3>2. \A s \in x2..target - 1 : s \notin Wizard!travelRuleResolver(x3)
      BY <2>3
    <3>3. x7' \/ \A s \in 0..x2' - 1 : s \notin Wizard!travelRuleResolver(x3)
      BY <1>1, <2>1, <2>2, <3>1, <3>2
    <3> QED
      BY <1>1, <1>2, <2>1, <2>2, <3>1, <3>3, Stepped DEF Wizard!LAST
  <2>4. CASE bad # {}
    <3>1. Wizard!Min(bad) \in bad /\ \A s \in bad : Wizard!Min(bad) <= s
      BY <2>2, <2>4, FirstBad
    <3>2. x2' \in 0..2 /\ \A s \in x2..x2' - 1 : s \notin Wizard!travelRuleResolver(x3)
      BY <1>1, <2>1, <2>2, <2>4, <3>1
    <3>3. x7' \/ \A s \in 0..x2' - 1 : s \notin Wizard!travelRuleResolver(x3)
      BY <1>1, <2>1, <3>2
    <3> QED
      BY <1>1, <1>2, <2>1, <3>2, <3>3, Stepped DEF Wizard!LAST
  <2> QED
    BY <2>3, <2>4
<1>12. CASE Wizard!Submit
  <2>1. UNCHANGED <<x1, x3, x6, x7>> /\ x4 \notin {"sent", "saved", "refused"} /\ x2 = 3
    BY <1>12 DEF Wizard!Submit, Wizard!Pending, Wizard!LAST
  <2>2. CASE Wizard!travelRuleResolver(x3) # {}
    <3>1. x2' = Wizard!Min(Wizard!travelRuleResolver(x3)) /\ UNCHANGED <<x4, x8>>
      BY <1>12, <2>2 DEF Wizard!Submit
    <3>2. Wizard!travelRuleResolver(x3) \in SUBSET {0, 1, 2}
      BY DEF Wizard!travelRuleResolver
    <3>3. x2' \in 0..2
      BY <2>2, <3>1, <3>2, FirstBad
    <3> QED
      BY <1>1, <1>2, <2>1, <3>1, <3>3, Stepped DEF Wizard!LAST
  <2>3. CASE /\ Wizard!travelRuleResolver(x3) = {}
             /\ Wizard!liveCheck(x3).required /\ ~Wizard!liveCheck(x3).hasIdentifier
    <3>1. x2' = 0 /\ UNCHANGED <<x4, x8>>
      BY <1>12, <2>3 DEF Wizard!Submit
    <3> QED
      BY <1>1, <1>2, <2>1, <3>1, Stepped DEF Wizard!LAST
  <2>4. CASE /\ Wizard!travelRuleResolver(x3) = {}
             /\ ~(Wizard!liveCheck(x3).required /\ ~Wizard!liveCheck(x3).hasIdentifier)
    <3>1. /\ x4' = "sent" /\ x2' = x2
          /\ x8' = x8 + (IF x4 = "lost" \/ x1 = "leaving" THEN 1 ELSE 0)
      BY <1>12, <2>4 DEF Wizard!Submit
    <3>2. x6 \in Nat /\ x8 \in Nat /\ x6 <= 1 + x8
      BY <1>1 DEF Wizard!DraftsAreCounted
    <3>3. x1 \in {"form", "leaving"}
      BY <1>12 DEF Wizard!Submit, Wizard!Mounted
    <3>4. x8' \in Nat /\ x6 <= x8'
      <4>1. CASE x4 = "lost" \/ x1 = "leaving"
        BY <3>1, <3>2, <4>1
      <4>2. CASE x4 = "none" /\ x1 = "form"
        BY <1>1, <3>1, <3>2, <4>2 DEF Wizard!DraftsAreCounted
      <4> QED
        BY <1>1, <2>1, <3>3, <4>1, <4>2 DEF Wizard!DraftsAreCounted
    <3>5. Wizard!DraftsAreCounted'
      BY <2>1, <3>1, <3>2, <3>4 DEF Wizard!DraftsAreCounted
    <3> QED
      BY <1>1, <2>1, <3>1, <3>5, Stepped DEF Wizard!LAST
  <2> QED
    BY <2>2, <2>3, <2>4
<1>13. ASSUME UNCHANGED <<x2, x3, x7>>, Wizard!DraftsAreCounted'
       PROVE  Wizard!WizardInv'
  BY <1>1, <1>13, Stepped DEF Wizard!LAST
<1>14. CASE Wizard!Serve
  BY <1>1, <1>13, <1>14 DEF Wizard!Serve, Wizard!DraftsAreCounted
<1>15. CASE Wizard!Cut
  BY <1>1, <1>13, <1>15 DEF Wizard!Cut, Wizard!DraftsAreCounted
<1>16. CASE Wizard!Created
  BY <1>1, <1>13, <1>16 DEF Wizard!Created, Wizard!DraftsAreCounted
<1>17. CASE Wizard!Refused
  <2>1. PICK first \in 0..3 : /\ x2' = (IF Wizard!Mounted THEN first ELSE x2)
                              /\ x7' = (x7 \/ first > x2)
    BY <1>17 DEF Wizard!Refused, Wizard!LAST
  <2>2. Wizard!DraftsAreCounted' /\ UNCHANGED x3
    BY <1>1, <1>17 DEF Wizard!Refused, Wizard!DraftsAreCounted
  <2>3. x7' \in BOOLEAN /\ (x7 => x7') /\ (first > x2 => x7')
    BY <1>1, <2>1
  <2>4. x2' \in 0..3 /\ (first > x2 \/ x2' <= x2)
    BY <1>1, <2>1
  <2> QED
    BY <2>2, <2>3, <2>4, Stepped DEF Wizard!LAST
<1>18. CASE Wizard!Leave \/ Wizard!Pushed
  BY <1>1, <1>13, <1>18 DEF Wizard!Leave, Wizard!Pushed, Wizard!DraftsAreCounted
<1>19. CASE UNCHANGED Wizard!vars
  BY <1>2, <1>13, <1>19 DEF Wizard!vars
<1> QED
  BY <1>3, <1>4, <1>6, <1>8, <1>9, <1>10, <1>11, <1>12, <1>14, <1>15, <1>16, <1>17, <1>18, <1>19 DEF Wizard!Next

LEMMA WizardShows ==
  Wizard!WizardInv => Wizard!ReviewIsComplete /\ Wizard!OneTransferPerForm /\ Wizard!UsdFollowsAmount
<1> SUFFICES ASSUME Wizard!WizardInv PROVE Wizard!ReviewIsComplete /\ Wizard!OneTransferPerForm
  BY DEF Wizard!WizardInv
<1>1. ASSUME x2 = 3, ~x7 PROVE Wizard!travelRuleResolver(x3) = {}
  <2>1. Wizard!travelRuleResolver(x3) \subseteq 0..2
    BY DEF Wizard!travelRuleResolver
  <2>2. \A s \in 0..2 : s \notin Wizard!travelRuleResolver(x3)
    BY <1>1 DEF Wizard!WizardInv, Wizard!EarlierAreComplete
  <2> QED
    BY <2>1, <2>2
<1> QED
  BY <1>1 DEF Wizard!ReviewIsComplete, Wizard!LAST, Wizard!OneTransferPerForm, Wizard!WizardInv, Wizard!DraftsAreCounted

-----------------------------------------------------------------------------
(* The page of one transfer (TransferPage).                                 *)

(* The two paths, by what they are made of.                                 *)
LEMMA Paths ==
  /\ Transfer!MAIN \in Seq(Transfer!Statuses) /\ Len(Transfer!MAIN) = 5
  /\ Transfer!UNHOSTED \in Seq(Transfer!Statuses) /\ Len(Transfer!UNHOSTED) = 3
  /\ Transfer!MAIN[1] = "draft" /\ Transfer!MAIN[2] = "awaiting_counterparty"
  /\ Transfer!MAIN[3] = "acknowledged" /\ Transfer!MAIN[4] = "accepted" /\ Transfer!MAIN[5] = "settled"
  /\ Transfer!UNHOSTED[1] = "draft" /\ Transfer!UNHOSTED[2] = "unhosted_verification"
  /\ Transfer!UNHOSTED[3] = "settled"
  /\ Transfer!MAIN # Transfer!UNHOSTED
<1>1. /\ Transfer!MAIN \in Seq(Transfer!Statuses) /\ Len(Transfer!MAIN) = 5
      /\ Transfer!UNHOSTED \in Seq(Transfer!Statuses) /\ Len(Transfer!UNHOSTED) = 3
  BY DEF Transfer!MAIN, Transfer!UNHOSTED, Transfer!Statuses, Transfer!TRAVEL_RULE_TRANSITIONS
<1>2. /\ Transfer!MAIN[1] = "draft" /\ Transfer!MAIN[2] = "awaiting_counterparty"
      /\ Transfer!MAIN[3] = "acknowledged" /\ Transfer!MAIN[4] = "accepted" /\ Transfer!MAIN[5] = "settled"
  BY DEF Transfer!MAIN
<1>3. /\ Transfer!UNHOSTED[1] = "draft" /\ Transfer!UNHOSTED[2] = "unhosted_verification"
      /\ Transfer!UNHOSTED[3] = "settled"
  BY DEF Transfer!UNHOSTED
<1>4. Transfer!MAIN # Transfer!UNHOSTED
  <2>1. Transfer!MAIN[2] # Transfer!UNHOSTED[2]
    BY <1>2, <1>3
  <2> QED
    BY <2>1, Zenon
<1> QED
  BY <1>1, <1>2, <1>3, <1>4

(* No path goes back to a status, and none has a rejection.                 *)
LEMMA PathsGoOn ==
  ASSUME NEW path \in {Transfer!MAIN, Transfer!UNHOSTED}
  PROVE  /\ path \in Seq(Transfer!Statuses) /\ Len(path) \in 3..5
         /\ \A i \in DOMAIN path : path[i] # "rejected"
         /\ \A i, j \in DOMAIN path : path[i] = path[j] => i = j
<1>1. CASE path = Transfer!MAIN
  <2>1. DOMAIN path = {1, 2, 3, 4, 5}
    BY <1>1, Paths
  <2> QED
    BY <1>1, <2>1, Paths
<1>2. CASE path = Transfer!UNHOSTED
  <2>1. DOMAIN path = {1, 2, 3}
    BY <1>2, Paths
  <2> QED
    BY <1>2, <2>1, Paths
<1> QED
  BY <1>1, <1>2

(* A sound history is not empty, and has only statuses.                     *)
LEMMA TypedHistory ==
  ASSUME NEW t, Transfer!HistorySound(t)
  PROVE  /\ Len(t.events) \in Nat \ {0} /\ DOMAIN t.events = 1..Len(t.events)
         /\ t.status = t.events[Len(t.events)].status /\ t.status \in Transfer!Statuses
<1> DEFINE es == t.events
           n == Len(es)
<1>1. /\ es \in Seq([status : Transfer!Statuses, own : Lines \cup {None}, hash : Hashes \cup {None}])
      /\ Transfer!Past(es) /\ t.status = es[n].status
  BY DEF Transfer!HistorySound
<1>2. n \in Nat /\ DOMAIN es = 1..n
  BY <1>1
<1>3. n >= 1
  BY <1>1, <1>2, PathsGoOn DEF Transfer!Past, Transfer!Follows
<1>4. es[n] \in [status : Transfer!Statuses, own : Lines \cup {None}, hash : Hashes \cup {None}]
  <2> DEFINE S == [status : Transfer!Statuses, own : Lines \cup {None}, hash : Hashes \cup {None}]
  <2>1. es \in Seq(S) /\ n \in 1..Len(es)
    BY <1>1, <1>2, <1>3
  <2> HIDE DEF S, es, n
  <2>2. es[n] \in S
    BY <2>1
  <2> QED
    BY <2>2 DEF S
<1> QED
  BY <1>1, <1>2, <1>3, <1>4 DEF es, n

(* What each status allows.                                                 *)
LEMMA Allowed ==
  ASSUME NEW c \in Transfer!Statuses, NEW s \in Transfer!TRAVEL_RULE_TRANSITIONS[c]
  PROVE  /\ s \in Transfer!Statuses
         /\ \/ c = "draft" /\ s \in {"awaiting_counterparty", "unhosted_verification"}
            \/ c = "awaiting_counterparty" /\ s \in {"acknowledged", "rejected"}
            \/ c = "acknowledged" /\ s \in {"accepted", "rejected"}
            \/ c = "accepted" /\ s = "settled"
            \/ c = "unhosted_verification" /\ s \in {"settled", "rejected"}
<1> DEFINE T == Transfer!TRAVEL_RULE_TRANSITIONS
<1>1. /\ T["draft"] = {"awaiting_counterparty", "unhosted_verification"}
      /\ T["awaiting_counterparty"] = {"acknowledged", "rejected"}
      /\ T["acknowledged"] = {"accepted", "rejected"} /\ T["accepted"] = {"settled"}
      /\ T["rejected"] = {} /\ T["unhosted_verification"] = {"settled", "rejected"} /\ T["settled"] = {}
  BY DEF Transfer!TRAVEL_RULE_TRANSITIONS
<1>2. Transfer!Statuses = {"draft", "awaiting_counterparty", "acknowledged", "accepted", "rejected",
                           "unhosted_verification", "settled"}
  BY DEF Transfer!Statuses, Transfer!TRAVEL_RULE_TRANSITIONS
<1> HIDE DEF T
<1>3. s \in T[c]
  BY DEF T
<1> QED
  BY <1>1, <1>2, <1>3

(* A change the status allows takes a sound history to a sound one.         *)
LEMMA HistoryMoves ==
  ASSUME NEW t, Transfer!HistorySound(t), NEW s, s \in Transfer!TRAVEL_RULE_TRANSITIONS[t.status],
         NEW own \in Lines \cup {None}, NEW h \in Hashes \cup {None}, NEW u, u.status = s,
         u.events = Append(t.events, [status |-> s, own |-> own, hash |-> h])
  PROVE  Transfer!HistorySound(u)
<1> DEFINE e == [status |-> s, own |-> own, hash |-> h]
           es == t.events
           fs == u.events
           n == Len(es)
<1>1. /\ es \in Seq([status : Transfer!Statuses, own : Lines \cup {None}, hash : Hashes \cup {None}])
      /\ Transfer!Past(es) /\ t.status = es[n].status
  BY DEF Transfer!HistorySound
<1>2. n \in Nat /\ n >= 1 /\ DOMAIN es = 1..n /\ t.status \in Transfer!Statuses
  BY TypedHistory
<1>3. /\ s \in Transfer!Statuses
      /\ \/ t.status = "draft" /\ s \in {"awaiting_counterparty", "unhosted_verification"}
         \/ t.status = "awaiting_counterparty" /\ s \in {"acknowledged", "rejected"}
         \/ t.status = "acknowledged" /\ s \in {"accepted", "rejected"}
         \/ t.status = "accepted" /\ s = "settled"
         \/ t.status = "unhosted_verification" /\ s \in {"settled", "rejected"}
  <2> DEFINE c == t.status
  <2>1. c \in Transfer!Statuses /\ s \in Transfer!TRAVEL_RULE_TRANSITIONS[c]
    BY <1>2
  <2> HIDE DEF c
  <2>2. /\ s \in Transfer!Statuses
        /\ \/ c = "draft" /\ s \in {"awaiting_counterparty", "unhosted_verification"}
           \/ c = "awaiting_counterparty" /\ s \in {"acknowledged", "rejected"}
           \/ c = "acknowledged" /\ s \in {"accepted", "rejected"}
           \/ c = "accepted" /\ s = "settled"
           \/ c = "unhosted_verification" /\ s \in {"settled", "rejected"}
    BY <2>1, Allowed
  <2> QED
    BY <2>2 DEF c
<1>4. /\ fs \in Seq([status : Transfer!Statuses, own : Lines \cup {None}, hash : Hashes \cup {None}]) /\ Len(fs) = n + 1
      /\ \A i \in 1..n : fs[i] = es[i]
      /\ fs[n + 1] = e /\ fs[n + 1].status = s
  <2>1. e \in [status : Transfer!Statuses, own : Lines \cup {None}, hash : Hashes \cup {None}] /\ e.status = s
    BY <1>3
  <2>2. fs = Append(es, e)
    OBVIOUS
  <2> HIDE DEF e
  <2> QED
    BY <1>1, <1>2, <2>1, <2>2
<1> HIDE DEF e, es, fs, n
<1>5. PICK path \in {Transfer!MAIN, Transfer!UNHOSTED} :
         \/ Transfer!Follows(es, path, n)
         \/ Transfer!Follows(es, path, n - 1) /\ n >= 3 /\ es[n].status = "rejected"
  BY <1>1 DEF Transfer!Past, n
<1>6. Transfer!Follows(es, path, n) /\ t.status = path[n]
  BY <1>1, <1>2, <1>3, <1>5 DEF Transfer!Follows
<1>7. CASE s = "rejected"
  <2>1. n >= 2
    <3>1. path[1] = "draft"
      BY Paths
    <3> QED
      BY <1>2, <1>3, <1>6, <1>7, <3>1
  <2>2. Transfer!Follows(fs, path, n)
    BY <1>2, <1>4, <1>6 DEF Transfer!Follows
  <2> QED
    BY <1>2, <1>4, <1>5, <1>7, <2>1, <2>2 DEF Transfer!HistorySound, Transfer!Past, fs
<1>8. CASE s = "unhosted_verification"
  <2>1. path = Transfer!MAIN /\ n = 1
    BY <1>2, <1>3, <1>5, <1>6, <1>8, Paths, PathsGoOn DEF Transfer!Follows
  <2>2. fs[1].status = "draft" /\ fs[2].status = s
    BY <1>1, <1>2, <1>3, <1>4, <1>8, <2>1
  <2>3. Transfer!Follows(fs, Transfer!UNHOSTED, 2)
    BY <1>8, <2>2, Paths DEF Transfer!Follows
  <2> QED
    BY <1>4, <2>1, <2>3 DEF Transfer!HistorySound, Transfer!Past, fs
<1>9. CASE s \notin {"rejected", "unhosted_verification"}
  <2>1. n + 1 \in DOMAIN path /\ path[n + 1] = s
    <3>1. CASE path = Transfer!MAIN
      <4>1. n \in 1..5
        BY <1>2, <1>6, <3>1, Paths DEF Transfer!Follows
      <4>2. CASE n = 1
        BY <1>3, <1>6, <1>9, <3>1, <4>2, Paths
      <4>3. CASE n = 2
        BY <1>3, <1>6, <1>9, <3>1, <4>3, Paths
      <4>4. CASE n = 3
        BY <1>3, <1>6, <1>9, <3>1, <4>4, Paths
      <4>5. CASE n = 4
        BY <1>3, <1>6, <1>9, <3>1, <4>5, Paths
      <4>6. CASE n = 5
        BY <1>3, <1>6, <3>1, <4>6, Paths
      <4> QED
        BY <4>1, <4>2, <4>3, <4>4, <4>5, <4>6
    <3>2. CASE path = Transfer!UNHOSTED
      <4>1. n \in 2..3
        BY <1>2, <1>6, <3>2, Paths DEF Transfer!Follows
      <4>2. CASE n = 2
        BY <1>3, <1>6, <1>9, <3>2, <4>2, Paths
      <4>3. CASE n = 3
        BY <1>3, <1>6, <3>2, <4>3, Paths
      <4> QED
        BY <4>1, <4>2, <4>3
    <3> QED
      BY <1>5, <3>1, <3>2
  <2>2. Transfer!Follows(fs, path, n + 1)
    <3>1. \A i \in 1..n : fs[i].status = path[i]
      BY <1>2, <1>4, <1>6 DEF Transfer!Follows
    <3>2. path = Transfer!UNHOSTED => n + 1 >= 2
      BY <1>2
    <3> QED
      BY <1>2, <1>4, <2>1, <3>1, <3>2 DEF Transfer!Follows
  <2> QED
    BY <1>4, <1>5, <2>2 DEF Transfer!HistorySound, Transfer!Past, fs
<1> QED
  BY <1>7, <1>8, <1>9

LEMMA TransferInit == Transfer!Init => Transfer!TransferInv
<1> SUFFICES ASSUME Transfer!Init PROVE Transfer!TransferInv
  OBVIOUS
<1> DEFINE e == [status |-> "draft", own |-> None, hash |-> None]
<1>1. x1 = "draft" /\ x2 = <<e>> /\ x4 = Transfer!Transfer /\ x5 = [state |-> "idle", answer |-> Transfer!Transfer]
      /\ x7 = None /\ x8 = {}
  BY DEF Transfer!Init
<1>2. e \in [status : Transfer!Statuses, own : Lines \cup {None}, hash : Hashes \cup {None}] /\ e.status = "draft"
  BY DEF Transfer!Statuses, Transfer!TRAVEL_RULE_TRANSITIONS
<1> HIDE DEF e
<1>3. x2 \in Seq([status : Transfer!Statuses, own : Lines \cup {None}, hash : Hashes \cup {None}]) /\ Len(x2) = 1 /\ x2[1] = e
  BY <1>1, <1>2
<1>4. Transfer!Follows(x2, Transfer!MAIN, 1)
  BY <1>2, <1>3, Paths DEF Transfer!Follows
<1>5. Transfer!Past(x2)
  BY <1>3, <1>4 DEF Transfer!Past
<1>6. Transfer!HistorySound(Transfer!Transfer)
  BY <1>1, <1>2, <1>3, <1>5 DEF Transfer!HistorySound, Transfer!Transfer
<1>7. Transfer!CopySound
  BY <1>1 DEF Transfer!CopySound
<1> QED
  BY <1>1, <1>6, <1>7 DEF Transfer!TransferInv

(* What the answer of a change can say that is not a status.                *)
LEMMA NotAStatus == \A w \in {"awaited", "conflict", "error"} : w \notin Transfer!Statuses
BY DEF Transfer!Statuses, Transfer!TRAVEL_RULE_TRANSITIONS

(* A change under way whose answer is not the transfer.                     *)
LEMMA AnswerWithout ==
  ASSUME NEW q, DOMAIN q = {"id", "to", "own", "hash", "answer"},
         q.own \in Lines \cup {None}, q.hash \in Hashes \cup {None},
         NEW w \in {"awaited", "conflict", "error"},
         NEW r, r = [q EXCEPT !.answer = Transfer!Only(w)]
  PROVE  DOMAIN r = {"id", "to", "own", "hash", "answer"} /\ r.own = q.own /\ r.hash = q.hash /\ ~Transfer!Applied(r)
<1>1. DOMAIN r = {"id", "to", "own", "hash", "answer"} /\ r.own = q.own /\ r.hash = q.hash /\ r.answer.status = w
  BY DEF Transfer!Only
<1> QED
  BY <1>1, NotAStatus DEF Transfer!Applied

LEMMA TransferStep == Transfer!TransferInv /\ [Transfer!Next]_(Transfer!vars) => Transfer!TransferInv'
<1> SUFFICES ASSUME Transfer!TransferInv, [Transfer!Next]_(Transfer!vars) PROVE Transfer!TransferInv'
  OBVIOUS
<1> DEFINE SendOk(q) == /\ DOMAIN q = {"id", "to", "own", "hash", "answer"}
                        /\ q.own \in Lines \cup {None} /\ q.hash \in Hashes \cup {None}
                        /\ Transfer!Applied(q) => Transfer!HistorySound(q.answer)
           Now == [status |-> x1, events |-> x2]
<1>1. /\ Transfer!HistorySound(Now) /\ Transfer!HistorySound(x4) /\ Transfer!HistorySound(x5.answer)
      /\ DOMAIN x5 = {"state", "answer"} /\ x7 \in Hashes \cup {None}
      /\ \A q \in x8 : SendOk(q)
  BY DEF Transfer!TransferInv, Transfer!Transfer
<1>2. \/ x11 \/ \E q \in x8 : Transfer!Applied(q)
      \/ x5.state = "asked" \/ (x5.state = "answered" /\ x5.answer = Now)
      \/ (x5.state = "idle" /\ x4 = Now)
  BY DEF Transfer!TransferInv, Transfer!CopySound, Transfer!Transfer
<1>3. ASSUME /\ Transfer!HistorySound([status |-> x1', events |-> x2']) /\ Transfer!HistorySound(x4')
             /\ Transfer!HistorySound(x5'.answer)
             /\ DOMAIN x5' = {"state", "answer"} /\ x7' \in Hashes \cup {None}
             /\ \A q \in x8' : SendOk(q)
             /\ \/ x11' \/ \E q \in x8' : Transfer!Applied(q)
                \/ x5'.state = "asked"
                \/ (x5'.state = "answered" /\ x5'.answer = [status |-> x1', events |-> x2'])
                \/ (x5'.state = "idle" /\ x4' = [status |-> x1', events |-> x2'])
      PROVE  Transfer!TransferInv'
  BY <1>3 DEF Transfer!TransferInv, Transfer!CopySound, Transfer!Transfer, Transfer!HistorySound, Transfer!Past,
              Transfer!Follows, Transfer!Applied
<1>4. ASSUME UNCHANGED <<x1, x2, x4, x5, x8, x11>>, x7' \in Hashes \cup {None}
      PROVE  Transfer!TransferInv'
  BY <1>1, <1>2, <1>3, <1>4
<1>16. ASSUME UNCHANGED <<x1, x2>>, x7' \in Hashes \cup {None}, x8' \subseteq x8,
              NEW w, NEW t, x5' = [state |-> w, answer |-> t],
              Transfer!HistorySound(x4'), Transfer!HistorySound(t),
              \/ x11' \/ \E q \in x8' : Transfer!Applied(q)
              \/ w = "asked" \/ (w = "answered" /\ t = Now) \/ (w = "idle" /\ x4' = Now)
       PROVE  Transfer!TransferInv'
  <2>1. DOMAIN x5' = {"state", "answer"} /\ x5'.state = w /\ x5'.answer = t
    BY <1>16
  <2> HIDE DEF SendOk
  <2> QED
    BY <1>1, <1>3, <1>16, <2>1
<1>5. ASSUME NEW s, NEW h \in Hashes \cup {None}, Transfer!Open(s, h) PROVE Transfer!TransferInv'
  BY <1>4, <1>5 DEF Transfer!Open, Transfer!Api
<1>6. ASSUME NEW s, Transfer!OpenFromHeader(s) PROVE Transfer!TransferInv'
  BY <1>5, <1>6 DEF Transfer!OpenFromHeader
<1>7. CASE Transfer!MarkSettled
  BY <1>5, <1>7 DEF Transfer!MarkSettled
<1>8. CASE Transfer!Close
  BY <1>4, <1>8 DEF Transfer!Close, Transfer!Api
<1>9. ASSUME NEW h \in Hashes \cup {None}, Transfer!Type(h) PROVE Transfer!TransferInv'
  BY <1>4, <1>9 DEF Transfer!Type, Transfer!Api
<1>10. ASSUME NEW own \in Lines \cup {None}, Transfer!Submit(own) PROVE Transfer!TransferInv'
  <2> DEFINE r == [id |-> x10, to |-> x6, own |-> own, hash |-> x7, answer |-> Transfer!Only("awaited")]
  <2>1. x8' = x8 \cup {r} /\ UNCHANGED <<x1, x2, x4, x5, x7, x11>>
    BY <1>10 DEF Transfer!Submit, Transfer!Api, Transfer!Typed
  <2>2. DOMAIN r = {"id", "to", "own", "hash", "answer"} /\ r.own = own /\ r.hash = x7 /\ r.answer.status = "awaited"
    BY DEF Transfer!Only
  <2> HIDE DEF r
  <2>3. SendOk(r)
    BY <1>1, <2>2, NotAStatus DEF Transfer!Applied
  <2>4. \A q \in x8' : SendOk(q)
    BY <1>1, <2>1, <2>3
  <2> HIDE DEF SendOk
  <2> QED
    BY <1>1, <1>2, <1>3, <2>1, <2>4
<1>11. ASSUME NEW s, Transfer!Colleague(s) PROVE Transfer!TransferInv'
  <2>1. /\ s \in Transfer!TRAVEL_RULE_TRANSITIONS[x1] /\ x1' = s /\ x11'
        /\ x2' = Append(x2, [status |-> s, own |-> None, hash |-> None]) /\ UNCHANGED <<x4, x5, x7, x8>>
    BY <1>11 DEF Transfer!Colleague, Transfer!Moved, Transfer!Typed
  <2>2. Transfer!HistorySound([status |-> x1', events |-> x2'])
    <3>1. Now.status = x1 /\ Now.events = x2
      OBVIOUS
    <3> HIDE DEF Now, SendOk
    <3> QED
      BY <1>1, <2>1, <3>1, HistoryMoves
  <2> HIDE DEF SendOk, Now
  <2> QED
    BY <1>1, <1>3, <2>1, <2>2
<1>12. ASSUME NEW q \in x8, Transfer!Serve(q) PROVE Transfer!TransferInv'
  <2>1. q.answer.status = "awaited" /\ UNCHANGED <<x4, x5, x7, x11>>
    BY <1>12 DEF Transfer!Serve, Transfer!Typed
  <2>2. ~Transfer!Applied(q) /\ SendOk(q)
    BY <1>1, <2>1, NotAStatus DEF Transfer!Applied
  <2>3. CASE q.to \in Transfer!TRAVEL_RULE_TRANSITIONS[x1]
    <3> DEFINE t == [status |-> x1', events |-> x2']
               r == [q EXCEPT !.answer = t]
    <3>1. /\ x1' = q.to /\ x2' = Append(x2, [status |-> q.to, own |-> q.own, hash |-> q.hash])
          /\ x8' = (x8 \ {q}) \cup {r}
      BY <1>12, <2>3 DEF Transfer!Serve, Transfer!Moved
    <3>2. Transfer!HistorySound(t)
      <4>1. Now.status = x1 /\ t.status = q.to /\ t.events = Append(Now.events, [status |-> q.to, own |-> q.own, hash |-> q.hash])
        BY <3>1
      <4>2. Transfer!HistorySound(Now) /\ q.own \in Lines \cup {None} /\ q.hash \in Hashes \cup {None}
        BY <1>1, <2>2
      <4> HIDE DEF Now, t, SendOk, r
      <4> QED
        BY <2>3, <4>1, <4>2, HistoryMoves
    <3>3. DOMAIN r = {"id", "to", "own", "hash", "answer"} /\ r.own = q.own /\ r.hash = q.hash /\ r.answer = t
      BY <2>2
    <3>4. t.status \in Transfer!Statuses
      BY <3>2, TypedHistory
    <3> HIDE DEF t, r
    <3>5. SendOk(r) /\ Transfer!Applied(r)
      BY <2>2, <3>2, <3>3, <3>4 DEF Transfer!Applied
    <3>6. \A p \in x8' : SendOk(p)
      BY <1>1, <3>1, <3>5
    <3>7. \E p \in x8' : Transfer!Applied(p)
      BY <3>1, <3>5
    <3> HIDE DEF SendOk, Now
    <3> QED
      BY <1>1, <1>3, <2>1, <3>2, <3>6, <3>7 DEF t
  <2>4. CASE q.to \notin Transfer!TRAVEL_RULE_TRANSITIONS[x1]
    <3> DEFINE r == [q EXCEPT !.answer = Transfer!Only("conflict")]
    <3>1. UNCHANGED <<x1, x2>> /\ x8' = (x8 \ {q}) \cup {r}
      BY <1>12, <2>4 DEF Transfer!Serve
    <3>2. SendOk(r)
      BY <2>2, AnswerWithout
    <3> HIDE DEF r
    <3>3. \A p \in x8' : SendOk(p)
      BY <1>1, <3>1, <3>2
    <3>4. (\E p \in x8 : Transfer!Applied(p)) => \E p \in x8' : Transfer!Applied(p)
      BY <2>2, <3>1
    <3> HIDE DEF SendOk
    <3> QED
      BY <1>1, <1>2, <1>3, <2>1, <3>1, <3>3, <3>4
  <2> QED
    BY <2>3, <2>4
<1>13. ASSUME NEW q \in x8, Transfer!Cut(q) PROVE Transfer!TransferInv'
  <2> DEFINE r == [q EXCEPT !.answer = Transfer!Only("error")]
  <2>1. x8' = (x8 \ {q}) \cup {r} /\ x11' = (x11 \/ Transfer!Applied(q)) /\ UNCHANGED <<x1, x2, x4, x5, x7>>
    BY <1>13 DEF Transfer!Cut, Transfer!Typed, Transfer!Api
  <2>2. SendOk(r)
    BY <1>1, AnswerWithout
  <2> HIDE DEF r
  <2>3. \A p \in x8' : SendOk(p)
    BY <1>1, <2>1, <2>2
  <2>4. x11 \/ (\E p \in x8 : Transfer!Applied(p)) => x11' \/ \E p \in x8' : Transfer!Applied(p)
    BY <2>1
  <2> HIDE DEF SendOk
  <2> QED
    BY <1>1, <1>2, <1>3, <2>1, <2>3, <2>4
<1>14. ASSUME NEW q \in x8, Transfer!Done(q) PROVE Transfer!TransferInv'
  <2>1. /\ Transfer!Applied(q) /\ x4' = q.answer /\ x5' = [state |-> "asked", answer |-> x4]
        /\ x7' = None /\ x8' = x8 \ {q} /\ UNCHANGED <<x1, x2, x11>>
    BY <1>14 DEF Transfer!Done, Transfer!Api, Transfer!Asked
  <2>2. Transfer!HistorySound(x4') /\ x8' \subseteq x8 /\ x7' \in Hashes \cup {None}
    BY <1>1, <2>1
  <2> HIDE DEF SendOk, Now
  <2> QED
    BY <1>1, <1>16, <2>1, <2>2
<1>15. ASSUME NEW q \in x8, Transfer!NotDone(q) PROVE Transfer!TransferInv'
  <2>1. /\ q.answer.status \in {"conflict", "error"} /\ x8' = x8 \ {q} /\ UNCHANGED <<x1, x2, x4, x5, x11>>
        /\ x7' \in {None, x7}
    BY <1>15 DEF Transfer!NotDone, Transfer!Api
  <2>2. ~Transfer!Applied(q)
    BY <2>1, NotAStatus DEF Transfer!Applied
  <2>3. \A p \in x8' : SendOk(p)
    BY <1>1, <2>1
  <2> HIDE DEF SendOk
  <2> QED
    BY <1>1, <1>2, <1>3, <2>1, <2>2, <2>3
<1>17. CASE Transfer!Refetch
  <2>1. x5' = [state |-> "asked", answer |-> x4] /\ UNCHANGED <<x1, x2, x4, x7, x8>>
    BY <1>17 DEF Transfer!Refetch, Transfer!Asked, Transfer!Api, Transfer!Typed
  <2>2. x7' \in Hashes \cup {None} /\ Transfer!HistorySound(x4')
    BY <1>1, <2>1
  <2> HIDE DEF SendOk, Now
  <2> QED
    BY <1>1, <1>16, <2>1, <2>2
<1>18. CASE Transfer!ServeFetch
  <2>1. x5' = [state |-> "answered", answer |-> Now] /\ UNCHANGED <<x1, x2, x4, x7, x8>>
    BY <1>18 DEF Transfer!ServeFetch, Transfer!Transfer, Transfer!Api, Transfer!Typed
  <2>2. x7' \in Hashes \cup {None} /\ Transfer!HistorySound(x4')
    BY <1>1, <2>1
  <2> HIDE DEF SendOk, Now
  <2> QED
    BY <1>1, <1>16, <2>1, <2>2
<1>19. CASE Transfer!FetchArrives
  <2>1. /\ x5.state = "answered" /\ x4' = x5.answer /\ x5' = [state |-> "idle", answer |-> x4']
        /\ UNCHANGED <<x1, x2, x7, x8, x11>>
    BY <1>19 DEF Transfer!FetchArrives, Transfer!Api, Transfer!Typed
  <2> QED
    BY <1>1, <1>2, <1>16, <2>1
<1>20. CASE Transfer!FetchFails
  <2>1. x5' = [state |-> "idle", answer |-> x4] /\ x11' /\ UNCHANGED <<x1, x2, x4, x7, x8>>
    BY <1>20 DEF Transfer!FetchFails, Transfer!Api, Transfer!Typed
  <2> QED
    BY <1>1, <1>16, <2>1
<1>21. CASE UNCHANGED Transfer!vars
  BY <1>1, <1>4, <1>21 DEF Transfer!vars
<1> QED
  BY <1>6, <1>7, <1>8, <1>9, <1>10, <1>11, <1>12, <1>13, <1>14, <1>15, <1>17, <1>18, <1>19, <1>20, <1>21
  DEF Transfer!Next

(* A track that goes on without coming back, and begins as the history      *)
(* does, tells it.                                                          *)
LEMMA Tells ==
  ASSUME NEW n \in Nat \ {0}, NEW es, DOMAIN es = 1..n, NEW status, status = es[n].status,
         NEW m \in Nat, n <= m, NEW steps, DOMAIN steps = 1..m,
         \A i \in 1..n : steps[i] = es[i].status,
         \A i, j \in 1..m : steps[i] = steps[j] => i = j
  PROVE  LET at(s) == CHOOSE i \in DOMAIN steps : steps[i] = s
             visited == {es[i].status : i \in DOMAIN es}
         IN  /\ visited \subseteq {steps[i] : i \in DOMAIN steps}
             /\ \A i, j \in DOMAIN es : i < j => at(es[i].status) < at(es[j].status)
             /\ \A s \in {steps[i] : i \in DOMAIN steps} : at(s) <= at(status) <=> s \in visited
<1> DEFINE at(s) == CHOOSE i \in DOMAIN steps : steps[i] = s
           visited == {es[i].status : i \in DOMAIN es}
<1>1. \A j \in 1..m : at(steps[j]) = j
  <2> SUFFICES ASSUME NEW j \in 1..m PROVE at(steps[j]) = j
    OBVIOUS
  <2>1. at(steps[j]) \in 1..m /\ steps[at(steps[j])] = steps[j]
    OBVIOUS
  <2> HIDE DEF at
  <2> QED
    BY <2>1
<1> HIDE DEF at
<1>2. \A i \in 1..n : i \in 1..m /\ at(es[i].status) = i
  BY <1>1
<1>3. visited \subseteq {steps[i] : i \in DOMAIN steps}
  BY <1>2
<1>4. \A i, j \in DOMAIN es : i < j => at(es[i].status) < at(es[j].status)
  BY <1>2
<1>5. at(status) = n
  BY <1>2
<1>6. ASSUME NEW s \in {steps[i] : i \in DOMAIN steps} PROVE at(s) <= at(status) <=> s \in visited
  <2>1. PICK j \in 1..m : s = steps[j] /\ at(s) = j
    BY <1>1
  <2>2. j <= n => s \in visited
    BY <2>1
  <2>3. s \in visited => j <= n
    BY <1>2, <2>1
  <2> QED
    BY <1>5, <2>1, <2>2, <2>3
<1> QED
  BY <1>3, <1>4, <1>6 DEF at

(* A path with one more at its end.                                        *)
LEMMA Ended ==
  ASSUME NEW S, NEW q \in Seq(S), NEW e
  PROVE  /\ Len(q \o <<e>>) = Len(q) + 1 /\ DOMAIN (q \o <<e>>) = 1..Len(q) + 1
         /\ \A i \in 1..Len(q) : (q \o <<e>>)[i] = q[i]
         /\ (q \o <<e>>)[Len(q) + 1] = e
OBVIOUS

(* The last of the first n.                                                 *)
LEMMA LastOf ==
  ASSUME NEW n \in Nat, NEW S \in SUBSET (1..n), n \in S
  PROVE  Transfer!Max(S) = n
<1>1. Transfer!Max(S) = CHOOSE x \in S : \A y \in S : x >= y
  BY DEF Transfer!Max
<1>2. \A y \in S : n >= y
  OBVIOUS
<1>3. \A x \in S : (\A y \in S : x >= y) => x = n
  OBVIOUS
<1> QED
  BY <1>1, <1>2, <1>3

(* What the track is made of, for a sound history.                          *)
LEMMA TrackBegins ==
  ASSUME NEW t, Transfer!HistorySound(t)
  PROVE  LET steps == Transfer!trackSteps(t) IN
           /\ Len(steps) \in Nat /\ Len(t.events) <= Len(steps) /\ DOMAIN steps = 1..Len(steps)
           /\ \A i \in 1..Len(t.events) : steps[i] = t.events[i].status
           /\ \A i, j \in 1..Len(steps) : steps[i] = steps[j] => i = j
<1> DEFINE es == t.events
           n == Len(es)
           steps == Transfer!trackSteps(t)
<1>1. n \in Nat \ {0} /\ DOMAIN es = 1..n /\ t.status = es[n].status /\ Transfer!Past(es)
  BY TypedHistory DEF Transfer!HistorySound
<1> HIDE DEF es, n
<1>2. PICK path \in {Transfer!MAIN, Transfer!UNHOSTED} :
         \/ Transfer!Follows(es, path, n)
         \/ Transfer!Follows(es, path, n - 1) /\ n >= 3 /\ es[n].status = "rejected"
  BY <1>1 DEF Transfer!Past, n
<1>3. /\ path \in Seq(Transfer!Statuses) /\ Len(path) \in 3..5 /\ DOMAIN path = 1..Len(path)
      /\ \A i \in 1..Len(path) : path[i] # "rejected"
      /\ \A i, j \in 1..Len(path) : path[i] = path[j] => i = j
  <2>1. path \in Seq(Transfer!Statuses) /\ Len(path) \in 3..5
    BY PathsGoOn
  <2>2. DOMAIN path = 1..Len(path)
    BY <2>1
  <2> QED
    BY <2>1, <2>2, PathsGoOn
<1>4. Transfer!Visited(t) = {es[i].status : i \in 1..n}
  BY <1>1 DEF Transfer!Visited, es
<1>5. ASSUME NEW k \in 1..n, Transfer!Follows(es, path, k), \A i \in k + 1..n : es[i].status = "rejected"
      PROVE  Transfer!Path(t) = path
  <2>1. k <= Len(path) /\ \A i \in 1..k : es[i].status = path[i]
    BY <1>3, <1>5 DEF Transfer!Follows
  <2>2. CASE path = Transfer!UNHOSTED
    <3>1. k >= 2 /\ es[2].status = "unhosted_verification"
      BY <1>5, <2>1, <2>2, Paths DEF Transfer!Follows
    <3> QED
      BY <1>1, <1>4, <1>5, <2>2, <3>1 DEF Transfer!Path
  <2>3. CASE path = Transfer!MAIN
    <3>1. \A i \in 1..5 : path[i] # "unhosted_verification"
      <4>1. \A i \in 1..5 : i = 1 \/ i = 2 \/ i = 3 \/ i = 4 \/ i = 5
        OBVIOUS
      <4> QED
        BY <2>3, <4>1, Paths
    <3>2. k <= 5
      BY <2>1, <2>3, Paths
    <3>3. \A i \in 1..n : es[i].status # "unhosted_verification"
      BY <1>1, <1>5, <2>1, <3>1, <3>2
    <3> QED
      BY <1>4, <2>3, <3>3 DEF Transfer!Path
  <2> QED
    BY <2>2, <2>3
<1>6. CASE Transfer!Follows(es, path, n)
  <2>1. Transfer!Path(t) = path
    BY <1>1, <1>5, <1>6
  <2>2. n <= Len(path) /\ \A i \in 1..n : es[i].status = path[i]
    BY <1>1, <1>3, <1>6 DEF Transfer!Follows
  <2>3. t.status # "rejected"
    BY <1>1, <1>3, <2>2
  <2>4. steps = path
    BY <2>1, <2>3 DEF Transfer!trackSteps
  <2> HIDE DEF steps
  <2> QED
    BY <1>3, <2>2, <2>4 DEF es, n, steps
<1>7. CASE Transfer!Follows(es, path, n - 1) /\ n >= 3 /\ es[n].status = "rejected"
  <2> DEFINE k == n - 1
             reached == {i \in DOMAIN path : path[i] \in Transfer!Visited(t)}
             R == <<"rejected">>
  <2>1. k \in 1..n /\ k + 1 = n /\ Transfer!Follows(es, path, k)
    BY <1>1, <1>7
  <2>2. Transfer!Path(t) = path
    <3>1. \A i \in k + 1..n : es[i].status = "rejected"
      BY <1>1, <1>7
    <3> HIDE DEF k
    <3> QED
      BY <1>5, <2>1, <3>1
  <2>3. k <= Len(path) /\ \A i \in 1..k : es[i].status = path[i]
    BY <1>3, <2>1 DEF Transfer!Follows
  <2>4. reached = 1..k
    <3> HIDE DEF k
    <3>1. \A i \in 1..k : path[i] \in Transfer!Visited(t)
      BY <1>1, <1>4, <2>1, <2>3
    <3>2. ASSUME NEW i \in 1..Len(path), path[i] \in Transfer!Visited(t) PROVE i \in 1..k
      <4>1. PICK j \in 1..n : path[i] = es[j].status
        BY <1>4, <3>2
      <4>2. j \in 1..k
        BY <1>1, <1>3, <1>7, <2>1, <4>1
      <4>3. path[i] = path[j] /\ j \in 1..Len(path)
        BY <1>3, <2>1, <2>3, <4>1, <4>2
      <4> QED
        BY <1>3, <4>2, <4>3
    <3> QED
      BY <1>3, <2>1, <2>3, <3>1, <3>2
  <2>5. Transfer!Max(reached) = k
    <3>1. k \in Nat /\ k \in 1..k
      BY <1>1, <2>1
    <3> HIDE DEF k, reached
    <3> QED
      BY <2>4, <3>1, LastOf
  <2>6. steps = SubSeq(path, 1, k) \o R
    <3>1. t.status = "rejected"
      BY <1>1, <1>7
    <3>2. steps = SubSeq(Transfer!Path(t), 1, Transfer!Max({i \in DOMAIN Transfer!Path(t) :
                                          Transfer!Path(t)[i] \in Transfer!Visited(t)})) \o R
      BY <3>1 DEF Transfer!trackSteps
    <3> QED
      BY <2>2, <2>5, <3>2
  <2> HIDE DEF k, reached, steps
  <2> HIDE DEF R
  <2> DEFINE q == SubSeq(path, 1, k)
  <2>8. q \in Seq(Transfer!Statuses) /\ Len(q) = k /\ \A i \in 1..k : q[i] = path[i]
    BY <1>3, <2>1, <2>3
  <2> HIDE DEF q
  <2>9. /\ Len(steps) = n /\ DOMAIN steps = 1..n /\ \A i \in 1..k : steps[i] = path[i]
        /\ steps[n] = "rejected"
    <3>1. steps = q \o <<"rejected">>
      BY <2>6 DEF q, R
    <3>2. /\ Len(steps) = Len(q) + 1 /\ DOMAIN steps = 1..Len(q) + 1
          /\ \A i \in 1..Len(q) : steps[i] = q[i]
          /\ steps[Len(q) + 1] = "rejected"
      BY <2>8, <3>1, Ended
    <3> QED
      BY <2>1, <2>8, <3>2
  <2>10. \A i \in 1..n : steps[i] = es[i].status
    BY <1>1, <1>7, <2>1, <2>3, <2>9
  <2>11. \A i, j \in 1..n : steps[i] = steps[j] => i = j
    <3>1. \A i \in 1..n : i \in 1..k \/ i = n
      BY <1>1, <2>1
    <3>2. \A i \in 1..k : i \in 1..Len(path)
      BY <1>3, <2>1, <2>3
    <3> QED
      BY <1>3, <2>9, <3>1, <3>2
  <2> QED
    BY <1>1, <2>9, <2>10, <2>11 DEF es, n, steps
<1> QED
  BY <1>2, <1>6, <1>7

LEMMA TransferShows ==
  Transfer!TransferInv => Transfer!CopyCatchesUp /\ Transfer!TrackTellsHistory /\ Transfer!SettlementHashShown
<1> SUFFICES ASSUME Transfer!TransferInv
             PROVE  Transfer!CopyCatchesUp /\ Transfer!TrackTellsHistory /\ Transfer!SettlementHashShown
  OBVIOUS
<1>1. Transfer!CopyCatchesUp
  BY DEF Transfer!TransferInv, Transfer!CopySound, Transfer!CopyCatchesUp
<1>2. Transfer!HistorySound(x4)
  BY DEF Transfer!TransferInv
<1> DEFINE es == x4.events
           n == Len(es)
<1>3. n \in Nat \ {0} /\ DOMAIN es = 1..n /\ x4.status = es[n].status
  BY <1>2, TypedHistory
<1>4. Transfer!TrackTellsHistory
  <2> DEFINE steps == Transfer!trackSteps(x4)
             m == Len(steps)
  <2>1. /\ m \in Nat /\ n <= m /\ DOMAIN steps = 1..m
        /\ \A i \in 1..n : steps[i] = es[i].status
        /\ \A i, j \in 1..m : steps[i] = steps[j] => i = j
    BY <1>2, TrackBegins
  <2> DEFINE at(s) == CHOOSE i \in DOMAIN steps : steps[i] = s
             visited == {es[i].status : i \in DOMAIN es}
             status == x4.status
  <2> HIDE DEF steps, m, n, es, status
  <2>2. /\ visited \subseteq {steps[i] : i \in DOMAIN steps}
        /\ \A i, j \in DOMAIN es : i < j => at(es[i].status) < at(es[j].status)
        /\ \A s \in {steps[i] : i \in DOMAIN steps} : at(s) <= at(status) <=> s \in visited
    <3>1. status = es[n].status
      BY <1>3 DEF status
    <3> QED
      BY <1>3, <2>1, <3>1, Tells
  <2> QED
    BY <2>2 DEF Transfer!TrackTellsHistory, Transfer!Visited, Transfer!ToSet, steps, es, status
<1>5. Transfer!SettlementHashShown
  <2> SUFFICES ASSUME x3 = None, Transfer!Last(es).hash # None
               PROVE  Transfer!txHashFromEvents(x4) = Transfer!Line(Transfer!Last(es))
    BY DEF Transfer!SettlementHashShown, Transfer!Line
  <2> DEFINE noted == {i \in DOMAIN es : Transfer!Line(es[i]) # None}
  <2>1. Transfer!Last(es) = es[n]
    BY DEF Transfer!Last
  <2>2. n \in noted /\ noted \subseteq 1..n
    BY <1>3, <2>1 DEF Transfer!Line
  <2> HIDE DEF n, noted, es
  <2>3. n \in Nat
    BY <1>3
  <2>4. Transfer!Max(noted) = n
    BY <2>2, <2>3, LastOf
  <2> QED
    BY <2>1, <2>2, <2>4 DEF Transfer!txHashFromEvents, noted, es
<1> QED
  BY <1>1, <1>4, <1>5

-----------------------------------------------------------------------------
(* Signing in and out (AuthPages).                                          *)

LEMMA AuthInit == Auth!Init => Auth!AuthInv
<1> SUFFICES ASSUME Auth!Init PROVE Auth!AuthInv
  OBVIOUS
<1>1. x1 \in AuthOrgs \cup {None} /\ x2 \in BOOLEAN /\ x5 = "invite" /\ x7 = "unknown" /\ x10 = None /\ x13 = {}
  BY DEF Auth!Init, Auth!Unknown
<1>2. Auth!LooksSignedOut
  BY <1>1, AnswersAreNoOrgs DEF Auth!LooksSignedOut, Auth!SignedOut
<1> QED
  BY <1>1, <1>2 DEF Auth!AuthInv, Auth!Dashboard

(* The edge leads nobody without a cookie to the dashboard.                 *)
LEMMA ProxyGuards ==
  ASSUME NEW p, NEW c \in BOOLEAN, Auth!proxy(p, c) \in Auth!Dashboard
  PROVE  c
BY DEF Auth!proxy, Auth!Dashboard

(* Nothing but a form's answer changes the forms sent; and that it is shown  *)
(* elsewhere changes nothing of it.                                          *)
LEMMA FormsLeft ==
  ASSUME NEW os, \A o \in os : Auth!SignsIn(o), NEW q
  PROVE  \A o \in Auth!Left(os, q) : Auth!SignsIn(o)
<1>1. ASSUME NEW o \in os PROVE Auth!SignsIn([o EXCEPT !.here = FALSE])
  <2> DEFINE r == [o EXCEPT !.here = FALSE]
  <2>1. DOMAIN r = DOMAIN o /\ \A f \in DOMAIN o : f # "here" => r[f] = o[f]
    OBVIOUS
  <2>2. DOMAIN o = {"id", "kind", "here", "answer", "org"}
    BY <1>1 DEF Auth!SignsIn
  <2>3. r.kind = o.kind /\ r.answer = o.answer /\ r.org = o.org
    BY <2>2
  <2> QED
    BY <2>1, <2>2, <2>3 DEF Auth!SignsIn
<1> QED
  BY <1>1 DEF Auth!Left

LEMMA AuthStep == Auth!AuthInv /\ [Auth!Next]_(Auth!vars) => Auth!AuthInv'
<1> SUFFICES ASSUME Auth!AuthInv, [Auth!Next]_(Auth!vars) PROVE Auth!AuthInv'
  OBVIOUS
<1> DEFINE NoSession == x1 = None \/ ~x2
<1>1. /\ x1 \in AuthOrgs \cup {None} /\ x2 \in BOOLEAN /\ (x5 \in Auth!Dashboard => x2)
      /\ \A o \in x13 : Auth!SignsIn(o)
      /\ x15 = "none" /\ (x7 = "null" \/ x10 = "null") => NoSession
  BY DEF Auth!AuthInv, Auth!LooksSignedOut, Auth!SignedOut
<1>2. ASSUME x1' \in AuthOrgs \cup {None}, x2' \in BOOLEAN, x5' \in Auth!Dashboard => x2',
             \A o \in x13' : Auth!SignsIn(o),
             x15' = "none" /\ (x7' = "null" \/ x10' = "null") => x1' = None \/ ~x2'
      PROVE  Auth!AuthInv'
  BY <1>2 DEF Auth!AuthInv, Auth!LooksSignedOut, Auth!SignedOut, Auth!SignsIn, Auth!Dashboard
<1>3. ASSUME NEW p, Auth!Follow(p) PROVE Auth!AuthInv'
  <2>1. /\ UNCHANGED <<x1, x2, x7, x10, x15>> /\ x5' = Auth!proxy(p, x2) /\ x13' = Auth!Left(x13, x5')
    BY <1>3 DEF Auth!Follow, Auth!Go, Auth!Api, Auth!Query
  <2> QED
    BY <1>1, <1>2, <2>1, ProxyGuards, FormsLeft
<1>4. ASSUME NEW p, Auth!Load(p) PROVE Auth!AuthInv'
  <2>1. /\ UNCHANGED <<x1, x2, x15>> /\ x5' = Auth!proxy(p, x2) /\ x13' = {} /\ x7' = "unknown" /\ x10' = None
    BY <1>4 DEF Auth!Load, Auth!Api, Auth!Unknown
  <2>2. None # "null"
    BY AnswersAreNoOrgs
  <2> QED
    BY <1>1, <1>2, <2>1, <2>2, ProxyGuards
<1>5. CASE Auth!FetchMe \/ Auth!Retry \/ Auth!MeAges \/ Auth!MeFails
  <2>1. /\ UNCHANGED <<x1, x2, x5, x7, x13, x15>> /\ x10' \in {None, "awaited", x10}
    BY <1>5 DEF Auth!FetchMe, Auth!Retry, Auth!MeAges, Auth!MeFails, Auth!Api, Auth!Client
  <2>2. None # "null"
    BY AnswersAreNoOrgs
  <2> QED
    BY <1>1, <1>2, <2>1, <2>2
<1>6. CASE Auth!ServeMe
  <2>1. /\ UNCHANGED <<x1, x2, x5, x7, x13, x15>>
        /\ x10' = (IF x2 /\ x1 # None THEN x1 ELSE "null")
    BY <1>6 DEF Auth!ServeMe, Auth!Api, Auth!Client, Auth!SignedOut
  <2>2. x1 # "null"
    BY <1>1, AnswersAreNoOrgs
  <2> QED
    BY <1>1, <1>2, <2>1, <2>2
<1>7. CASE Auth!MeArrives
  <2>1. UNCHANGED <<x1, x2, x5, x13, x15>> /\ x7' = x10 /\ x10' = None
    BY <1>7 DEF Auth!MeArrives, Auth!Api
  <2>2. None # "null"
    BY AnswersAreNoOrgs
  <2> QED
    BY <1>1, <1>2, <2>1, <2>2
<1>8. CASE Auth!ToLogin
  <2>1. UNCHANGED <<x1, x2, x7, x10, x15>> /\ x5' = Auth!proxy("login", x2) /\ x13' = Auth!Left(x13, x5')
    BY <1>8 DEF Auth!ToLogin, Auth!Api, Auth!Query
  <2> QED
    BY <1>1, <1>2, <2>1, ProxyGuards, FormsLeft
<1>9. ASSUME NEW kind, Auth!Submit(kind) PROVE Auth!AuthInv'
  <2> DEFINE r == [id |-> x14, kind |-> kind, here |-> TRUE, answer |-> "awaited", org |-> None]
  <2>1. UNCHANGED <<x1, x2, x5, x7, x10, x15>> /\ x13' = x13 \cup {r}
    BY <1>9 DEF Auth!Submit, Auth!Api, Auth!Query
  <2>2. Auth!SignsIn(r)
    BY DEF Auth!SignsIn
  <2> HIDE DEF r
  <2> QED
    BY <1>1, <1>2, <2>1, <2>2
<1>10. ASSUME NEW o \in x13, Auth!Serve(o) PROVE Auth!AuthInv'
  <2>1. PICK org \in AuthOrgs :
          x13' = (x13 \ {o}) \cup {[o EXCEPT !.answer = "ok",
                                  !.org = IF o.kind \in {"login", "signup", "accept"} THEN org ELSE None]}
    BY <1>10 DEF Auth!Serve
  <2>2. UNCHANGED <<x2, x5, x7, x10, x15>> /\ x1' \in {None, x1}
    BY <1>10 DEF Auth!Serve, Auth!Client, Auth!Query
  <2> DEFINE new == IF o.kind \in {"login", "signup", "accept"} THEN org ELSE None
             r == [o EXCEPT !.answer = "ok", !.org = new]
  <2>3. DOMAIN o = {"id", "kind", "here", "answer", "org"}
    BY <1>1 DEF Auth!SignsIn
  <2>4. DOMAIN r = DOMAIN o /\ r.kind = o.kind /\ r.org = new
    <3> HIDE DEF new
    <3> QED
      BY <2>3
  <2>5. x13' = (x13 \ {o}) \cup {r}
    BY <2>1
  <2> HIDE DEF r
  <2>6. Auth!SignsIn(r)
    BY <2>3, <2>4 DEF Auth!SignsIn
  <2> HIDE DEF new
  <2> QED
    BY <1>1, <1>2, <2>2, <2>5, <2>6
<1>11. ASSUME NEW o \in x13, Auth!Fails(o) PROVE Auth!AuthInv'
  <2> DEFINE r == [o EXCEPT !.answer = "error"]
  <2>1. /\ UNCHANGED <<x1, x2, x5, x7, x10, x15>> /\ x13' = (x13 \ {o}) \cup {r}
    BY <1>11 DEF Auth!Fails, Auth!Api, Auth!Client, Auth!Query
  <2>2. DOMAIN o = {"id", "kind", "here", "answer", "org"}
    BY <1>1 DEF Auth!SignsIn
  <2>3. DOMAIN r = DOMAIN o /\ r.answer = "error"
    BY <2>2
  <2> HIDE DEF r
  <2>4. Auth!SignsIn(r)
    BY <2>2, <2>3 DEF Auth!SignsIn
  <2> QED
    BY <1>1, <1>2, <2>1, <2>4
<1>12. ASSUME NEW o \in x13 PROVE \A q : \A p \in Auth!Left(x13 \ {o}, q) : Auth!SignsIn(p)
  BY <1>1, FormsLeft
<1>13. ASSUME NEW o \in x13, Auth!SignedIn(o) PROVE Auth!AuthInv'
  <2>1. /\ x1' = o.org /\ x2' = TRUE /\ x7' = o.org /\ x13' = Auth!Left(x13 \ {o}, x5')
        /\ x10' \in {None, x10} /\ (x15' = "none" => x10' = None)
    BY <1>13 DEF Auth!SignedIn, Auth!Clear, Auth!SetMe
  <2>2. o.org \in AuthOrgs
    BY <1>1, <1>13 DEF Auth!SignedIn, Auth!SignsIn
  <2>3. o.org # "null" /\ None # "null"
    BY <2>2, AnswersAreNoOrgs
  <2> QED
    BY <1>2, <1>12, <2>1, <2>2, <2>3
<1>14. ASSUME NEW o \in x13, Auth!LoggedOut(o) PROVE Auth!AuthInv'
  <2>1. /\ x2' = (x2 /\ o.answer # "ok") /\ o.answer \in {"ok", "error"}
        /\ x15' = (IF o.answer = "error" THEN "logout failed" ELSE x15)
        /\ x1' = x1 /\ x7' = "null" /\ x10' = None /\ x13' = Auth!Left(x13 \ {o}, x5')
        /\ x5' = Auth!proxy(IF o.kind = "logout" THEN "login" ELSE "signup", x2')
    BY <1>14 DEF Auth!LoggedOut, Auth!Clear, Auth!Go, Auth!SignedOut
  <2>2. x2' \in BOOLEAN
    BY <1>1, <2>1
  <2>3. x5' \in Auth!Dashboard => x2'
    BY <2>1, <2>2, ProxyGuards
  <2>4. x15' = "none" => ~x2'
    BY <2>1
  <2> QED
    BY <1>1, <1>2, <1>12, <2>1, <2>2, <2>3, <2>4
<1>15. ASSUME NEW o \in x13, Auth!LeftOrg(o) PROVE Auth!AuthInv'
  <2>1. /\ UNCHANGED <<x1, x2, x15>> /\ x7' = "unknown" /\ x10' = None /\ x13' = Auth!Left(x13 \ {o}, x5')
        /\ x5' = Auth!proxy("login", x2)
    BY <1>15 DEF Auth!LeftOrg, Auth!Clear, Auth!Go, Auth!Unknown, Auth!Api
  <2>2. None # "null"
    BY AnswersAreNoOrgs
  <2> QED
    BY <1>1, <1>2, <1>12, <2>1, <2>2, ProxyGuards
<1>16. ASSUME NEW o \in x13, Auth!PasswordReset(o) PROVE Auth!AuthInv'
  <2>1. /\ UNCHANGED <<x1, x15>> /\ x2' = FALSE /\ x13' = Auth!Left(x13 \ {o}, x5')
        /\ x5' = Auth!proxy("login", FALSE)
    BY <1>16 DEF Auth!PasswordReset, Auth!Go
  <2>2. x5' \notin Auth!Dashboard
    BY <2>1, ProxyGuards
  <2>3. x2' \in BOOLEAN /\ ~x2'
    BY <2>1, Zenon
  <2> QED
    BY <1>1, <1>2, <1>12, <2>1, <2>2, <2>3
<1>17. ASSUME NEW o \in x13, Auth!LinkFollowed(o) \/ Auth!Shown(o) PROVE Auth!AuthInv'
  <2>1. UNCHANGED <<x1, x2, x5, x7, x10, x15>> /\ x13' = x13 \ {o}
    BY <1>17 DEF Auth!LinkFollowed, Auth!Shown, Auth!Api, Auth!Query
  <2> QED
    BY <1>1, <1>2, <2>1
<1>18. CASE Auth!Revoke
  <2>1. UNCHANGED <<x2, x5, x7, x10, x13, x15>> /\ x1' = None
    BY <1>18 DEF Auth!Revoke, Auth!Client, Auth!Query
  <2> QED
    BY <1>1, <1>2, <2>1
<1>19. CASE UNCHANGED Auth!vars
  BY <1>1, <1>2, <1>19 DEF Auth!vars
<1> QED
  BY <1>3, <1>4, <1>5, <1>6, <1>7, <1>8, <1>9, <1>10, <1>11, <1>13, <1>14, <1>15, <1>16, <1>17, <1>18, <1>19
  DEF Auth!Next, Auth!Handler

-----------------------------------------------------------------------------
(* The cache of a tab (QueryCache).                                         *)

(* Every key that shows what a write changes is invalidated by it, but for  *)
(* the known gaps.                                                          *)
LEMMA ShownIsInvalidated ==
  ASSUME NEW op \in Cache!Ops, NEW k \in Cache!Keys, Cache!Shows(op, k)
  PROVE  k \in Cache!Invalidates[op]
<1>1. /\ k # "audit" /\ (k = "deliveries" => op = "webhook")
      /\ <<op, k>> \notin {<<"transition", "overview">>, <<"profile", "org">>, <<"profile", "alerts">>, <<"profile", "overview">>}
  BY DEF Cache!Shows, Cache!Gap
<1>2. Cache!Writes[op] \cap Cache!Reads(k) # {}
  <2>1. "audit" \notin Cache!Reads(k)
    BY <1>1 DEF Cache!Reads, Cache!Keys
  <2> QED
    BY <2>1 DEF Cache!Shows, Cache!Changes
<1>3. op \in {"screen", "watch", "decide", "send", "transition", "key", "invite", "member", "webhook", "report",
             "rename", "profile"}
  BY DEF Cache!Ops, Cache!Writes
<1>4. /\ Cache!Writes["screen"] = {"screenings", "deliveries"}
      /\ Cache!Writes["watch"] = {"wallets", "alerts", "deliveries"}
      /\ Cache!Writes["decide"] = {"alerts", "deliveries"} /\ Cache!Writes["send"] = {"transfers", "deliveries"}
      /\ Cache!Writes["transition"] = {"transfers", "deliveries"} /\ Cache!Writes["key"] = {"apiKeys"}
      /\ Cache!Writes["invite"] = {"invites"} /\ Cache!Writes["member"] = {"membership"}
      /\ Cache!Writes["webhook"] = {"webhooks", "deliveries"} /\ Cache!Writes["report"] = {"reports", "deliveries"}
      /\ Cache!Writes["rename"] = {"orgName"} /\ Cache!Writes["profile"] = {"profile"}
  BY DEF Cache!Writes
<1>5. /\ Cache!Invalidates["screen"] = {"screenings", "overview"}
      /\ Cache!Invalidates["watch"] = {"wallets", "alerts", "overview"}
      /\ Cache!Invalidates["decide"] = {"alerts", "overview"} /\ Cache!Invalidates["send"] = {"travelRule", "overview"}
      /\ Cache!Invalidates["transition"] = {"travelRule"} /\ Cache!Invalidates["key"] = {"apiKeys"}
      /\ Cache!Invalidates["invite"] = {"invites"} /\ Cache!Invalidates["member"] = {"org", "me"}
      /\ Cache!Invalidates["webhook"] = {"webhooks", "deliveries"} /\ Cache!Invalidates["report"] = {"reports"}
      /\ Cache!Invalidates["rename"] = {"org", "me"} /\ Cache!Invalidates["profile"] = {"me"}
  BY DEF Cache!Invalidates
<1>6. CASE k \in {"me", "org"}
  <2>1. Cache!Reads(k) = {"profile", "orgName", "membership"}
    BY <1>6 DEF Cache!Reads
  <2> QED
    BY <1>1, <1>2, <1>3, <1>4, <1>5, <1>6, <2>1
<1>7. CASE k \in {"overview", "alerts"}
  <2>1. /\ k = "overview" => Cache!Reads(k) = {"screenings", "wallets", "alerts", "transfers", "profile"}
        /\ k = "alerts" => Cache!Reads(k) = {"alerts", "wallets", "profile"}
    BY <1>7 DEF Cache!Reads
  <2> QED
    BY <1>1, <1>2, <1>3, <1>4, <1>5, <1>7, <2>1
<1>8. CASE k = "travelRule"
  <2>1. Cache!Reads(k) = {"transfers"}
    BY <1>8 DEF Cache!Reads
  <2> QED
    BY <1>1, <1>2, <1>3, <1>4, <1>5, <1>8, <2>1
<1>9. CASE k \in Cache!Keys \ {"me", "org", "overview", "alerts", "travelRule"}
  <2>1. Cache!Reads(k) = {k}
    BY <1>9 DEF Cache!Reads, Cache!Keys
  <2>2. k \in Cache!Writes[op]
    BY <1>2, <2>1
  <2>3. k \notin {"transfers", "membership", "orgName", "profile"}
    BY DEF Cache!Keys
  <2> QED
    BY <1>1, <1>3, <1>4, <1>5, <1>9, <2>2, <2>3
<1> QED
  BY <1>6, <1>7, <1>8, <1>9

(* The pieces of a request and of an answer.                                *)
LEMMA Requests ==
  /\ Cache!Asked \in Cache!Fetches /\ Cache!Asked.answer = None /\ Cache!Asked.late = FALSE
  /\ \A f \in Cache!Fetches : f # None /\ f.answer \in Cache!Known \cup {None} /\ f.late \in BOOLEAN
  /\ \A f \in Cache!Fetches : LET g == [f EXCEPT !.late = TRUE] IN
       g \in Cache!Fetches /\ g.late = TRUE /\ g.answer = f.answer
  /\ \A f \in Cache!Fetches, a \in Cache!Known : LET g == [f EXCEPT !.answer = a] IN
       g \in Cache!Fetches /\ g.late = f.late /\ g.answer = a
<1>1. Cache!Asked \in Cache!Fetches /\ Cache!Asked.answer = None
  BY DEF Cache!Asked, Cache!Fetches
<1>2. Cache!Asked.late = FALSE
  BY DEF Cache!Asked
<1>3. \A f \in Cache!Fetches : f # None /\ f.answer \in Cache!Known \cup {None} /\ f.late \in BOOLEAN
  BY NoneIsNoRequest DEF Cache!Fetches
<1>4. \A f \in Cache!Fetches : LET g == [f EXCEPT !.late = TRUE] IN
        g \in Cache!Fetches /\ g.late = TRUE /\ g.answer = f.answer
  BY DEF Cache!Fetches
<1>5. \A f \in Cache!Fetches, a \in Cache!Known : LET g == [f EXCEPT !.answer = a] IN
        g \in Cache!Fetches /\ g.late = f.late /\ g.answer = a
  BY DEF Cache!Fetches
<1> QED
  BY <1>1, <1>2, <1>3, <1>4, <1>5

(* What the API knows of an org.                                            *)
Written(org) == {w.id : w \in {v \in x2 : v.org = org}}

LEMMA CacheInit == Cache!Init => Cache!CacheInv
<1> SUFFICES ASSUME Cache!Init PROVE Cache!CacheInv
  OBVIOUS
<1>1. PICK o \in Orgs, s \in Followed :
        /\ x1 = o /\ x2 = {} /\ x3 = s.keys \cup {"me"} /\ x4 \in Cache!Pages
        /\ x5 = [k \in Cache!Keys |-> IF k = "me" THEN [org |-> o, knows |-> {}, late |-> FALSE] ELSE None]
        /\ x8 = [k \in Cache!Keys |-> IF k \in Cache!MountedOn(x4) \ {"me"} THEN Cache!Asked ELSE None]
        /\ x9 = {} /\ x10 = {} /\ x11 = 0 /\ x14 = {}
  BY DEF Cache!Init
<1>2. s.keys \in SUBSET Cache!Keys
  BY DEF Followed, Cache!Keys
<1>3. [org |-> o, knows |-> {}, late |-> FALSE] \in Cache!Answers
  BY DEF Cache!Answers
<1>4. Cache!Typed
  BY <1>1, <1>2, <1>3, Requests DEF Cache!Typed, Cache!Pages, Cache!Keys
<1>5. Cache!IdsApart
  BY <1>1 DEF Cache!IdsApart
<1>6. \A k \in Cache!Keys : /\ x5[k] # None => x5[k].org = x1
                            /\ x8[k] # None => x8[k].answer = None
  BY <1>1, Requests
<1>7. Cache!OfTheSession
  BY <1>6 DEF Cache!OfTheSession
<1>8. Cache!WritesFollow
  BY <1>1, <1>6 DEF Cache!WritesFollow, Cache!Misses
<1> QED
  BY <1>4, <1>5, <1>7, <1>8 DEF Cache!CacheInv

(* What is on its way, or what a page will ask for.                         *)
Old(k) == k \in x7 \/ (k \in x6 /\ (k \in Cache!Mounted => x8[k] # None))
Brought(k) == [org |-> x8[k].answer.org, knows |-> x8[k].answer.knows, late |-> x8[k].late]
FromTheApi == [org |-> x1, knows |-> Written(x1)]

LEMMA WrittenIsKnown ==
  ASSUME Cache!Typed
  PROVE  FromTheApi \in Cache!Known /\ \A k \in Cache!Keys : ~Cache!Misses(FromTheApi, k)
<1>1. x1 \in Orgs /\ x2 \in SUBSET [id : Nat, op : Cache!Ops, org : Orgs]
  BY DEF Cache!Typed
<1>2. Written(x1) \in SUBSET Nat
  BY <1>1 DEF Written
<1>3. \A w \in x2 : w.org = x1 => w.id \in Written(x1)
  BY DEF Written
<1> QED
  BY <1>1, <1>2, <1>3 DEF FromTheApi, Cache!Known, Cache!Misses

(* Steps of the queries alone: an answer is dropped, or brought; a request  *)
(* is dropped, made, or served; and what is old stays so until it goes.     *)
LEMMA QueriesMove ==
  ASSUME Cache!CacheInv, UNCHANGED <<x1, x2, x3, x9, x10, x11, x13>>, x4' \in DOMAIN Cache!Mounts,
         x14' \in SUBSET Cache!Keys, x14' # {} => x4' = "app",
         x5' \in [Cache!Keys -> Cache!Answers \cup {None}], x8' \in [Cache!Keys -> Cache!Fetches \cup {None}],
         \A k \in Cache!Keys : x5'[k] # None =>
            \/ x5'[k] = x5[k] /\ (Old(k) => Old(k)')
            \/ x8[k] # None /\ x8[k].answer # None /\ x5'[k] = Brought(k),
         \A k \in Cache!Keys : x8'[k] # None =>
            \/ x8'[k].answer = None \/ x8'[k].answer = FromTheApi
            \/ x8[k] # None /\ x8'[k].answer = x8[k].answer /\ x8'[k].late = x8[k].late
  PROVE  Cache!CacheInv'
<1>1. Cache!Typed /\ Cache!IdsApart /\ Cache!OfTheSession /\ Cache!WritesFollow
  BY DEF Cache!CacheInv
<1>2. Cache!Typed'
  BY <1>1 DEF Cache!Typed, Cache!Mounts, Cache!Keys, Cache!Ops, Cache!Writes, Cache!Answers, Cache!Fetches, Cache!Known
<1>3. Cache!IdsApart'
  BY <1>1 DEF Cache!IdsApart, Cache!Ops, Cache!Writes
<1>4. ASSUME NEW k \in Cache!Keys
      PROVE  Brought(k).org = x8[k].answer.org /\ Brought(k).knows = x8[k].answer.knows /\ Brought(k).late = x8[k].late
  BY DEF Brought
<1>5. FromTheApi.org = x1 /\ FromTheApi.knows = Written(x1) /\ \A k \in Cache!Keys : ~Cache!Misses(FromTheApi, k)
  BY <1>1, WrittenIsKnown DEF FromTheApi
<1>6. Cache!OfTheSession'
  <2> SUFFICES ASSUME x13 = "no", NEW k \in Cache!Keys
               PROVE  /\ x5'[k] # None => x5'[k].org = x1
                      /\ x8'[k] # None => (x8'[k].answer # None => x8'[k].answer.org = x1)
    BY DEF Cache!OfTheSession, Cache!Keys
  <2>1. /\ x5[k] # None => x5[k].org = x1
        /\ x8[k] # None => (x8[k].answer # None => x8[k].answer.org = x1)
    BY <1>1 DEF Cache!OfTheSession
  <2> QED
    BY <1>4, <1>5, <2>1
<1>7. ASSUME NEW a, NEW k \in Cache!Keys PROVE Cache!Misses(a, k)' <=> Cache!Misses(a, k)
  BY DEF Cache!Misses, Cache!Shows, Cache!Changes, Cache!Writes, Cache!Reads, Cache!Gap
<1>8. ASSUME NEW a, NEW b, a.org = b.org, a.knows = b.knows, NEW k \in Cache!Keys
      PROVE  Cache!Misses(a, k) <=> Cache!Misses(b, k)
  BY <1>8 DEF Cache!Misses
<1>9. ASSUME NEW k \in Cache!Keys
      PROVE  /\ x5'[k] # None => (~x5'[k].late /\ Cache!Misses(x5'[k], k) => Old(k)')
             /\ x8'[k] # None => (~x8'[k].late /\ x8'[k].answer # None => ~Cache!Misses(x8'[k].answer, k))
  <2>1. /\ x5[k] # None => (~x5[k].late /\ Cache!Misses(x5[k], k) => Old(k))
        /\ x8[k] # None => (~x8[k].late /\ x8[k].answer # None => ~Cache!Misses(x8[k].answer, k))
    BY <1>1 DEF Cache!WritesFollow, Old
  <2>2. Cache!Misses(Brought(k), k) <=> Cache!Misses(x8[k].answer, k)
    BY <1>4, <1>8
  <2> QED
    BY <1>4, <1>5, <2>1, <2>2
<1>10. Cache!WritesFollow'
  <2> SUFFICES ASSUME NEW k \in Cache!Keys
               PROVE  /\ x5'[k] # None => (~x5'[k].late /\ Cache!Misses(x5[k], k)' => Old(k)')
                      /\ x8'[k] # None => (~x8'[k].late /\ x8'[k].answer # None => ~Cache!Misses(x8[k].answer, k)')
    BY DEF Cache!WritesFollow, Cache!Keys, Old
  <2>1. /\ Cache!Misses(x5[k], k)' <=> Cache!Misses(x5'[k], k)
        /\ Cache!Misses(x8[k].answer, k)' <=> Cache!Misses(x8'[k].answer, k)
    BY DEF Cache!Misses, Cache!Shows, Cache!Changes, Cache!Writes, Cache!Reads, Cache!Gap
  <2> QED
    BY <1>9, <2>1
<1> QED
  BY <1>2, <1>3, <1>6, <1>10 DEF Cache!CacheInv

LEMMA QuerySteps ==
  ASSUME Cache!CacheInv,
         \/ \E k \in x3 : \/ Cache!ServeFetch(k) \/ Cache!FetchArrives(k) \/ Cache!FetchFails(k)
                          \/ Cache!Refetch(k) \/ Cache!Age(k) \/ Cache!Collect(k) \/ Cache!DrawnAgain(k)
         \/ Cache!Visit
  PROVE  Cache!CacheInv'
<1>1. /\ x1 \in Orgs /\ x4 \in DOMAIN Cache!Mounts /\ x3 \in SUBSET Cache!Keys
      /\ x5 \in [Cache!Keys -> Cache!Answers \cup {None}] /\ x8 \in [Cache!Keys -> Cache!Fetches \cup {None}]
      /\ x14 \in SUBSET Cache!Keys /\ (x14 # {} => x4 = "app")
  BY DEF Cache!CacheInv, Cache!Typed
<1>2. ASSUME NEW k \in Cache!Keys, Cache!ServeFetch(k) PROVE Cache!CacheInv'
  <2> DEFINE g == [x8[k] EXCEPT !.answer = FromTheApi]
  <2>1. /\ x8[k] # None /\ x8' = [x8 EXCEPT ![k] = g]
        /\ UNCHANGED <<x1, x2, x3, x4, x5, x6, x7, x9, x10, x11, x13, x14>>
    BY <1>2 DEF Cache!ServeFetch, FromTheApi, Written
  <2>2. FromTheApi \in Cache!Known
    BY WrittenIsKnown DEF Cache!CacheInv
  <2>3. x8[k] \in Cache!Fetches
    BY <1>1, <2>1
  <2>4. g \in Cache!Fetches /\ g.answer = FromTheApi /\ g # None
    BY <2>2, <2>3, Requests
  <2> HIDE DEF g
  <2>5. x8' \in [Cache!Keys -> Cache!Fetches \cup {None}]
    BY <1>1, <2>1, <2>4
  <2>6. \A j \in Cache!Keys : x8'[j] = IF j = k THEN g ELSE x8[j]
    BY <1>1, <2>1
  <2>7. \A j \in Cache!Keys : Old(j) => Old(j)'
    BY <2>1, <2>4, <2>6 DEF Old, Cache!Mounted, Cache!MountedOn, Cache!Shell, Cache!Mounts
  <2> QED
    BY <1>1, <2>1, <2>4, <2>5, <2>6, <2>7, QueriesMove
<1>3. ASSUME NEW k \in Cache!Keys, Cache!FetchArrives(k) PROVE Cache!CacheInv'
  <2>1. /\ x8[k] # None /\ x8[k].answer # None /\ x5' = [x5 EXCEPT ![k] = Brought(k)]
        /\ x6' = x6 \ {k} /\ x7' = x7 \ {k} /\ x8' = [x8 EXCEPT ![k] = None]
        /\ UNCHANGED <<x1, x2, x3, x4, x9, x10, x11, x13, x14>>
    BY <1>3 DEF Cache!FetchArrives, Brought
  <2>2. Brought(k) \in Cache!Answers
    <3>1. x8[k] \in Cache!Fetches
      BY <1>1, <2>1
    <3>2. x8[k].answer \in Cache!Known /\ x8[k].late \in BOOLEAN
      BY <2>1, <3>1, Requests
    <3> QED
      BY <3>2 DEF Brought, Cache!Known, Cache!Answers
  <2>3. /\ x5' \in [Cache!Keys -> Cache!Answers \cup {None}] /\ x8' \in [Cache!Keys -> Cache!Fetches \cup {None}]
    BY <1>1, <2>1, <2>2
  <2>4. \A j \in Cache!Keys : /\ x5'[j] = IF j = k THEN Brought(k) ELSE x5[j]
                              /\ x8'[j] = IF j = k THEN None ELSE x8[j]
    BY <1>1, <2>1
  <2>5. \A j \in Cache!Keys : j # k => (Old(j) => Old(j)')
    BY <2>1, <2>4 DEF Old, Cache!Mounted, Cache!MountedOn, Cache!Shell, Cache!Mounts
  <2> QED
    BY <1>1, <2>1, <2>3, <2>4, <2>5, QueriesMove
<1>4. ASSUME UNCHANGED <<x1, x2, x3, x5, x9, x10, x11, x13>>, x4' \in DOMAIN Cache!Mounts,
             x14' \in SUBSET Cache!Keys, x14' # {} => x4' = "app",
             x8' \in [Cache!Keys -> Cache!Fetches \cup {None}],
             \A j \in Cache!Keys : x8'[j] \in {None, Cache!Asked, x8[j]},
             \A j \in Cache!Keys : Old(j) => Old(j)'
      PROVE  Cache!CacheInv'
  BY <1>1, <1>4, Requests, QueriesMove
<1>5. ASSUME NEW k \in Cache!Keys, Cache!FetchFails(k) PROVE Cache!CacheInv'
  <2>1. /\ UNCHANGED <<x1, x2, x3, x4, x5, x6, x9, x10, x11, x13, x14>>
        /\ x7' = x7 \cup {k} /\ x8' = [x8 EXCEPT ![k] = None]
    BY <1>5 DEF Cache!FetchFails
  <2>2. x8' \in [Cache!Keys -> Cache!Fetches \cup {None}] /\ \A j \in Cache!Keys : x8'[j] = IF j = k THEN None ELSE x8[j]
    BY <1>1, <2>1
  <2>3. \A j \in Cache!Keys : Old(j) => Old(j)'
    BY <2>1, <2>2 DEF Old, Cache!Mounted, Cache!MountedOn, Cache!Shell, Cache!Mounts
  <2> QED
    BY <1>1, <1>4, <2>1, <2>2, <2>3
<1>6. ASSUME NEW k \in Cache!Keys, Cache!Refetch(k) \/ Cache!DrawnAgain(k) PROVE Cache!CacheInv'
  <2>1. /\ UNCHANGED <<x1, x2, x3, x4, x5, x6, x7, x9, x10, x11, x13>> /\ x14' = x14 \ {k}
        /\ x8' = [x8 EXCEPT ![k] = Cache!Asked] \/ x8' = x8
    BY <1>6 DEF Cache!Refetch, Cache!DrawnAgain
  <2>2. /\ x8' \in [Cache!Keys -> Cache!Fetches \cup {None}]
        /\ \A j \in Cache!Keys : x8'[j] = x8[j] \/ x8'[j] = Cache!Asked
    BY <1>1, <2>1, Requests
  <2>3. Cache!Asked # None
    BY Requests
  <2>4. \A j \in Cache!Keys : Old(j) => Old(j)'
    BY <2>1, <2>2, <2>3 DEF Old, Cache!Mounted, Cache!MountedOn, Cache!Shell, Cache!Mounts
  <2>5. x14' \in SUBSET Cache!Keys /\ (x14' # {} => x4' = "app") /\ x4' \in DOMAIN Cache!Mounts
    BY <1>1, <2>1
  <2> QED
    BY <1>4, <2>1, <2>2, <2>4, <2>5
<1>7. ASSUME NEW k \in Cache!Keys, Cache!Age(k) PROVE Cache!CacheInv'
  <2>1. UNCHANGED <<x1, x2, x3, x4, x5, x7, x8, x9, x10, x11, x13, x14>> /\ x6' = x6 \cup {k}
    BY <1>7 DEF Cache!Age
  <2>2. \A j \in Cache!Keys : Old(j) => Old(j)'
    BY <2>1 DEF Old, Cache!Mounted, Cache!MountedOn, Cache!Shell, Cache!Mounts
  <2> QED
    BY <1>1, <1>4, <2>1, <2>2
<1>8. ASSUME NEW k \in Cache!Keys, Cache!Collect(k) PROVE Cache!CacheInv'
  <2>1. /\ x5' = [x5 EXCEPT ![k] = None] /\ x6' = x6 \ {k} /\ x7' = x7 \ {k}
        /\ UNCHANGED <<x1, x2, x3, x4, x8, x9, x10, x11, x13, x14>>
    BY <1>8 DEF Cache!Collect
  <2>2. /\ x5' \in [Cache!Keys -> Cache!Answers \cup {None}]
        /\ \A j \in Cache!Keys : x5'[j] = IF j = k THEN None ELSE x5[j]
    BY <1>1, <2>1
  <2>3. \A j \in Cache!Keys : j # k => (Old(j) => Old(j)')
    BY <2>1 DEF Old, Cache!Mounted, Cache!MountedOn, Cache!Shell, Cache!Mounts
  <2> QED
    BY <1>1, <2>1, <2>2, <2>3, QueriesMove
<1>9. CASE Cache!Visit
  <2>1. /\ UNCHANGED <<x1, x2, x3, x5, x6, x7, x9, x10, x11, x13>> /\ x4' \in Cache!Pages /\ x14' = {}
        /\ x8' = [k \in Cache!Keys |->
                    IF Cache!Wanted(k) /\ (k \in Cache!MountedOn(x4') \ (Cache!Mounted \ x14) \/ k = "me")
                    THEN Cache!Asked ELSE x8[k]]
    BY <1>9 DEF Cache!Visit
  <2>2. x4' \in DOMAIN Cache!Mounts
    BY <2>1 DEF Cache!Pages
  <2>3. x8' \in [Cache!Keys -> Cache!Fetches \cup {None}] /\ \A j \in Cache!Keys : x8'[j] \in {None, Cache!Asked, x8[j]}
    BY <1>1, <2>1, Requests
  <2>4. ASSUME NEW j \in Cache!Keys, Old(j) PROVE Old(j)'
    <3>1. Cache!Asked # None
      BY Requests
    <3>2. x8[j] # None => x8'[j] # None
      BY <2>1, <3>1
    <3>3. ASSUME j \in x6, j \in Cache!Mounted', j \notin Cache!Mounted PROVE x8'[j] # None
      <4>1. j \in Cache!MountedOn(x4') \ (Cache!Mounted \ x14)
        BY <2>1, <3>3 DEF Cache!Mounted, Cache!MountedOn, Cache!Shell, Cache!Mounts
      <4>2. x8[j] = None => Cache!Wanted(j)
        BY <3>3 DEF Cache!Wanted
      <4> QED
        BY <2>1, <3>1, <4>1, <4>2
    <3> QED
      BY <2>1, <2>4, <3>2, <3>3 DEF Old
  <2> QED
    BY <1>4, <2>1, <2>2, <2>3, <2>4
<1> QED
  BY <1>1, <1>2, <1>3, <1>5, <1>6, <1>7, <1>8, <1>9

(* Steps that leave the queries and the writes made alone.                  *)
LEMMA WritesMove ==
  ASSUME Cache!CacheInv, UNCHANGED <<x2, x3, x4, x5, x6, x7, x8, x10, x14>>, x1' \in Orgs, Cache!IdsApart',
         x13' = "no" => x13 = "no" /\ x1' = x1
  PROVE  Cache!CacheInv'
<1>1. Cache!Typed'
  BY DEF Cache!CacheInv, Cache!Typed, Cache!Mounts, Cache!Keys, Cache!Ops, Cache!Writes, Cache!Answers,
         Cache!Fetches, Cache!Known
<1>2. Cache!OfTheSession'
  BY DEF Cache!CacheInv, Cache!OfTheSession, Cache!Keys
<1>3. Cache!WritesFollow'
  <2>1. \A k \in Cache!Keys : /\ Cache!Misses(x5[k], k)' = Cache!Misses(x5[k], k)
                              /\ Cache!Misses(x8[k].answer, k)' = Cache!Misses(x8[k].answer, k)
    BY DEF Cache!Misses, Cache!Shows, Cache!Changes, Cache!Writes, Cache!Reads, Cache!Gap
  <2>2. Cache!Mounted' = Cache!Mounted
    BY DEF Cache!Mounted, Cache!MountedOn, Cache!Shell, Cache!Mounts
  <2> QED
    BY <2>1, <2>2 DEF Cache!CacheInv, Cache!WritesFollow, Cache!Keys
<1> QED
  BY <1>1, <1>2, <1>3 DEF Cache!CacheInv

(* A write or a switch that was answered is the one that was sent.          *)
LEMMA Answered ==
  ASSUME Cache!IdsApart, NEW m \in x9, UNCHANGED <<x10, x11>>,
         x9' = (x9 \ {m}) \cup {[m EXCEPT !.answer = "ok"]},
         \/ UNCHANGED x2 /\ m.op \notin Cache!Ops
         \/ \E w : x2' = x2 \cup {w} /\ w.id = m.id /\ w.op = m.op /\ m.op \in Cache!Ops
  PROVE  Cache!IdsApart'
<1> DEFINE r == [m EXCEPT !.answer = "ok"]
<1>1. DOMAIN m = {"id", "op", "answer"}
  BY DEF Cache!IdsApart
<1>2. DOMAIN r = {"id", "op", "answer"} /\ r.id = m.id /\ r.op = m.op
  BY <1>1
<1>3. x9' = (x9 \ {m}) \cup {r}
  OBVIOUS
<1> HIDE DEF r
<1>4. \A w \in x2' : w \in x2 \/ (w.id = m.id /\ w.op = m.op /\ m.op \in Cache!Ops)
  OBVIOUS
<1>5. \A w \in x2' : w.id < x11
  BY <1>4 DEF Cache!IdsApart
<1>6. ASSUME NEW p \in x9'
      PROVE  /\ DOMAIN p = {"id", "op", "answer"}
             /\ p.op \in Cache!Ops => /\ p.id \in Nat /\ p.id < x11 /\ p.id \notin x10
                                      /\ \A n \in x9' : n.op \in Cache!Ops /\ n.id = p.id => n = p
                                      /\ \A w \in x2' : w.id = p.id => w.op = p.op
  <2>1. CASE p = r
    <3>1. \A n \in x9' : n.op \in Cache!Ops /\ r.op \in Cache!Ops /\ n.id = r.id => n = r
      BY <1>2, <1>3 DEF Cache!IdsApart
    <3>2. r.op \in Cache!Ops => \A w \in x2' : w.id = r.id => w.op = r.op
      BY <1>2, <1>4 DEF Cache!IdsApart
    <3> QED
      BY <1>2, <2>1, <3>1, <3>2 DEF Cache!IdsApart
  <2>2. CASE p \in x9 /\ p # m
    <3>1. \A n \in x9' : n.op \in Cache!Ops /\ p.op \in Cache!Ops /\ n.id = p.id => n = p
      BY <1>2, <1>3, <2>2 DEF Cache!IdsApart
    <3>2. p.op \in Cache!Ops => \A w \in x2' : w.id = p.id => w.op = p.op
      BY <1>4, <2>2 DEF Cache!IdsApart
    <3> QED
      BY <2>2, <3>1, <3>2 DEF Cache!IdsApart
  <2> QED
    BY <1>3, <2>1, <2>2
<1> QED
  BY <1>5, <1>6 DEF Cache!IdsApart, Cache!Ops, Cache!Writes

(* Fewer under way are apart as well.                                       *)
LEMMA FewerApart ==
  ASSUME Cache!IdsApart, x9' \subseteq x9, UNCHANGED <<x2, x10, x11>>
  PROVE  Cache!IdsApart'
BY DEF Cache!IdsApart, Cache!Ops, Cache!Writes

LEMMA ServeStep ==
  ASSUME Cache!CacheInv, NEW m \in x9, Cache!Serve(m)
  PROVE  Cache!CacheInv'
<1> DEFINE w == [id |-> m.id, op |-> m.op, org |-> x1]
<1>1. Cache!Typed /\ Cache!IdsApart /\ Cache!OfTheSession /\ Cache!WritesFollow
  BY DEF Cache!CacheInv
<1>2. /\ m.op \in Cache!Ops /\ x9' = (x9 \ {m}) \cup {[m EXCEPT !.answer = "ok"]} /\ x2' = x2 \cup {w}
      /\ UNCHANGED <<x1, x3, x4, x5, x6, x7, x8, x10, x11, x12, x13, x14>>
  BY DEF Cache!Serve, Cache!Queries
<1>3. m.id \in Nat /\ m.id \notin x10
  BY <1>1, <1>2 DEF Cache!IdsApart
<1>4. w \in [id : Nat, op : Cache!Ops, org : Orgs] /\ w.id = m.id /\ w.op = m.op
  BY <1>1, <1>2, <1>3 DEF Cache!Typed
<1> HIDE DEF w
<1>5. Cache!IdsApart'
  BY <1>1, <1>2, <1>4, Answered
<1>6. Cache!Typed'
  BY <1>1, <1>2, <1>4 DEF Cache!Typed, Cache!Mounts, Cache!Keys, Cache!Ops, Cache!Writes, Cache!Answers,
                          Cache!Fetches, Cache!Known
<1>7. Cache!OfTheSession'
  BY <1>1, <1>2 DEF Cache!OfTheSession, Cache!Keys
<1>8. \A v \in x2' : v \in x2 \/ v.id \notin x10
  BY <1>2, <1>3, <1>4
<1>9. \A k \in Cache!Keys : /\ Cache!Misses(x5[k], k)' => Cache!Misses(x5[k], k)
                            /\ Cache!Misses(x8[k].answer, k)' => Cache!Misses(x8[k].answer, k)
  <2> SUFFICES ASSUME NEW k \in Cache!Keys
               PROVE  /\ Cache!Misses(x5[k], k)' => Cache!Misses(x5[k], k)
                      /\ Cache!Misses(x8[k].answer, k)' => Cache!Misses(x8[k].answer, k)
    OBVIOUS
  <2> QED
    BY <1>2, <1>8 DEF Cache!Misses, Cache!Shows, Cache!Changes, Cache!Writes, Cache!Reads, Cache!Gap
<1>10. Cache!Mounted' = Cache!Mounted
  BY <1>2 DEF Cache!Mounted, Cache!MountedOn, Cache!Shell, Cache!Mounts
<1>11. Cache!WritesFollow'
  BY <1>1, <1>2, <1>9, <1>10 DEF Cache!WritesFollow, Cache!Keys
<1> QED
  BY <1>5, <1>6, <1>7, <1>11 DEF Cache!CacheInv

LEMMA SuccessStep ==
  ASSUME Cache!CacheInv, NEW m \in x9, Cache!onSuccess(m)
  PROVE  Cache!CacheInv'
<1> DEFINE ks == Cache!Invalidates[m.op]
           anew == {k \in ks \cap Cache!Mounted : x5[k] # None}
<1>1. Cache!Typed /\ Cache!IdsApart /\ Cache!OfTheSession /\ Cache!WritesFollow
  BY DEF Cache!CacheInv
<1>2. /\ m.op \in Cache!Ops /\ x9' = x9 \ {m} /\ x10' = x10 \cup {m.id}
      /\ UNCHANGED <<x1, x2, x3, x4, x5, x7, x11, x12, x13, x14>>
      /\ x6' = x6 \cup {k \in ks : x5[k] # None}
      /\ x8' = [k \in Cache!Keys |-> IF k \in anew THEN Cache!Asked
                  ELSE IF k \in ks /\ x8[k] # None THEN [x8[k] EXCEPT !.late = TRUE] ELSE x8[k]]
  BY DEF Cache!onSuccess, Cache!Invalidate
<1> HIDE DEF ks
<1>3. ASSUME NEW k \in Cache!Keys
      PROVE  /\ x8'[k] \in Cache!Fetches \cup {None} /\ (x8[k] # None => x8'[k] # None)
             /\ x8'[k] # None => \/ x8'[k].answer = None
                                 \/ x8[k] # None /\ x8'[k].answer = x8[k].answer
                                    /\ (x8'[k].late \/ (k \notin ks /\ x8'[k] = x8[k]))
             /\ k \in anew => x8'[k] # None
  <2>1. x8[k] \in Cache!Fetches \cup {None}
    BY <1>1 DEF Cache!Typed
  <2>2. CASE k \in anew
    BY <1>2, <2>2, Requests
  <2>3. CASE k \notin anew /\ k \in ks /\ x8[k] # None
    <3>1. x8'[k] = [x8[k] EXCEPT !.late = TRUE]
      BY <1>2, <2>3
    <3>2. x8'[k] \in Cache!Fetches /\ x8'[k].late = TRUE /\ x8'[k].answer = x8[k].answer /\ x8'[k] # None
      BY <2>1, <2>3, <3>1, Requests
    <3> QED
      BY <2>3, <3>2
  <2>4. CASE k \notin anew /\ ~(k \in ks /\ x8[k] # None)
    <3>1. x8'[k] = x8[k]
      BY <1>2, <2>4
    <3> QED
      BY <2>1, <2>4, <3>1
  <2> QED
    BY <2>2, <2>3, <2>4
<1>4. x8' \in [Cache!Keys -> Cache!Fetches \cup {None}]
  BY <1>2, <1>3
<1>5. Cache!Typed'
  BY <1>1, <1>2, <1>4 DEF Cache!Typed, Cache!Mounts, Cache!Keys, Cache!Ops, Cache!Writes, Cache!Answers,
                          Cache!Fetches, Cache!Known
<1>6. Cache!IdsApart'
  <2>1. m.id \in Nat /\ m.id < x11 /\ \A n \in x9 : n.op \in Cache!Ops /\ n.id = m.id => n = m
    BY <1>1, <1>2 DEF Cache!IdsApart
  <2> QED
    BY <1>1, <1>2, <2>1 DEF Cache!IdsApart, Cache!Ops, Cache!Writes
<1>7. Cache!OfTheSession'
  <2> SUFFICES ASSUME x13 = "no", NEW k \in Cache!Keys
               PROVE  /\ x5[k] # None => x5[k].org = x1
                      /\ x8'[k] # None => (x8'[k].answer # None => x8'[k].answer.org = x1)
    BY <1>2 DEF Cache!OfTheSession, Cache!Keys
  <2> QED
    BY <1>1, <1>3 DEF Cache!OfTheSession
<1>8. ASSUME NEW k \in Cache!Keys, NEW a,
             \E w \in x2 : w.id \in x10' /\ w.org = a.org /\ Cache!Shows(w.op, k) /\ w.id \notin a.knows
      PROVE  Cache!Misses(a, k) \/ k \in ks
  <2>1. PICK w \in x2 : w.id \in x10' /\ w.org = a.org /\ Cache!Shows(w.op, k) /\ w.id \notin a.knows
    BY <1>8
  <2>2. CASE w.id \in x10
    BY <2>1, <2>2 DEF Cache!Misses
  <2>3. CASE w.id = m.id
    <3>1. w.op = m.op
      BY <1>1, <1>2, <2>3 DEF Cache!IdsApart
    <3> QED
      BY <1>2, <2>1, <3>1, ShownIsInvalidated DEF ks
  <2> QED
    BY <1>2, <2>1, <2>2, <2>3
<1>9. Cache!Mounted' = Cache!Mounted
  BY <1>2 DEF Cache!Mounted, Cache!MountedOn, Cache!Shell, Cache!Mounts
<1>10. ASSUME NEW k \in Cache!Keys
       PROVE  /\ x5'[k] # None =>
                   (~x5'[k].late /\ Cache!Misses(x5[k], k)' => k \in x7' \/ (k \in x6' /\ (k \in Cache!Mounted => x8'[k] # None)))
              /\ x8'[k] # None => (~x8'[k].late /\ x8'[k].answer # None => ~Cache!Misses(x8[k].answer, k)')
  <2>1. Cache!Misses(x5[k], k)' => Cache!Misses(x5[k], k) \/ k \in ks
    <3>1. Cache!Misses(x5[k], k)' =>
            \E w \in x2 : w.id \in x10' /\ w.org = x5[k].org /\ Cache!Shows(w.op, k) /\ w.id \notin x5[k].knows
      BY <1>2 DEF Cache!Misses, Cache!Shows, Cache!Changes, Cache!Writes, Cache!Reads, Cache!Gap
    <3> QED
      BY <1>8, <3>1
  <2>2. Cache!Misses(x8[k].answer, k)' /\ x8'[k] = x8[k] => Cache!Misses(x8[k].answer, k) \/ k \in ks
    <3>1. Cache!Misses(x8[k].answer, k)' /\ x8'[k] = x8[k] =>
            \E w \in x2 : w.id \in x10' /\ w.org = x8[k].answer.org /\ Cache!Shows(w.op, k)
                          /\ w.id \notin x8[k].answer.knows
      BY <1>2 DEF Cache!Misses, Cache!Shows, Cache!Changes, Cache!Writes, Cache!Reads, Cache!Gap
    <3> QED
      BY <1>8, <3>1
  <2>3. /\ x5[k] # None =>
             (~x5[k].late /\ Cache!Misses(x5[k], k) => k \in x7 \/ (k \in x6 /\ (k \in Cache!Mounted => x8[k] # None)))
        /\ x8[k] # None => (~x8[k].late /\ x8[k].answer # None => ~Cache!Misses(x8[k].answer, k))
    BY <1>1 DEF Cache!WritesFollow
  <2>4. k \in ks /\ x5[k] # None => k \in x6' /\ (k \in Cache!Mounted => x8'[k] # None)
    BY <1>2, <1>3
  <2>5. k \in x6 => k \in x6'
    BY <1>2
  <2> QED
    BY <1>2, <1>3, <2>1, <2>2, <2>3, <2>4, <2>5
<1>11. Cache!WritesFollow'
  BY <1>9, <1>10 DEF Cache!WritesFollow, Cache!Keys
<1> QED
  BY <1>5, <1>6, <1>7, <1>11 DEF Cache!CacheInv

LEMMA SwitchedStep ==
  ASSUME Cache!CacheInv, NEW m \in x9, Cache!Switched(m)
  PROVE  Cache!CacheInv'
<1> DEFINE me == [org |-> m.op, knows |-> Written(m.op), late |-> FALSE]
<1>1. Cache!Typed /\ Cache!IdsApart
  BY DEF Cache!CacheInv
<1>2. /\ m.op \in Orgs /\ x4' = "app" /\ x9' = x9 \ {m} /\ UNCHANGED <<x1, x2, x3, x10, x11, x12>>
      /\ x13' = (IF x1 # m.op THEN "behind" ELSE IF x13 = "switching" THEN "no" ELSE x13)
      /\ x5' = [k \in Cache!Keys |-> IF k = "me" THEN me ELSE None]
      /\ x14' = (IF x4 = "app" THEN Cache!Mounted ELSE {})
      /\ x8' = [k \in Cache!Keys |-> IF k \in Cache!MountedOn("app") \ (x14' \cup {"me"}) THEN Cache!Asked ELSE None]
  BY DEF Cache!Switched, Cache!Settled, Written
<1>3. me \in Cache!Answers /\ me.org = m.op /\ me.knows = Written(m.op)
  <2>1. Written(m.op) \in SUBSET Nat
    BY <1>1 DEF Cache!Typed, Written
  <2> QED
    BY <1>2, <2>1 DEF Cache!Answers
<1> HIDE DEF me
<1>4. /\ x5' \in [Cache!Keys -> Cache!Answers \cup {None}] /\ x8' \in [Cache!Keys -> Cache!Fetches \cup {None}]
      /\ \A k \in Cache!Keys : x5'[k] \in {None, me} /\ (x8'[k] # None => x8'[k].answer = None)
  BY <1>2, <1>3, Requests
<1>5. Cache!Typed'
  <2>1. x14' \in SUBSET Cache!Keys
    BY <1>1, <1>2 DEF Cache!Typed, Cache!Mounted, Cache!MountedOn
  <2> QED
    BY <1>1, <1>2, <1>4, <2>1 DEF Cache!Typed, Cache!Mounts, Cache!Keys, Cache!Ops, Cache!Writes, Cache!Answers,
                                  Cache!Fetches, Cache!Known
<1>6. Cache!IdsApart'
  BY <1>1, <1>2, FewerApart
<1>7. x13' = "no" => m.op = x1
  BY <1>2
<1>8. Cache!OfTheSession'
  BY <1>2, <1>3, <1>4, <1>7 DEF Cache!OfTheSession, Cache!Keys
<1>9. ASSUME NEW k \in Cache!Keys, x5'[k] # None PROVE ~Cache!Misses(x5[k], k)'
  <2>1. x5'[k].org = m.op /\ x5'[k].knows = Written(m.op)
    BY <1>3, <1>4, <1>9
  <2>2. \A w \in x2 : w.org = m.op => w.id \in Written(m.op)
    BY DEF Written
  <2> QED
    BY <1>2, <2>1, <2>2 DEF Cache!Misses
<1>10. Cache!WritesFollow'
  BY <1>4, <1>9 DEF Cache!WritesFollow, Cache!Keys
<1> QED
  BY <1>5, <1>6, <1>8, <1>10 DEF Cache!CacheInv

LEMMA CacheStep == Cache!CacheInv /\ [Cache!Next]_(Cache!vars) => Cache!CacheInv'
<1> SUFFICES ASSUME Cache!CacheInv, [Cache!Next]_(Cache!vars) PROVE Cache!CacheInv'
  OBVIOUS
<1>1. Cache!Typed /\ Cache!IdsApart /\ x1 \in Orgs
  BY DEF Cache!CacheInv, Cache!Typed
<1>2. CASE Cache!Submit
  <2>1. PICK op : x9' = x9 \cup {[id |-> x11, op |-> op, answer |-> "awaited"]}
    BY <1>2 DEF Cache!Submit
  <2>2. UNCHANGED <<x1, x2, x3, x4, x5, x6, x7, x8, x10, x12, x13, x14>> /\ x11' = x11 + 1
    BY <1>2 DEF Cache!Submit, Cache!Queries
  <2> DEFINE r == [id |-> x11, op |-> op, answer |-> "awaited"]
  <2>3. DOMAIN r = {"id", "op", "answer"} /\ r.id = x11
    OBVIOUS
  <2>4. x9' = x9 \cup {r}
    BY <2>1
  <2> HIDE DEF r
  <2>5. x11 \in Nat /\ x11 \notin x10 /\ \A w \in x2 : w.id # x11 /\ w.id < x11'
    BY <1>1, <2>2 DEF Cache!IdsApart, Cache!Typed
  <2>6. ASSUME NEW p \in x9'
        PROVE  /\ DOMAIN p = {"id", "op", "answer"}
               /\ p.op \in Cache!Ops => /\ p.id \in Nat /\ p.id < x11' /\ p.id \notin x10
                                        /\ \A n \in x9' : n.op \in Cache!Ops /\ n.id = p.id => n = p
                                        /\ \A w \in x2 : w.id = p.id => w.op = p.op
    <3>1. CASE p = r
      BY <1>1, <2>2, <2>3, <2>4, <2>5, <3>1 DEF Cache!IdsApart
    <3>2. CASE p \in x9
      BY <1>1, <2>2, <2>3, <2>4, <3>2 DEF Cache!IdsApart
    <3> QED
      BY <2>4, <3>1, <3>2
  <2>7. Cache!IdsApart'
    <3>1. x11' \in Nat /\ x10' \in SUBSET Nat /\ \A i \in x10' : i < x11'
      BY <1>1, <2>2 DEF Cache!IdsApart
    <3>2. \A w \in x2' : w.id < x11'
      BY <2>2, <2>5
    <3> QED
      BY <2>2, <2>6, <3>1, <3>2 DEF Cache!IdsApart, Cache!Ops, Cache!Writes
  <2> QED
    BY <1>1, <2>2, <2>7, WritesMove
<1>3. ASSUME NEW m \in x9, Cache!onError(m) PROVE Cache!CacheInv'
  <2>1. UNCHANGED <<x1, x2, x3, x4, x5, x6, x7, x8, x10, x11, x13, x14>> /\ x9' = x9 \ {m}
    BY <1>3 DEF Cache!onError, Cache!Queries
  <2> QED
    BY <1>1, <2>1, FewerApart, WritesMove
<1>4. ASSUME NEW m \in x9, Cache!ServeSwitch(m) PROVE Cache!CacheInv'
  <2>1. /\ UNCHANGED <<x2, x3, x4, x5, x6, x7, x8, x10, x11, x14>> /\ x1' = m.op /\ m.op \in Orgs
        /\ x9' = (x9 \ {m}) \cup {[m EXCEPT !.answer = "ok"]}
        /\ x13' = (IF x13 = "no" /\ x1' # x1 THEN "switching" ELSE IF x1' # x1 THEN "behind" ELSE x13)
    BY <1>4 DEF Cache!ServeSwitch, Cache!Queries
  <2>2. m.op \notin Cache!Ops
    BY <2>1, OrgsAreNoWrites
  <2>3. Cache!IdsApart'
    BY <1>1, <2>1, <2>2, Answered
  <2> QED
    BY <2>1, <2>3, WritesMove
<1>5. ASSUME NEW m \in x9, Cache!SwitchFails(m) PROVE Cache!CacheInv'
  <2>1. /\ UNCHANGED <<x1, x2, x3, x4, x5, x6, x7, x8, x10, x11, x14>> /\ x9' = x9 \ {m} /\ x13' \in {"behind", x13}
    BY <1>5 DEF Cache!SwitchFails, Cache!Queries
  <2> QED
    BY <1>1, <2>1, FewerApart, WritesMove
<1>6. ASSUME NEW o \in Orgs, Cache!OrgSwitcher(o) PROVE Cache!CacheInv'
  <2> DEFINE r == [id |-> -1 - x12', op |-> o, answer |-> "awaited"]
  <2>1. UNCHANGED <<x1, x2, x3, x4, x5, x6, x7, x8, x10, x11, x13, x14>> /\ x9' = x9 \cup {r}
    BY <1>6 DEF Cache!OrgSwitcher, Cache!Queries
  <2>2. DOMAIN r = {"id", "op", "answer"} /\ r.op \notin Cache!Ops
    BY OrgsAreNoWrites
  <2> HIDE DEF r
  <2>3. Cache!IdsApart'
    BY <1>1, <2>1, <2>2 DEF Cache!IdsApart, Cache!Ops, Cache!Writes
  <2> QED
    BY <1>1, <2>1, <2>3, WritesMove
<1>7. ASSUME NEW o \in Orgs, Cache!SwitchElsewhere(o) PROVE Cache!CacheInv'
  <2>1. UNCHANGED <<x2, x3, x4, x5, x6, x7, x8, x9, x10, x11, x14>> /\ x1' = o /\ x13' = "behind"
    BY <1>7 DEF Cache!SwitchElsewhere, Cache!Queries
  <2>2. Cache!IdsApart'
    BY <1>1, <2>1, FewerApart
  <2> QED
    BY <2>1, <2>2, WritesMove
<1>8. CASE UNCHANGED Cache!vars
  <2>1. UNCHANGED <<x1, x2, x3, x4, x5, x6, x7, x8, x9, x10, x11, x13, x14>>
    BY <1>8 DEF Cache!vars
  <2> QED
    BY <1>1, <2>1, FewerApart, WritesMove
<1> QED
  BY <1>2, <1>3, <1>4, <1>5, <1>6, <1>7, <1>8, QuerySteps, ServeStep, SuccessStep, SwitchedStep DEF Cache!Next

-----------------------------------------------------------------------------
(* The pages that show a secret once (SecretPages).                         *)

LEMMA SecretInit == Secrets!Init => Secrets!SecretsInv
<1> SUFFICES ASSUME Secrets!Init PROVE Secrets!SecretsInv
  OBVIOUS
<1> DEFINE f == CHOOSE e \in Endpoints : TRUE
<1>1. f \in Endpoints /\ MaxMinted \in Nat \ {0} /\ None \notin Endpoints
  BY SomeSecrets
<1>2. /\ x1 = [e \in Endpoints |-> IF e = f THEN 1 ELSE 0] /\ x2 = 1 /\ x3 = {}
      /\ x5 = [s \in Secrets!Secrets |-> IF s = 1 THEN f ELSE None]
      /\ x7 = "elsewhere" /\ x9 = None /\ x10 = 0 /\ x11 = {} /\ x13 = {}
      /\ x14 = [s \in Secrets!Secrets |-> IF s = 1 THEN "saved" ELSE "unminted"]
  BY DEF Secrets!Init
<1> HIDE DEF f
<1>3. Secrets!Secrets = 1..MaxMinted /\ 1 \in Secrets!Secrets
  BY <1>1 DEF Secrets!Secrets
<1>4. Secrets!OwnersKnown
  BY <1>1, <1>2, <1>3 DEF Secrets!OwnersKnown
<1>5. Secrets!Calm
  BY <1>2 DEF Secrets!Calm, Secrets!Alone
<1> QED
  BY <1>2, <1>4, <1>5 DEF Secrets!SecretsInv, Secrets!KeySecretsStay, Secrets!RotationsWork

(* What the server does changes one endpoint at most, and only the newest   *)
(* secret's owner.                                                          *)
LEMMA Applies ==
  ASSUME Secrets!OwnersKnown, NEW r, r.op \in {"rotate", "delete"} => r.target \in Endpoints,
         NEW w, Secrets!Apply(r, w), UNCHANGED x10
  PROVE  /\ Secrets!OwnersKnown'
         /\ x2' = (IF r.op \in Secrets!Mints THEN x2 + 1 ELSE x2) /\ x3 \subseteq x3' /\ x3' \subseteq x3 \cup {x2 + 1}
         /\ \A s \in 1..x2 : x5'[s] = x5[s]
         /\ \A e \in Endpoints : \/ x1'[e] = x1[e] \/ (r.op = "create" /\ x1[e] = 0)
                                 \/ (r.op \in {"rotate", "delete"} /\ e = r.target)
         /\ r.op = "rotate" => x1'[r.target] = x2 + 1 /\ x5'[x2 + 1] = r.target
         /\ r.op = "delete" => x1'[r.target] = -1
         /\ r.op = "create" => \A s \in 1..x2 : x5'[s] # x5'[x2 + 1]
         /\ r.op \in Secrets!Mints => (r.op = "createKey" <=> x2 + 1 \in x3')
         /\ x15' = (x15 \/ (~w /\ r.op \in {"rotate", "delete"}))
         /\ \A s \in x3' : x14'[s] = "replaced" => s \in x3 /\ x14[s] = "replaced"
<1> DEFINE N == x2 + 1
<1>1. /\ MaxMinted \in Nat /\ Secrets!Secrets = 1..MaxMinted /\ None \notin Endpoints
      /\ x2 \in 1..MaxMinted /\ N \in Nat
      /\ x3 \in SUBSET (1..x2) /\ x10 \in 0..x2 /\ x1 \in [Endpoints -> -1..x2]
      /\ x5 \in [1..MaxMinted -> Endpoints \cup {None}] /\ DOMAIN x14 = 1..MaxMinted
      /\ \A e \in Endpoints : /\ x1[e] > 0 => x5[x1[e]] = e
                              /\ x1[e] = 0 => \A s \in 1..MaxMinted : x5[s] # e
      /\ \A s \in 1..MaxMinted : s > x2 \/ s \in x3 => x5[s] = None
  BY SomeSecrets DEF Secrets!OwnersKnown, Secrets!Secrets
<1>2. /\ r.op \in Secrets!Mints => x2 < MaxMinted
      /\ x2' = (IF r.op \in Secrets!Mints THEN N ELSE x2)
      /\ x3' = (IF r.op = "createKey" THEN x3 \cup {N} ELSE x3)
      /\ x5' = [s \in 1..MaxMinted |-> IF \E e \in Endpoints : x1'[e] = s
                                       THEN CHOOSE e \in Endpoints : x1'[e] = s ELSE x5[s]]
      /\ x15' = (x15 \/ (~w /\ r.op \in {"rotate", "delete"}))
      /\ x14' = [s \in 1..MaxMinted |->
                   IF s = N /\ r.op \in Secrets!Mints THEN (IF w THEN r.op ELSE "unanswered") ELSE x14[s]]
  BY <1>1 DEF Secrets!Apply, Secrets!KeysAfter
<1>3. /\ r.op = "create" => \E e \in Endpoints : x1[e] = 0 /\ x1' = [x1 EXCEPT ![e] = N]
      /\ r.op = "rotate" => x1[r.target] > 0 /\ x1' = [x1 EXCEPT ![r.target] = N]
      /\ r.op = "delete" => x1[r.target] > 0 /\ x1' = [x1 EXCEPT ![r.target] = -1]
      /\ r.op \notin {"create", "rotate", "delete"} => x1' = x1
  BY DEF Secrets!Apply
<1> HIDE DEF N
<1>4. N = x2 + 1 /\ (r.op \in Secrets!Mints <=> r.op \in {"create", "rotate", "createKey"})
  BY DEF N, Secrets!Mints
<1>5. /\ x1' \in [Endpoints -> -1..x2']
      /\ \A e \in Endpoints : \/ x1'[e] = x1[e] \/ (r.op = "create" /\ x1[e] = 0 /\ x1'[e] = N)
                              \/ (r.op = "rotate" /\ e = r.target /\ x1'[e] = N)
                              \/ (r.op = "delete" /\ e = r.target /\ x1'[e] = -1)
      /\ \A d, e \in Endpoints : x1'[d] = N /\ x1'[e] = N => d = e
  <2>1. CASE r.op = "create"
    <3>1. PICK d \in Endpoints : x1[d] = 0 /\ x1' = [x1 EXCEPT ![d] = N]
      BY <1>3, <2>1
    <3>2. x2' = N
      BY <1>2, <1>4, <2>1
    <3>3. \A e \in Endpoints : x1'[e] = (IF e = d THEN N ELSE x1[e]) /\ x1[e] < N /\ x1[e] \in -1..N
      BY <1>1, <1>4, <3>1
    <3>4. x1' \in [Endpoints -> -1..N]
      BY <1>1, <1>4, <3>1, <3>3
    <3> QED
      BY <2>1, <3>1, <3>2, <3>3, <3>4
  <2>2. CASE r.op = "rotate"
    <3>1. x1' = [x1 EXCEPT ![r.target] = N] /\ r.target \in Endpoints
      BY <1>3, <2>2
    <3>2. x2' = N
      BY <1>2, <1>4, <2>2
    <3>3. \A e \in Endpoints : x1'[e] = (IF e = r.target THEN N ELSE x1[e]) /\ x1[e] < N /\ x1[e] \in -1..N
      BY <1>1, <1>4, <3>1
    <3>4. x1' \in [Endpoints -> -1..N]
      BY <1>1, <1>4, <3>1, <3>3
    <3> QED
      BY <2>2, <3>1, <3>2, <3>3, <3>4
  <2>3. CASE r.op = "delete"
    <3>1. x1' = [x1 EXCEPT ![r.target] = -1] /\ r.target \in Endpoints
      BY <1>3, <2>3
    <3>2. x2' = x2
      BY <1>2, <1>4, <2>3
    <3>3. \A e \in Endpoints : x1'[e] = (IF e = r.target THEN -1 ELSE x1[e]) /\ x1[e] < N /\ x1'[e] # N
      BY <1>1, <1>4, <3>1
    <3>4. x1' \in [Endpoints -> -1..x2]
      BY <1>1, <3>1
    <3> QED
      BY <2>3, <3>1, <3>2, <3>3, <3>4
  <2>4. CASE r.op \notin {"create", "rotate", "delete"}
    <3>1. x1' = x1 /\ x2 <= x2'
      BY <1>1, <1>2, <1>3, <1>4, <2>4
    <3>2. \A e \in Endpoints : x1[e] # N /\ x1[e] \in -1..x2'
      BY <1>1, <1>2, <1>4, <3>1
    <3> QED
      BY <1>1, <3>1, <3>2
  <2> QED
    BY <2>1, <2>2, <2>3, <2>4
<1>6. \A s \in 1..x2 : x5'[s] = x5[s]
  <2> SUFFICES ASSUME NEW s \in 1..x2 PROVE x5'[s] = x5[s]
    OBVIOUS
  <2>1. s \in 1..MaxMinted /\ s # N /\ s > 0
    BY <1>1, <1>4
  <2>2. \A e \in Endpoints : x1'[e] = s => x5[s] = e
    BY <1>1, <1>5, <2>1
  <2>3. CASE \E e \in Endpoints : x1'[e] = s
    <3>1. PICK e \in Endpoints : e = (CHOOSE d \in Endpoints : x1'[d] = s) /\ x1'[e] = s
      BY <2>3
    <3> QED
      BY <1>2, <2>1, <2>2, <2>3, <3>1
  <2>4. CASE ~\E e \in Endpoints : x1'[e] = s
    BY <1>2, <2>1, <2>4
  <2> QED
    BY <2>3, <2>4
<1>7. \A e \in Endpoints : x1'[e] = N => x5'[N] = e
  <2> SUFFICES ASSUME NEW e \in Endpoints, x1'[e] = N PROVE x5'[N] = e
    OBVIOUS
  <2>1. N \in 1..MaxMinted
    BY <1>1, <1>2, <1>4, <1>5
  <2>2. (CHOOSE d \in Endpoints : x1'[d] = N) = e
    BY <1>5
  <2> QED
    BY <1>2, <2>1, <2>2
<1>8. \A s \in 1..MaxMinted : s > N \/ (s = N /\ ~\E e \in Endpoints : x1'[e] = N) => x5'[s] = None
  <2> SUFFICES ASSUME NEW s \in 1..MaxMinted, s > N \/ (s = N /\ ~\E e \in Endpoints : x1'[e] = N)
               PROVE  x5'[s] = None
    OBVIOUS
  <2>1. ~\E e \in Endpoints : x1'[e] = s
    BY <1>1, <1>4, <1>5
  <2>2. s > x2
    BY <1>1, <1>4
  <2> QED
    BY <1>1, <1>2, <2>1, <2>2
<1>9. r.op \notin {"create", "rotate"} => ~\E e \in Endpoints : x1'[e] = N
  BY <1>1, <1>4, <1>5
<1>10. x5' \in [1..MaxMinted -> Endpoints \cup {None}] /\ DOMAIN x14' = 1..MaxMinted
  <2>1. \A s \in 1..MaxMinted : (\E e \in Endpoints : x1'[e] = s) => (CHOOSE e \in Endpoints : x1'[e] = s) \in Endpoints
    OBVIOUS
  <2> QED
    BY <1>1, <1>2, <2>1
<1>11. x2' \in 1..MaxMinted /\ x3' \in SUBSET (1..x2') /\ x10 \in 0..x2' /\ x2 <= x2'
  BY <1>1, <1>2, <1>4
<1>12. ASSUME NEW e \in Endpoints
       PROVE  /\ x1'[e] > 0 => x5'[x1'[e]] = e
              /\ x1'[e] = 0 => \A s \in 1..MaxMinted : x5'[s] # e
  <2>1. x1'[e] > 0 => x5'[x1'[e]] = e
    <3>1. CASE x1'[e] = N
      BY <1>7, <3>1
    <3>2. CASE x1'[e] = x1[e] /\ x1[e] > 0
      <4>1. x1[e] \in 1..x2
        BY <1>1, <3>2
      <4> QED
        BY <1>1, <1>6, <3>2, <4>1
    <3> QED
      BY <1>5, <3>1, <3>2
  <2>2. ASSUME x1'[e] = 0, NEW s \in 1..MaxMinted PROVE x5'[s] # e
    <3>1. x1[e] = 0
      BY <1>1, <1>4, <1>5, <2>2
    <3>2. ~(\E d \in Endpoints : x1'[d] = s /\ d = e)
      BY <2>2
    <3>3. x5'[s] = x5[s] \/ (x5'[s] # e)
      BY <1>2, <2>2, <3>2
    <3> QED
      BY <1>1, <3>1, <3>3
  <2> QED
    BY <2>1, <2>2
<1>13. \A s \in 1..MaxMinted : s > x2' \/ s \in x3' => x5'[s] = None
  <2> SUFFICES ASSUME NEW s \in 1..MaxMinted, s > x2' \/ s \in x3' PROVE x5'[s] = None
    OBVIOUS
  <2>1. CASE s \in x3
    <3>1. s \in 1..x2
      BY <1>1, <2>1
    <3> QED
      BY <1>1, <1>6, <2>1, <3>1
  <2>2. CASE s > N
    BY <1>8, <2>2
  <2>3. CASE s = N /\ r.op \notin {"create", "rotate"}
    BY <1>8, <1>9, <2>3
  <2>4. s \in x3 \/ s > N \/ (s = N /\ r.op \notin {"create", "rotate"})
    BY <1>1, <1>2, <1>4
  <2> QED
    BY <2>1, <2>2, <2>3, <2>4
<1>14. Secrets!OwnersKnown'
  <2>1. Secrets!Secrets' = 1..MaxMinted
    BY <1>1 DEF Secrets!Secrets
  <2> QED
    BY <1>5, <1>10, <1>11, <1>12, <1>13 DEF Secrets!OwnersKnown, Secrets!Secrets
<1>15. r.op = "create" => \A s \in 1..x2 : x5'[s] # x5'[N]
  <2> SUFFICES ASSUME r.op = "create", NEW s \in 1..x2 PROVE x5'[s] # x5'[N]
    OBVIOUS
  <2>1. PICK d \in Endpoints : x1[d] = 0 /\ x1' = [x1 EXCEPT ![d] = N]
    BY <1>3
  <2>2. x1'[d] = N
    BY <1>1, <2>1
  <2>3. x5'[N] = d /\ x5[s] # d
    BY <1>1, <1>7, <2>1, <2>2
  <2> QED
    BY <1>6, <2>3
<1>16. r.op = "rotate" => x1'[r.target] = N /\ x5'[N] = r.target
  BY <1>1, <1>3, <1>7
<1>17. r.op = "delete" => x1'[r.target] = -1
  BY <1>1, <1>3
<1>18. \A s \in x3' : x14'[s] = "replaced" => s \in x3 /\ x14[s] = "replaced"
  <2>1. \A s \in x3 : s \in 1..MaxMinted /\ s # N
    BY <1>1, <1>4
  <2>2. \A s \in x3' : s \in x3 \/ (s = N /\ r.op = "createKey" /\ N \in 1..MaxMinted)
    <3>1. r.op = "createKey" => N \in 1..MaxMinted
      BY <1>1, <1>2, <1>4
    <3> QED
      BY <1>2, <3>1
  <2> QED
    BY <1>2, <1>4, <2>1, <2>2
<1>19. r.op \in Secrets!Mints => (r.op = "createKey" <=> N \in x3')
  BY <1>1, <1>2, <1>4
<1> QED
  BY <1>2, <1>4, <1>5, <1>6, <1>14, <1>15, <1>16, <1>17, <1>18, <1>19

(* What stays true of the requests when the server does nothing: some go,   *)
(* or lose what they would have told.                                       *)
LEMMA RequestsStay ==
  ASSUME Secrets!SecretsInv, UNCHANGED <<x1, x2, x3, x5, x15>>,
         \/ x7' = x7 /\ (x11' \subseteq x11 \/ x11' \subseteq Secrets!FormGone)
         \/ x11' \subseteq Secrets!PageGone
  PROVE  /\ \A q \in x11' : Secrets!RequestSound(q)'
         /\ Secrets!Alone({"createKey"})' /\ Secrets!Alone({"rotate", "delete"})'
         /\ Secrets!Busy({"createKey"})' => Secrets!Busy({"createKey"})
         /\ \A q \in x11' : (q.op = "rotate" /\ q.here /\ q.answer = "ok" /\ ~x15) => x1[q.target] = q.secret
<1> DEFINE Same(q, r) == /\ q.op = r.op /\ q.target = r.target /\ q.answer = r.answer /\ q.secret = r.secret
                         /\ q.here => r.here /\ x7' = x7
                         /\ DOMAIN q = DOMAIN r
<1>1. \A r \in x11 : Secrets!RequestSound(r)
  BY DEF Secrets!SecretsInv
<1>2. \A r \in x11 : DOMAIN r = {"id", "op", "target", "here", "ofForm", "answer", "secret"}
  BY <1>1 DEF Secrets!RequestSound
<1>3. \A q \in x11' : \E r \in x11 : /\ Same(q, r)
                                     /\ q.here => q = r \/ q = [r EXCEPT !.ofForm = FALSE]
                                     /\ q.here => x11' \subseteq x11 \/ x11' \subseteq Secrets!FormGone
                                     /\ (q.here /\ x11' \subseteq x11) => q = r
                                     /\ (q.here /\ ~(x11' \subseteq x11)) => q = [r EXCEPT !.ofForm = FALSE]
  <2> TAKE q \in x11'
  <2>1. CASE x11' \subseteq x11 /\ x7' = x7
    BY <2>1
  <2>2. CASE ~(x11' \subseteq x11) /\ x11' \subseteq Secrets!FormGone /\ x7' = x7
    <3>1. PICK r \in x11 : q = [r EXCEPT !.ofForm = FALSE]
      BY <2>2 DEF Secrets!FormGone
    <3>2. Same(q, r)
      BY <1>2, <2>2, <3>1
    <3> QED
      BY <2>2, <3>1, <3>2
  <2>3. CASE x11' \subseteq Secrets!PageGone
    <3>1. PICK r \in x11 : q = [r EXCEPT !.here = FALSE, !.ofForm = FALSE]
      BY <2>3 DEF Secrets!PageGone
    <3>2. Same(q, r) /\ ~q.here
      BY <1>2, <3>1
    <3> QED
      BY <3>1, <3>2
  <2> QED
    BY <2>1, <2>2, <2>3
<1> HIDE DEF Same
<1>4. ASSUME NEW q \in x11', NEW r \in x11, Same(q, r) PROVE Secrets!RequestSound(q)'
  <2>1. Secrets!RequestSound(r)
    BY <1>1
  <2>2. q.secret = r.secret /\ (Secrets!Rotated(r.secret)' <=> Secrets!Rotated(r.secret))
    <3>1. q.secret = r.secret
      BY <1>4 DEF Same
    <3>2. x5' = x5
      OBVIOUS
    <3> QED
      BY <3>1, <3>2 DEF Secrets!Rotated
  <2>3. DOMAIN q = DOMAIN r
    BY <1>4 DEF Same
  <2>4. /\ q.op = r.op /\ q.target = r.target /\ q.answer = r.answer
        /\ q.here => r.here /\ x7' = x7
    BY <1>4 DEF Same
  <2> QED
    BY <2>1, <2>2, <2>3, <2>4 DEF Secrets!RequestSound, Secrets!Mints, Secrets!OpsOf, Secrets!Rotated
<1>5. \A ops : Secrets!Alone(ops) => Secrets!Alone(ops)'
  <2> SUFFICES ASSUME NEW ops, Secrets!Alone(ops), NEW p \in x11', NEW q \in x11',
                      p.op \in ops /\ p.here /\ q.op \in ops /\ q.here
               PROVE  p = q
    BY DEF Secrets!Alone
  <2>1. PICK r \in x11 : /\ Same(p, r)
                         /\ x11' \subseteq x11 => p = r
                         /\ ~(x11' \subseteq x11) => p = [r EXCEPT !.ofForm = FALSE]
    BY <1>3
  <2>2. PICK t \in x11 : /\ Same(q, t)
                         /\ x11' \subseteq x11 => q = t
                         /\ ~(x11' \subseteq x11) => q = [t EXCEPT !.ofForm = FALSE]
    BY <1>3
  <2>3. r.op \in ops /\ r.here /\ t.op \in ops /\ t.here
    BY <2>1, <2>2 DEF Same
  <2>4. r = t
    BY <2>3 DEF Secrets!Alone
  <2> QED
    BY <2>1, <2>2, <2>4
<1>6. Secrets!Busy({"createKey"})' => Secrets!Busy({"createKey"})
  BY <1>3 DEF Secrets!Busy, Same
<1>7. \A q \in x11' : (q.op = "rotate" /\ q.here /\ q.answer = "ok" /\ ~x15) => x1[q.target] = q.secret
  BY <1>3 DEF Secrets!SecretsInv, Secrets!RotationsWork, Same
<1> QED
  BY <1>3, <1>4, <1>5, <1>6, <1>7 DEF Secrets!SecretsInv, Secrets!Calm

(* A request sent is alone of its kind, and asks for nothing yet answered.  *)
LEMMA RequestSent ==
  ASSUME Secrets!SecretsInv, UNCHANGED <<x1, x2, x3, x5, x15, x7>>,
         NEW op, NEW target, Secrets!Send(op, target),
         op \in Secrets!OpsOf[x7], x7 \in {"webhooks", "keys"},
         op \in {"rotate", "delete"} => target \in Endpoints /\ ~Secrets!Busy({"rotate", "delete"}),
         op = "createKey" => ~Secrets!Busy({"createKey"})
  PROVE  /\ \A q \in x11' : Secrets!RequestSound(q)'
         /\ Secrets!Alone({"createKey"})' /\ Secrets!Alone({"rotate", "delete"})'
         /\ Secrets!Busy({"createKey"})' => (Secrets!Busy({"createKey"}) \/ op = "createKey")
         /\ \A q \in x11' : (q.op = "rotate" /\ q.here /\ q.answer = "ok" /\ ~x15) => x1[q.target] = q.secret
         /\ x11 \subseteq x11'
<1>0. PICK n : n = [id |-> x12, op |-> op, target |-> target, here |-> TRUE, ofForm |-> TRUE,
                    answer |-> "awaited", secret |-> 0]
  OBVIOUS
<1>1. x11' = x11 \cup {n}
  BY <1>0 DEF Secrets!Send
<1>2. /\ DOMAIN n = {"id", "op", "target", "here", "ofForm", "answer", "secret"}
      /\ n.op = op /\ n.target = target /\ n.here /\ n.answer = "awaited" /\ n.secret = 0
  BY <1>0
<1>3. \A q \in x11 : Secrets!RequestSound(q)'
  <2>1. \A q \in x11 : Secrets!RequestSound(q)
    BY DEF Secrets!SecretsInv
  <2> QED
    BY <2>1 DEF Secrets!RequestSound, Secrets!Rotated, Secrets!Mints, Secrets!OpsOf
<1>4. Secrets!RequestSound(n)'
  <2>1. 0 \in 0..x2 /\ x2' = x2
    BY SomeSecrets DEF Secrets!SecretsInv, Secrets!OwnersKnown, Secrets!Secrets
  <2>2. n.op \in Secrets!OpsOf[x7'] /\ (n.op \in {"rotate", "delete"} => n.target \in Endpoints)
    BY <1>2
  <2> QED
    BY <1>2, <2>1, <2>2 DEF Secrets!RequestSound, Secrets!OpsOf
<1>5. \A ops : (Secrets!Alone(ops) /\ (op \in ops => ~Secrets!Busy(ops))) => Secrets!Alone(ops)'
  BY <1>1, <1>2 DEF Secrets!Alone, Secrets!Busy
<1>6. Secrets!Busy({"createKey"})' => (Secrets!Busy({"createKey"}) \/ op = "createKey")
  BY <1>1, <1>2 DEF Secrets!Busy
<1>7. \A q \in x11' : (q.op = "rotate" /\ q.here /\ q.answer = "ok" /\ ~x15) => x1[q.target] = q.secret
  BY <1>1, <1>2 DEF Secrets!SecretsInv, Secrets!RotationsWork
<1> QED
  <2>1. Secrets!Alone({"createKey"})'
    BY <1>5 DEF Secrets!SecretsInv, Secrets!Calm
  <2>2. Secrets!Alone({"rotate", "delete"})'
    BY <1>5 DEF Secrets!SecretsInv, Secrets!Calm
  <2> QED
    BY <1>1, <1>3, <1>4, <1>6, <1>7, <2>1, <2>2

(* What the server does for one request leaves what the others say true.    *)
LEMMA ServedForOne ==
  ASSUME Secrets!SecretsInv, NEW r, r.op \in {"rotate", "delete"} => r.target \in Endpoints,
         NEW w, Secrets!Apply(r, w), UNCHANGED <<x7, x8, x9, x10>>,
         w => (r \in x11 /\ r.here /\ r.answer = "awaited")
  PROVE  /\ Secrets!OwnersKnown'
         /\ \A q \in x11 : Secrets!RequestSound(q)'
         /\ Secrets!KeySecretsStay'
         /\ x10 \in x3' => x7 = "keys"
         /\ \A q \in x11 : (q # r /\ q.op = "rotate" /\ q.here /\ q.answer = "ok" /\ ~x15') => x1'[q.target] = q.secret
         /\ (x10 # 0 /\ x5'[x10] # None /\ Secrets!Rotated(x10)' /\ ~x15') =>
              \/ x1'[x5'[x10]] \in {x10, -1}
              \/ \E q \in x11 : q # r /\ q.op = "rotate" /\ q.target = x5'[x10] /\ q.here /\ q.answer = "ok"
              \/ r.op = "rotate" /\ r.target = x5'[x10] /\ w
<1>1. /\ x7 \in {"webhooks", "keys", "elsewhere"} /\ Secrets!OwnersKnown /\ Secrets!Calm
      /\ Secrets!KeySecretsStay /\ Secrets!RotationsWork
      /\ \A q \in x11 : Secrets!RequestSound(q)
  BY DEF Secrets!SecretsInv
<1>2. /\ Secrets!OwnersKnown'
      /\ x2' = (IF r.op \in Secrets!Mints THEN x2 + 1 ELSE x2) /\ x3 \subseteq x3' /\ x3' \subseteq x3 \cup {x2 + 1}
      /\ \A s \in 1..x2 : x5'[s] = x5[s]
      /\ \A e \in Endpoints : \/ x1'[e] = x1[e] \/ (r.op = "create" /\ x1[e] = 0)
                              \/ (r.op \in {"rotate", "delete"} /\ e = r.target)
      /\ r.op = "delete" => x1'[r.target] = -1
      /\ x15' = (x15 \/ (~w /\ r.op \in {"rotate", "delete"}))
      /\ \A s \in x3' : x14'[s] = "replaced" => s \in x3 /\ x14[s] = "replaced"
  BY <1>1, Applies
<1>3. x2 \in Nat /\ x2' \in Nat /\ x2 <= x2' /\ x10 \in 0..x2 /\ x3 \subseteq 1..x2
  BY <1>1, <1>2, SomeSecrets DEF Secrets!OwnersKnown, Secrets!Secrets
<1>4. \A s \in 1..x2 : Secrets!Rotated(s)' <=> Secrets!Rotated(s)
  <2> TAKE s \in 1..x2
  <2>1. \A t \in 1..(s - 1) : x5'[t] = x5[t]
    BY <1>2, <1>3
  <2> QED
    BY <1>2, <2>1 DEF Secrets!Rotated
<1>5. \A q \in x11 : Secrets!RequestSound(q)'
  <2> TAKE q \in x11
  <2>1. Secrets!RequestSound(q)
    BY <1>1
  <2>2. q.secret \in 0..x2 /\ q.secret \in 0..x2'
    BY <1>3, <2>1 DEF Secrets!RequestSound
  <2>3. ASSUME q.secret # 0
        PROVE  /\ Secrets!Rotated(q.secret)' <=> Secrets!Rotated(q.secret)
               /\ x5'[q.secret] = x5[q.secret]
               /\ q.secret \in x3' <=> q.secret \in x3
    <3>1. q.secret \in 1..x2 /\ q.secret # x2 + 1
      BY <1>3, <2>2, <2>3
    <3> QED
      BY <1>2, <1>4, <3>1
  <2> QED
    BY <2>1, <2>2, <2>3 DEF Secrets!RequestSound, Secrets!Mints, Secrets!OpsOf
<1>6. Secrets!KeySecretsStay'
  BY <1>1, <1>2 DEF Secrets!KeySecretsStay
<1>7. x10 \in x3' => x7 = "keys"
  BY <1>1, <1>2, <1>3 DEF Secrets!Calm
<1>8. ASSUME r.op \in {"rotate", "delete"}, ~x15' PROVE w /\ r \in x11 /\ r.here /\ r.answer = "awaited"
  BY <1>2, <1>8
<1>9. ASSUME NEW q \in x11, q # r, q.op = "rotate", q.here, q.answer = "ok", ~x15'
      PROVE  x1'[q.target] = q.secret
  <2>1. x1[q.target] = q.secret /\ ~x15
    BY <1>1, <1>2, <1>9 DEF Secrets!RotationsWork
  <2>2. q.secret # 0 /\ q.target \in Endpoints
    BY <1>1, <1>9 DEF Secrets!RequestSound, Secrets!Mints
  <2>3. r.op \notin {"rotate", "delete"}
    BY <1>1, <1>8, <1>9 DEF Secrets!Calm, Secrets!Alone
  <2> QED
    BY <1>2, <2>1, <2>2, <2>3
<1>10. ASSUME x10 # 0, x5'[x10] # None, Secrets!Rotated(x10)', ~x15'
       PROVE  \/ x1'[x5'[x10]] \in {x10, -1}
              \/ \E q \in x11 : q # r /\ q.op = "rotate" /\ q.target = x5'[x10] /\ q.here /\ q.answer = "ok"
              \/ r.op = "rotate" /\ r.target = x5'[x10] /\ w
  <2>1. x10' = x10 /\ x10 \in 1..x2
    BY <1>3, <1>10
  <2>2. x5'[x10] = x5[x10] /\ Secrets!Rotated(x10) /\ ~x15
    <3>1. \A s \in 1..x2 : s = x10 => (Secrets!Rotated(s)' <=> Secrets!Rotated(x10)')
      BY <2>1
    <3> QED
      BY <1>2, <1>4, <1>10, <2>1, <3>1
  <2>3. x5[x10] \in Endpoints
    BY <1>1, <1>3, <1>10, <2>1, <2>2, SomeSecrets DEF Secrets!OwnersKnown, Secrets!Secrets
  <2>4. CASE r.op \in {"rotate", "delete"} /\ r.target = x5[x10]
    BY <1>2, <1>8, <1>10, <2>2, <2>4
  <2>5. CASE ~(r.op \in {"rotate", "delete"} /\ r.target = x5[x10]) /\ x1[x5[x10]] \in {x10, -1}
    <3>1. x1[x5[x10]] # 0
      BY <2>1, <2>5
    <3> QED
      BY <1>2, <2>2, <2>3, <2>5, <3>1
  <2>6. CASE \E q \in x11 : q.op = "rotate" /\ q.target = x5[x10] /\ q.here /\ q.answer = "ok"
    <3>1. PICK q \in x11 : q.op = "rotate" /\ q.target = x5[x10] /\ q.here /\ q.answer = "ok"
      BY <2>6
    <3>2. CASE q # r
      BY <2>2, <3>1, <3>2
    <3>3. CASE q = r
      BY <1>8, <1>10, <3>1, <3>3
    <3> QED
      BY <3>2, <3>3
  <2> QED
    BY <1>1, <1>10, <2>2, <2>4, <2>5, <2>6 DEF Secrets!RotationsWork
<1> QED
  BY <1>2, <1>5, <1>6, <1>7, <1>9, <1>10

(* The steps of the tab alone: the dialogs, and requests sent.              *)
LEMMA TabMoves ==
  ASSUME Secrets!SecretsInv, UNCHANGED <<x1, x2, x3, x5>>,
         \A q \in x13' : q.op \in {"rotate", "delete"} => q.target \in Endpoints,
         x7' \in {"webhooks", "keys", "elsewhere"}, x10' \in 0..x2, DOMAIN x14' = Secrets!Secrets,
         \A q \in x11' : Secrets!RequestSound(q)',
         Secrets!Alone({"createKey"})', Secrets!Alone({"rotate", "delete"})',
         \A q \in x11' : (q.op = "rotate" /\ q.here /\ q.answer = "ok" /\ ~x15') => x1[q.target] = q.secret,
         x9' # None => /\ x9'.kind \in Secrets!OpsOf[x7'] \cap {"rotate", "delete", "revoke"}
                       /\ x9'.kind # "revoke" => x9'.target \in Endpoints,
         x10' \in x3 => x7' = "keys",
         (x7' = "keys" /\ x10' # 0) => (x8' = None /\ ~Secrets!Busy({"createKey"})'),
         \A k \in x3 : x14'[k] # "replaced",
         (x10' # 0 /\ x5[x10'] # None /\ (\E older \in 1..(x10' - 1) : x5[older] = x5[x10']) /\ ~x15') =>
              \/ x1[x5[x10']] \in {x10', -1}
              \/ \E q \in x11' : q.op = "rotate" /\ q.target = x5[x10'] /\ q.here /\ q.answer = "ok"
  PROVE  Secrets!SecretsInv'
<1>1. Secrets!OwnersKnown'
  BY DEF Secrets!SecretsInv, Secrets!OwnersKnown, Secrets!Secrets
<1>2. Secrets!Calm'
  BY DEF Secrets!Calm, Secrets!OpsOf
<1>3. Secrets!KeySecretsStay'
  BY DEF Secrets!KeySecretsStay
<1>4. Secrets!RotationsWork'
  BY DEF Secrets!RotationsWork, Secrets!Rotated
<1> QED
  BY <1>1, <1>2, <1>3, <1>4 DEF Secrets!SecretsInv

(* Facts of SecretsInv in the form the steps below use.                     *)
LEMMA SecretFacts ==
  ASSUME Secrets!SecretsInv
  PROVE  /\ x7 \in {"webhooks", "keys", "elsewhere"} /\ x10 \in 0..x2 /\ x3 \subseteq 1..x2 /\ x2 \in Nat \ {0}
         /\ DOMAIN x14 = Secrets!Secrets
         /\ \A q \in x11 : Secrets!RequestSound(q)
         /\ Secrets!Alone({"createKey"}) /\ Secrets!Alone({"rotate", "delete"})
         /\ x9 # None => /\ x9.kind \in Secrets!OpsOf[x7] \cap {"rotate", "delete", "revoke"}
                         /\ x9.kind # "revoke" => x9.target \in Endpoints
         /\ x10 \in x3 => x7 = "keys"
         /\ (x7 = "keys" /\ x10 # 0) => (x8 = None /\ ~Secrets!Busy({"createKey"}))
         /\ \A k \in x3 : x14[k] # "replaced"
         /\ \A q \in x11 : (q.op = "rotate" /\ q.here /\ q.answer = "ok" /\ ~x15) => x1[q.target] = q.secret
         /\ (x10 # 0 /\ x5[x10] # None /\ (\E older \in 1..(x10 - 1) : x5[older] = x5[x10]) /\ ~x15) =>
              \/ x1[x5[x10]] \in {x10, -1}
              \/ \E q \in x11 : q.op = "rotate" /\ q.target = x5[x10] /\ q.here /\ q.answer = "ok"
         /\ \A q \in x13 : q.op \in {"rotate", "delete"} => q.target \in Endpoints
<1>1. x2 \in Nat \ {0} /\ x10 \in 0..x2 /\ x3 \subseteq 1..x2 /\ DOMAIN x14 = Secrets!Secrets /\ x2 \in Secrets!Secrets
  BY SomeSecrets DEF Secrets!SecretsInv, Secrets!OwnersKnown, Secrets!Secrets
<1> QED
  BY <1>1 DEF Secrets!SecretsInv, Secrets!Calm, Secrets!KeySecretsStay, Secrets!RotationsWork, Secrets!Rotated

LEMMA DialogsMove ==
  ASSUME Secrets!SecretsInv, UNCHANGED <<x1, x2, x3, x4, x5, x15, x13, x7, x10, x14>>,
         x11' \in {x11, Secrets!FormGone},
         x9' # None => /\ x9'.kind \in Secrets!OpsOf[x7] \cap {"rotate", "delete", "revoke"}
                       /\ x9'.kind # "revoke" => x9'.target \in Endpoints,
         (x7 = "keys" /\ x10 # 0) => x8' = None
  PROVE  Secrets!SecretsInv'
<1>1. /\ x7 \in {"webhooks", "keys", "elsewhere"} /\ x10 \in 0..x2 /\ DOMAIN x14 = Secrets!Secrets
      /\ \A q \in x11 : Secrets!RequestSound(q)
      /\ x10 \in x3 => x7 = "keys"
      /\ (x7 = "keys" /\ x10 # 0) => (x8 = None /\ ~Secrets!Busy({"createKey"}))
      /\ \A k \in x3 : x14[k] # "replaced"
      /\ (x10 # 0 /\ x5[x10] # None /\ (\E older \in 1..(x10 - 1) : x5[older] = x5[x10]) /\ ~x15) =>
           \/ x1[x5[x10]] \in {x10, -1}
           \/ \E q \in x11 : q.op = "rotate" /\ q.target = x5[x10] /\ q.here /\ q.answer = "ok"
      /\ \A q \in x13 : q.op \in {"rotate", "delete"} => q.target \in Endpoints
  BY SecretFacts
<1>2. /\ \A q \in x11' : Secrets!RequestSound(q)'
      /\ Secrets!Alone({"createKey"})' /\ Secrets!Alone({"rotate", "delete"})'
      /\ Secrets!Busy({"createKey"})' => Secrets!Busy({"createKey"})
      /\ \A q \in x11' : (q.op = "rotate" /\ q.here /\ q.answer = "ok" /\ ~x15) => x1[q.target] = q.secret
  BY RequestsStay
<1>3. (\E q \in x11 : q.op = "rotate" /\ q.target = x5[x10] /\ q.here /\ q.answer = "ok") =>
         \E q \in x11' : q.op = "rotate" /\ q.target = x5[x10] /\ q.here /\ q.answer = "ok"
  <2> SUFFICES ASSUME NEW q \in x11, q.op = "rotate" /\ q.target = x5[x10] /\ q.here /\ q.answer = "ok"
               PROVE  \E p \in x11' : p.op = "rotate" /\ p.target = x5[x10] /\ p.here /\ p.answer = "ok"
    OBVIOUS
  <2>1. DOMAIN q = {"id", "op", "target", "here", "ofForm", "answer", "secret"}
    BY <1>1 DEF Secrets!RequestSound
  <2>2. CASE x11' = Secrets!FormGone
    <3> DEFINE p == [q EXCEPT !.ofForm = FALSE]
    <3>1. p \in x11'
      BY <2>2 DEF Secrets!FormGone
    <3>2. p.op = q.op /\ p.target = q.target /\ p.here = q.here /\ p.answer = q.answer
      BY <2>1
    <3> HIDE DEF p
    <3> QED
      BY <3>1, <3>2
  <2>3. CASE x11' = x11
    BY <2>3
  <2> QED
    BY <2>2, <2>3
<1>4. x10' = x10 /\ x7' = x7 /\ x14' = x14 /\ x15' = x15 /\ x13' = x13
  OBVIOUS
<1> QED
  BY <1>1, <1>2, <1>3, <1>4, TabMoves

LEMMA SendMoves ==
  ASSUME Secrets!SecretsInv, UNCHANGED <<x1, x2, x3, x4, x5, x15, x13, x7, x8, x9, x10, x14>>,
         NEW op, NEW target, Secrets!Send(op, target),
         op \in Secrets!OpsOf[x7], x7 \in {"webhooks", "keys"},
         op \in {"rotate", "delete"} => target \in Endpoints /\ ~Secrets!Busy({"rotate", "delete"}),
         op = "createKey" => ~Secrets!Busy({"createKey"}) /\ x8 # None
  PROVE  Secrets!SecretsInv'
<1>1. /\ x10 \in 0..x2 /\ DOMAIN x14 = Secrets!Secrets
      /\ x9 # None => /\ x9.kind \in Secrets!OpsOf[x7] \cap {"rotate", "delete", "revoke"}
                      /\ x9.kind # "revoke" => x9.target \in Endpoints
      /\ x10 \in x3 => x7 = "keys"
      /\ (x7 = "keys" /\ x10 # 0) => (x8 = None /\ ~Secrets!Busy({"createKey"}))
      /\ \A k \in x3 : x14[k] # "replaced"
      /\ (x10 # 0 /\ x5[x10] # None /\ (\E older \in 1..(x10 - 1) : x5[older] = x5[x10]) /\ ~x15) =>
           \/ x1[x5[x10]] \in {x10, -1}
           \/ \E q \in x11 : q.op = "rotate" /\ q.target = x5[x10] /\ q.here /\ q.answer = "ok"
      /\ \A q \in x13 : q.op \in {"rotate", "delete"} => q.target \in Endpoints
  BY SecretFacts
<1>2. /\ \A q \in x11' : Secrets!RequestSound(q)'
      /\ Secrets!Alone({"createKey"})' /\ Secrets!Alone({"rotate", "delete"})'
      /\ Secrets!Busy({"createKey"})' => (Secrets!Busy({"createKey"}) \/ op = "createKey")
      /\ \A q \in x11' : (q.op = "rotate" /\ q.here /\ q.answer = "ok" /\ ~x15) => x1[q.target] = q.secret
      /\ x11 \subseteq x11'
  BY RequestSent
<1>3. x10' = x10 /\ x7' = x7 /\ x14' = x14 /\ x15' = x15 /\ x13' = x13 /\ x9' = x9 /\ x8' = x8
  OBVIOUS
<1>4. (x7 = "keys" /\ x10 # 0) => (x8 = None /\ ~Secrets!Busy({"createKey"})')
  BY <1>1, <1>2
<1> QED
  BY <1>1, <1>2, <1>3, <1>4, TabMoves

(* A response: what the server did is new to the requests that wait.        *)
LEMMA SecretServe ==
  ASSUME Secrets!SecretsInv, NEW r \in x11, Secrets!Serve(r)
  PROVE  Secrets!SecretsInv'
<1>1. PICK q : q = [r EXCEPT !.answer = "ok", !.secret = IF r.op \in Secrets!Mints THEN x2 + 1 ELSE 0]
  OBVIOUS
<1>2. /\ r.answer = "awaited" /\ Secrets!Apply(r, r.here) /\ x11' = (x11 \ {r}) \cup {q}
      /\ UNCHANGED <<x6, x7, x8, x9, x10, x12, x13>>
  BY <1>1 DEF Secrets!Serve
<1>3. Secrets!RequestSound(r)
  BY SecretFacts
<1>4. DOMAIN q = {"id", "op", "target", "here", "ofForm", "answer", "secret"} /\ q.op = r.op
      /\ q.target = r.target /\ q.here = r.here /\ q.answer = "ok"
      /\ q.secret = (IF r.op \in Secrets!Mints THEN x2 + 1 ELSE 0)
  BY <1>1, <1>3 DEF Secrets!RequestSound
<1>5. r.op \in {"rotate", "delete"} => r.target \in Endpoints
  BY <1>3 DEF Secrets!RequestSound
<1>6. PICK w : w = r.here
  OBVIOUS
<1>7. /\ Secrets!OwnersKnown'
      /\ x2' = (IF r.op \in Secrets!Mints THEN x2 + 1 ELSE x2)
      /\ \A s \in 1..x2 : x5'[s] = x5[s]
      /\ r.op = "rotate" => x1'[r.target] = x2 + 1 /\ x5'[x2 + 1] = r.target
      /\ r.op = "create" => \A s \in 1..x2 : x5'[s] # x5'[x2 + 1]
      /\ r.op \in Secrets!Mints => (r.op = "createKey" <=> x2 + 1 \in x3')
      /\ x15' = (x15 \/ (~w /\ r.op \in {"rotate", "delete"}))
  BY <1>2, <1>5, <1>6, Applies DEF Secrets!SecretsInv
<1>8. /\ \A p \in x11 : Secrets!RequestSound(p)'
      /\ Secrets!KeySecretsStay'
      /\ x10 \in x3' => x7 = "keys"
      /\ \A p \in x11 : (p # r /\ p.op = "rotate" /\ p.here /\ p.answer = "ok" /\ ~x15') => x1'[p.target] = p.secret
      /\ (x10 # 0 /\ x5'[x10] # None /\ Secrets!Rotated(x10)' /\ ~x15') =>
           \/ x1'[x5'[x10]] \in {x10, -1}
           \/ \E p \in x11 : p # r /\ p.op = "rotate" /\ p.target = x5'[x10] /\ p.here /\ p.answer = "ok"
           \/ r.op = "rotate" /\ r.target = x5'[x10] /\ w
  <2>1. w => (r \in x11 /\ r.here /\ r.answer = "awaited")
    BY <1>2, <1>6
  <2>2. Secrets!Apply(r, w)
    BY <1>2, <1>6
  <2>3. UNCHANGED <<x7, x8, x9, x10>>
    BY <1>2
  <2> QED
    BY <1>5, <2>1, <2>2, <2>3, ServedForOne
<1>9. x2 \in Nat \ {0} /\ x10' = x10 /\ x7' = x7 /\ x9' = x9 /\ x8' = x8 /\ x13' = x13
  BY <1>2, SecretFacts
<1>10. Secrets!RequestSound(q)'
  <2>2. q.secret \in 0..x2' /\ (r.op \in Secrets!Mints => q.secret # 0)
    BY <1>4, <1>7, <1>9
  <2>3. q.here => q.op \in Secrets!OpsOf[x7]
    BY <1>3, <1>4 DEF Secrets!RequestSound
  <2>4. q.secret # 0 => /\ q.op \in Secrets!Mints
                        /\ q.op = "create" => ~Secrets!Rotated(q.secret)'
                        /\ q.op = "rotate" => x5'[q.secret] = q.target
                        /\ q.op = "createKey" <=> q.secret \in x3'
    <3>1. ASSUME q.secret # 0, q.op = "create" PROVE ~Secrets!Rotated(q.secret)'
      <4>1. \A s \in 1..(q.secret - 1) : x5'[s] # x5'[q.secret]
        BY <1>4, <1>7, <1>9, <3>1
      <4> QED
        BY <4>1 DEF Secrets!Rotated
    <3> QED
      BY <1>4, <1>7, <3>1
  <2> QED
    BY <1>4, <1>5, <1>9, <2>2, <2>3, <2>4 DEF Secrets!RequestSound, Secrets!Mints, Secrets!OpsOf
<1>11. \A ops : Secrets!Alone(ops) => Secrets!Alone(ops)'
  BY <1>2, <1>4 DEF Secrets!Alone
<1>12. Secrets!Busy({"createKey"})' => Secrets!Busy({"createKey"})
  BY <1>2, <1>4 DEF Secrets!Busy
<1>13. Secrets!Calm'
  <2>1. Secrets!Alone({"createKey"}) /\ Secrets!Alone({"rotate", "delete"})
    BY SecretFacts
  <2>2. Secrets!Alone({"createKey"})' /\ Secrets!Alone({"rotate", "delete"})'
    BY <1>11, <2>1
  <2>3. /\ x9 # None => x9.kind \in Secrets!OpsOf[x7] \cap {"rotate", "delete", "revoke"}
        /\ x9 # None => (x9.kind # "revoke" => x9.target \in Endpoints)
        /\ (x7 = "keys" /\ x10 # 0) => (x8 = None /\ ~Secrets!Busy({"createKey"}))
    BY SecretFacts
  <2> QED
    BY <1>8, <1>9, <1>12, <2>2, <2>3 DEF Secrets!Calm, Secrets!OpsOf
<1>14. Secrets!RotationsWork'
  <2>1. \A p \in x11' : (p.op = "rotate" /\ p.here /\ p.answer = "ok" /\ ~x15') => x1'[p.target] = p.secret
    <3>1. q.op = "rotate" => x1'[q.target] = q.secret
      BY <1>4, <1>7 DEF Secrets!Mints
    <3> QED
      BY <1>2, <1>8, <3>1
  <2>2. (x10 # 0 /\ x5'[x10] # None /\ Secrets!Rotated(x10)' /\ ~x15') =>
           \/ x1'[x5'[x10]] \in {x10, -1}
           \/ \E p \in x11' : p.op = "rotate" /\ p.target = x5'[x10] /\ p.here /\ p.answer = "ok"
    BY <1>2, <1>4, <1>6, <1>8
  <2> QED
    BY <1>9, <2>1, <2>2 DEF Secrets!RotationsWork, Secrets!Rotated
<1> QED
  BY <1>2, <1>7, <1>8, <1>9, <1>10, <1>13, <1>14 DEF Secrets!SecretsInv

LEMMA SecretLateServe ==
  ASSUME Secrets!SecretsInv, NEW r \in x13, Secrets!ServeAbandoned(r)
  PROVE  Secrets!SecretsInv'
<1>1. /\ Secrets!Apply(r, FALSE) /\ x13' = x13 \ {r} /\ UNCHANGED <<x6, x7, x8, x9, x10, x11, x12>>
  BY DEF Secrets!ServeAbandoned
<1>2. r.op \in {"rotate", "delete"} => r.target \in Endpoints
  BY DEF Secrets!SecretsInv
<1>3. PICK w : w = FALSE
  OBVIOUS
<1>4. /\ Secrets!OwnersKnown'
      /\ \A q \in x11 : Secrets!RequestSound(q)'
      /\ Secrets!KeySecretsStay'
      /\ x10 \in x3' => x7 = "keys"
      /\ \A q \in x11 : (q # r /\ q.op = "rotate" /\ q.here /\ q.answer = "ok" /\ ~x15') => x1'[q.target] = q.secret
      /\ (x10 # 0 /\ x5'[x10] # None /\ Secrets!Rotated(x10)' /\ ~x15') =>
           \/ x1'[x5'[x10]] \in {x10, -1}
           \/ \E q \in x11 : q # r /\ q.op = "rotate" /\ q.target = x5'[x10] /\ q.here /\ q.answer = "ok"
           \/ r.op = "rotate" /\ r.target = x5'[x10] /\ w
  <2>1. Secrets!Apply(r, w) /\ (w => (r \in x11 /\ r.here /\ r.answer = "awaited"))
    BY <1>1, <1>3
  <2>2. UNCHANGED <<x7, x8, x9, x10>>
    BY <1>1
  <2> QED
    BY <1>2, <2>1, <2>2, ServedForOne
<1>5. x11' = x11 /\ x10' = x10 /\ x7' = x7 /\ x9' = x9 /\ x8' = x8
  BY <1>1
<1>6. Secrets!Calm'
  <2>1. Secrets!Alone({"createKey"})' /\ Secrets!Alone({"rotate", "delete"})'
    BY <1>5, SecretFacts DEF Secrets!Alone
  <2>2. /\ x9 # None => x9.kind \in Secrets!OpsOf[x7] \cap {"rotate", "delete", "revoke"}
        /\ x9 # None => (x9.kind # "revoke" => x9.target \in Endpoints)
        /\ (x7 = "keys" /\ x10 # 0) => (x8 = None /\ ~Secrets!Busy({"createKey"}))
    BY SecretFacts
  <2> QED
    BY <1>4, <1>5, <2>1, <2>2 DEF Secrets!Calm, Secrets!OpsOf, Secrets!Busy
<1>7. Secrets!RotationsWork'
  <2>1. \A q \in x11 : (q.op = "rotate" /\ q.here /\ q.answer = "ok" /\ ~x15') => x1'[q.target] = q.secret
    <3> TAKE q \in x11
    <3>1. CASE q = r
      <4>1. q.op = "rotate" => x15'
        BY <1>1, <3>1 DEF Secrets!Apply
      <4> QED
        BY <4>1
    <3>2. CASE q # r
      BY <1>4, <3>2
    <3> QED
      BY <3>1, <3>2
  <2> QED
    BY <1>3, <1>4, <1>5, <2>1 DEF Secrets!RotationsWork, Secrets!Rotated
<1> QED
  BY <1>1, <1>2, <1>4, <1>5, <1>6, <1>7 DEF Secrets!SecretsInv

(* A request that fails: what waits for it learns nothing.                  *)
LEMMA SecretFails ==
  ASSUME Secrets!SecretsInv, NEW r \in x11, Secrets!Refuse(r) \/ Secrets!Cut(r)
  PROVE  Secrets!SecretsInv'
<1>1. /\ \A q \in x11 : Secrets!RequestSound(q)
      /\ Secrets!Alone({"createKey"}) /\ Secrets!Alone({"rotate", "delete"})
      /\ x2 \in Nat \ {0}
  BY SecretFacts
<1>2. DOMAIN r = {"id", "op", "target", "here", "ofForm", "answer", "secret"}
  BY <1>1 DEF Secrets!RequestSound
<1>3. PICK q : /\ x11' = (x11 \ {r}) \cup {q}
               /\ DOMAIN q = DOMAIN r /\ q.op = r.op /\ q.target = r.target /\ q.here = r.here
               /\ q.answer = "error" /\ q.secret = 0
  <2>1. CASE Secrets!Refuse(r)
    <3>1. r.secret = 0
      BY <1>1, <2>1 DEF Secrets!Refuse, Secrets!RequestSound
    <3>2. PICK q : q = [r EXCEPT !.answer = "error"]
      OBVIOUS
    <3> QED
      BY <1>2, <2>1, <3>1, <3>2 DEF Secrets!Refuse
  <2>2. CASE Secrets!Cut(r)
    <3>1. PICK q : q = [r EXCEPT !.answer = "error", !.secret = 0]
      OBVIOUS
    <3>2. /\ DOMAIN q = DOMAIN r /\ q.op = r.op /\ q.target = r.target /\ q.here = r.here
          /\ q.answer = "error" /\ q.secret = 0
      BY <1>2, <3>1
    <3>3. x11' = (x11 \ {r}) \cup {q}
      BY <2>2, <3>1 DEF Secrets!Cut
    <3> QED
      BY <3>2, <3>3
  <2> QED
    BY <2>1, <2>2
<1>4. /\ UNCHANGED <<x1, x2, x3, x5, x7, x8, x9, x10>> /\ x13' \subseteq x13 \cup {r}
      /\ ~x15' => ~x15 /\ (r.answer = "ok" => r.op # "rotate")
      /\ DOMAIN x14' = Secrets!Secrets
      /\ \A k \in x3 : x14'[k] # "replaced"
  <2>1. /\ x3 \subseteq Secrets!Secrets /\ \A k \in x3 : x14[k] # "replaced"
        /\ DOMAIN x14 = Secrets!Secrets
    BY SomeSecrets DEF Secrets!SecretsInv, Secrets!OwnersKnown, Secrets!Secrets, Secrets!KeySecretsStay
  <2>2. CASE Secrets!Refuse(r)
    BY <2>1, <2>2 DEF Secrets!Refuse, Secrets!Server
  <2>3. CASE Secrets!Cut(r)
    <3>1. x14' = [s \in Secrets!Secrets |-> IF s = r.secret THEN "unanswered" ELSE x14[s]]
      BY <2>3 DEF Secrets!Cut
    <3>2. /\ UNCHANGED <<x1, x2, x3, x5, x7, x8, x9, x10>> /\ x13' \subseteq x13 \cup {r}
          /\ x15' = (x15 \/ (r.answer = "ok" /\ r.op \in {"rotate", "delete"}))
      BY <2>3 DEF Secrets!Cut
    <3> QED
      BY <2>1, <3>1, <3>2
  <2> QED
    BY <2>2, <2>3
<1>5. \A p \in x11' : Secrets!RequestSound(p)'
  <2>1. ASSUME NEW p \in x11 PROVE Secrets!RequestSound(p)'
    BY <1>1, <1>4 DEF Secrets!RequestSound, Secrets!Rotated, Secrets!Mints, Secrets!OpsOf
  <2>2. Secrets!RequestSound(q)'
    <3>1. q.op \in {"rotate", "delete"} => q.target \in Endpoints
      BY <1>1, <1>3 DEF Secrets!RequestSound
    <3>2. q.here => q.op \in Secrets!OpsOf[x7]
      BY <1>1, <1>3 DEF Secrets!RequestSound
    <3>3. q.secret \in 0..x2' /\ DOMAIN q = {"id", "op", "target", "here", "ofForm", "answer", "secret"}
      BY <1>1, <1>2, <1>3, <1>4
    <3> QED
      BY <1>3, <1>4, <3>1, <3>2, <3>3 DEF Secrets!RequestSound, Secrets!Mints, Secrets!OpsOf
  <2> QED
    BY <1>3, <2>1, <2>2
<1>6. Secrets!Alone({"createKey"})' /\ Secrets!Alone({"rotate", "delete"})'
  BY <1>1, <1>3 DEF Secrets!Alone
<1>7. Secrets!Busy({"createKey"})' => Secrets!Busy({"createKey"})
  BY <1>3 DEF Secrets!Busy
<1>8. \A p \in x11' : (p.op = "rotate" /\ p.here /\ p.answer = "ok" /\ ~x15') => x1[p.target] = p.secret
  BY <1>3, <1>4, SecretFacts
<1>9. (x10 # 0 /\ x5[x10] # None /\ (\E older \in 1..(x10 - 1) : x5[older] = x5[x10]) /\ ~x15') =>
         \/ x1[x5[x10]] \in {x10, -1}
         \/ \E p \in x11' : p.op = "rotate" /\ p.target = x5[x10] /\ p.here /\ p.answer = "ok"
  BY <1>3, <1>4, SecretFacts
<1>10. \A p \in x13' : p.op \in {"rotate", "delete"} => p.target \in Endpoints
  BY <1>1, <1>4, SecretFacts DEF Secrets!RequestSound
<1>11. /\ x7 \in {"webhooks", "keys", "elsewhere"} /\ x10 \in 0..x2
       /\ x9 # None => /\ x9.kind \in Secrets!OpsOf[x7] \cap {"rotate", "delete", "revoke"}
                       /\ x9.kind # "revoke" => x9.target \in Endpoints
       /\ x10 \in x3 => x7 = "keys"
       /\ (x7 = "keys" /\ x10 # 0) => (x8 = None /\ ~Secrets!Busy({"createKey"}))
  BY SecretFacts
<1>12. x7' = x7 /\ x8' = x8 /\ x9' = x9 /\ x10' = x10
  BY <1>4
<1> QED
  BY <1>4, <1>5, <1>6, <1>7, <1>8, <1>9, <1>10, <1>11, <1>12, TabMoves

(* A handler runs: only a key page without a key on it takes a new key.     *)
LEMMA SecretAnswer ==
  ASSUME Secrets!SecretsInv, NEW r \in x11, Secrets!Answer(r)
  PROVE  Secrets!SecretsInv'
<1> DEFINE g == [r EXCEPT !.ofForm = FALSE]
           Told == r.here /\ r.secret # 0
<1>1. /\ x7 \in {"webhooks", "keys", "elsewhere"} /\ x10 \in 0..x2 /\ x3 \subseteq 1..x2 /\ x2 \in Nat \ {0}
      /\ DOMAIN x14 = Secrets!Secrets
      /\ \A q \in x11 : Secrets!RequestSound(q)
      /\ Secrets!Alone({"createKey"}) /\ Secrets!Alone({"rotate", "delete"})
      /\ x9 # None => /\ x9.kind \in Secrets!OpsOf[x7] \cap {"rotate", "delete", "revoke"}
                      /\ x9.kind # "revoke" => x9.target \in Endpoints
      /\ x10 \in x3 => x7 = "keys"
      /\ (x7 = "keys" /\ x10 # 0) => (x8 = None /\ ~Secrets!Busy({"createKey"}))
      /\ \A k \in x3 : x14[k] # "replaced"
      /\ \A q \in x13 : q.op \in {"rotate", "delete"} => q.target \in Endpoints
  BY SecretFacts
<1>2. /\ r.answer \in {"ok", "error"}
      /\ x8' \in {x8, None}
      /\ (r.here /\ r.answer = "ok" /\ r.op = "createKey") => x8' = None
      /\ x9' \in {x9, None}
      /\ x10' = (IF Told THEN r.secret ELSE x10)
      /\ UNCHANGED <<x1, x2, x3, x5, x15, x7, x13>>
  BY DEF Secrets!Answer, Secrets!Server
<1>3. /\ x11' = x11 \ {r, g} \/ x11' = Secrets!FormGone \ {r, g}
      /\ x14' = [s \in Secrets!Secrets |->
                   IF r.secret = 0 THEN x14[s]
                   ELSE IF s = r.secret THEN (IF r.here THEN "shown" ELSE "left")
                   ELSE IF r.here /\ s = x10 /\ s # 0 THEN "replaced" ELSE x14[s]]
  BY DEF Secrets!Answer
<1>4. Secrets!RequestSound(r)
  BY <1>1
<1>5. DOMAIN r = {"id", "op", "target", "here", "ofForm", "answer", "secret"}
  BY <1>4 DEF Secrets!RequestSound
<1>6. g.op = r.op /\ g.here = r.here /\ g.answer = r.answer /\ g.target = r.target
  BY <1>5
<1>7. Told => /\ r.op \in {"create", "rotate", "createKey"} /\ r.answer = "ok" /\ r.secret \in 1..x2
              /\ r.op \in Secrets!OpsOf[x7]
              /\ r.op = "create" => ~Secrets!Rotated(r.secret)
              /\ r.op = "rotate" => x5[r.secret] = r.target
              /\ r.op = "createKey" <=> r.secret \in x3
  BY <1>1, <1>4 DEF Secrets!RequestSound, Secrets!Mints
<1>8. Told => (r.op = "createKey" <=> x7 = "keys")
  BY <1>1, <1>7 DEF Secrets!OpsOf
<1>9. /\ \A q \in x11' : Secrets!RequestSound(q)'
      /\ Secrets!Alone({"createKey"})' /\ Secrets!Alone({"rotate", "delete"})'
      /\ Secrets!Busy({"createKey"})' => Secrets!Busy({"createKey"})
      /\ \A q \in x11' : (q.op = "rotate" /\ q.here /\ q.answer = "ok" /\ ~x15) => x1[q.target] = q.secret
  BY <1>2, <1>3, RequestsStay
<1>10. x10' \in 0..x2
  BY <1>1, <1>2, <1>7
<1>11. x10' \in x3 => x7 = "keys"
  BY <1>1, <1>2, <1>7, <1>8
\* An image of another request that is alone of its kind is not taken away.
<1>12. ASSUME NEW p \in x11, p # r, NEW ops, Secrets!Alone(ops), p.op \in ops, p.here
       PROVE  \E q \in x11' : q.op = p.op /\ q.target = p.target /\ q.here /\ q.answer = p.answer
  <2>1. DOMAIN p = {"id", "op", "target", "here", "ofForm", "answer", "secret"}
    BY <1>1 DEF Secrets!RequestSound
  <2>2. r.op \notin ops \/ ~r.here
    BY <1>12 DEF Secrets!Alone
  <2>3. PICK q : q = [p EXCEPT !.ofForm = FALSE]
    OBVIOUS
  <2>4. q.op = p.op /\ q.target = p.target /\ q.here = p.here /\ q.answer = p.answer
    BY <2>1, <2>3
  <2>5. p \notin {r, g} /\ q \notin {r, g}
    BY <1>6, <1>12, <2>2, <2>4
  <2>6. q \in Secrets!FormGone
    BY <2>3 DEF Secrets!FormGone
  <2> QED
    BY <1>3, <1>12, <2>4, <2>5, <2>6
<1>13. ASSUME Told, r.op = "createKey" PROVE ~Secrets!Busy({"createKey"})'
  <2> SUFFICES ASSUME NEW q \in x11', q.op = "createKey", q.here PROVE FALSE
    BY DEF Secrets!Busy
  <2>1. CASE x11' = x11 \ {r, g}
    BY <1>1, <1>13, <2>1 DEF Secrets!Alone
  <2>2. CASE x11' = Secrets!FormGone \ {r, g}
    <3>1. PICK p \in x11 : q = [p EXCEPT !.ofForm = FALSE]
      BY <2>2 DEF Secrets!FormGone
    <3>2. DOMAIN p = {"id", "op", "target", "here", "ofForm", "answer", "secret"}
      BY <1>1 DEF Secrets!RequestSound
    <3>3. p.op = "createKey" /\ p.here
      BY <3>1, <3>2
    <3>4. p = r
      BY <1>1, <1>13, <3>3 DEF Secrets!Alone
    <3> QED
      BY <2>2, <3>1, <3>4
  <2> QED
    BY <1>3, <2>1, <2>2
<1> HIDE DEF g
<1>14. (x7 = "keys" /\ x10' # 0) => (x8' = None /\ ~Secrets!Busy({"createKey"})')
  BY <1>1, <1>2, <1>7, <1>8, <1>9, <1>13
<1>15. \A k \in x3 : x14'[k] # "replaced"
  <2> SUFFICES ASSUME NEW k \in x3, x14'[k] = "replaced" PROVE FALSE
    OBVIOUS
  <2>1. k \in Secrets!Secrets /\ k # 0
    BY <1>1, SomeSecrets DEF Secrets!SecretsInv, Secrets!OwnersKnown, Secrets!Secrets
  <2>2. Told /\ k = x10
    BY <1>1, <1>3, <2>1
  <2>3. x7 = "keys" /\ r.op = "createKey"
    BY <1>1, <1>8, <2>2
  <2> QED
    BY <1>1, <2>1, <2>2, <2>3 DEF Secrets!Busy
<1>16. DOMAIN x14' = Secrets!Secrets
  BY <1>3
<1>17. (x10' # 0 /\ x5[x10'] # None /\ (\E older \in 1..(x10' - 1) : x5[older] = x5[x10']) /\ ~x15') =>
         \/ x1[x5[x10']] \in {x10', -1}
         \/ \E q \in x11' : q.op = "rotate" /\ q.target = x5[x10'] /\ q.here /\ q.answer = "ok"
  <2>1. ASSUME Told, ~x15, r.op = "rotate" PROVE x1[x5[r.secret]] = r.secret
    BY <1>7, <2>1, SecretFacts
  <2>2. ASSUME Told, r.op = "create" PROVE ~\E older \in 1..(r.secret - 1) : x5[older] = x5[r.secret]
    BY <1>7, <2>2 DEF Secrets!Rotated
  <2>3. ASSUME Told, r.op = "createKey" PROVE x5[r.secret] = None
    <3>1. r.secret \in x3
      BY <1>7, <2>3
    <3>2. x2 \in 1..MaxMinted /\ MaxMinted \in Nat
      BY SomeSecrets DEF Secrets!SecretsInv, Secrets!OwnersKnown, Secrets!Secrets
    <3>3. r.secret \in 1..MaxMinted
      BY <1>7, <2>3, <3>2
    <3>4. r.secret \in Secrets!Secrets
      BY <3>3 DEF Secrets!Secrets
    <3> QED
      BY <3>1, <3>4 DEF Secrets!SecretsInv, Secrets!OwnersKnown
  <2>4. CASE Told
    BY <1>2, <1>7, <2>1, <2>2, <2>3, <2>4
  <2>5. CASE ~Told
    <3>1. x10' = x10 /\ x15' = x15
      BY <1>2, <2>5
    <3>2. ASSUME NEW p \in x11, p.op = "rotate", p.here, p.answer = "ok" PROVE p # r
      BY <1>4, <2>5, <3>2 DEF Secrets!RequestSound, Secrets!Mints
    <3>3. ASSUME NEW p \in x11, p.op = "rotate", p.target = x5[x10], p.here, p.answer = "ok"
          PROVE  \E q \in x11' : q.op = "rotate" /\ q.target = x5[x10] /\ q.here /\ q.answer = "ok"
      BY <1>1, <1>12, <3>2, <3>3
    <3> QED
      BY <3>1, <3>3, SecretFacts
  <2> QED
    BY <2>4, <2>5
<1> HIDE DEF Told
<1>18. /\ x7' \in {"webhooks", "keys", "elsewhere"}
       /\ x9' # None => /\ x9'.kind \in Secrets!OpsOf[x7'] \cap {"rotate", "delete", "revoke"}
                        /\ x9'.kind # "revoke" => x9'.target \in Endpoints
       /\ \A q \in x13' : q.op \in {"rotate", "delete"} => q.target \in Endpoints
       /\ UNCHANGED <<x1, x2, x3, x5>> /\ x15' = x15 /\ x7' = x7
  BY <1>1, <1>2
<1> QED
  BY <1>9, <1>10, <1>11, <1>14, <1>15, <1>16, <1>17, <1>18, TabMoves

(* The steps of the tab's user.                                             *)
LEMMA SecretUser ==
  ASSUME Secrets!SecretsInv,
         \/ \E p \in {"webhooks", "keys", "elsewhere"} : Secrets!Visit(p)
         \/ Secrets!SavedIt
  PROVE  Secrets!SecretsInv'
<1>1. /\ UNCHANGED <<x1, x2, x3, x5, x15, x13>>
      /\ x7' \in {"webhooks", "keys", "elsewhere"} /\ x10' = 0 /\ DOMAIN x14' = Secrets!Secrets
      /\ \/ x7' = x7 /\ x11' \subseteq x11
         \/ x11' \subseteq Secrets!PageGone
      /\ x9' # None => x9' = x9 /\ x7' = x7
      /\ \A k \in x3 : x14'[k] # "replaced"
  <2>1. /\ x3 \subseteq Secrets!Secrets /\ DOMAIN x14 = Secrets!Secrets /\ x7 \in {"webhooks", "keys", "elsewhere"}
        /\ \A k \in x3 : x14[k] # "replaced"
    BY SomeSecrets DEF Secrets!SecretsInv, Secrets!OwnersKnown, Secrets!Secrets, Secrets!KeySecretsStay
  <2>2. ASSUME NEW p \in {"webhooks", "keys", "elsewhere"}, Secrets!Visit(p)
        PROVE  /\ UNCHANGED <<x1, x2, x3, x5, x15, x13>>
               /\ x7' = p /\ x10' = 0 /\ x11' = Secrets!PageGone /\ x9' = None
               /\ DOMAIN x14' = Secrets!Secrets /\ \A k \in x3 : x14'[k] # "replaced"
    BY <2>1, <2>2 DEF Secrets!Visit, Secrets!Server
  <2>3. CASE Secrets!SavedIt
    BY <2>1, <2>3 DEF Secrets!SavedIt, Secrets!Server
  <2> QED
    BY <2>2, <2>3
<1>2. /\ \A q \in x11' : Secrets!RequestSound(q)'
      /\ Secrets!Alone({"createKey"})' /\ Secrets!Alone({"rotate", "delete"})'
      /\ \A q \in x11' : (q.op = "rotate" /\ q.here /\ q.answer = "ok" /\ ~x15) => x1[q.target] = q.secret
  BY <1>1, RequestsStay
<1>3. /\ x9' # None => /\ x9'.kind \in Secrets!OpsOf[x7'] \cap {"rotate", "delete", "revoke"}
                       /\ x9'.kind # "revoke" => x9'.target \in Endpoints
      /\ \A q \in x13' : q.op \in {"rotate", "delete"} => q.target \in Endpoints
      /\ x10' \in 0..x2 /\ x10' \notin x3 /\ x15' = x15
  BY <1>1, SecretFacts
<1> QED
  BY <1>1, <1>2, <1>3, TabMoves

LEMMA SecretDialogs ==
  ASSUME Secrets!SecretsInv,
         \/ Secrets!Demote
         \/ \E what \in {"new"} \cup Secrets!Listed : Secrets!OpenForm(what)
         \/ Secrets!CloseForm
         \/ \E kind \in {"rotate", "delete"}, e \in Secrets!Listed : Secrets!OpenConfirm(kind, e)
         \/ Secrets!CloseConfirm
         \/ Secrets!OpenCreateKey
         \/ \E k \in x3 \ x4 : Secrets!OpenRevoke(k)
  PROVE  Secrets!SecretsInv'
<1>1. /\ x9 # None => /\ x9.kind \in Secrets!OpsOf[x7] \cap {"rotate", "delete", "revoke"}
                      /\ x9.kind # "revoke" => x9.target \in Endpoints
      /\ (x7 = "keys" /\ x10 # 0) => (x8 = None /\ ~Secrets!Busy({"createKey"}))
  BY SecretFacts
<1>2. CASE Secrets!Demote
  <2>1. /\ UNCHANGED <<x1, x2, x3, x4, x5, x15, x13, x7, x8, x10, x14>>
        /\ x11' \in {x11, Secrets!FormGone} /\ x9' \in {x9, None}
    BY <1>2 DEF Secrets!Demote, Secrets!Server
  <2> QED
    BY <1>1, <2>1, DialogsMove
<1>3. ASSUME NEW what \in {"new"} \cup Secrets!Listed, Secrets!OpenForm(what) PROVE Secrets!SecretsInv'
  <2>1. /\ UNCHANGED <<x1, x2, x3, x4, x5, x15, x13, x7, x9, x10, x14>> /\ x11' = x11 /\ x7 # "keys"
    BY <1>3 DEF Secrets!OpenForm, Secrets!Server, Secrets!WebhooksPage
  <2> QED
    BY <1>1, <2>1, DialogsMove
<1>4. CASE Secrets!CloseForm
  <2>1. /\ UNCHANGED <<x1, x2, x3, x4, x5, x15, x13, x7, x9, x10, x14>>
        /\ x11' \in {x11, Secrets!FormGone} /\ x8' = None
    BY <1>4 DEF Secrets!CloseForm, Secrets!Server
  <2> QED
    BY <1>1, <2>1, DialogsMove
<1>5. ASSUME NEW kind \in {"rotate", "delete"}, NEW e \in Secrets!Listed, Secrets!OpenConfirm(kind, e)
      PROVE  Secrets!SecretsInv'
  <2>1. /\ UNCHANGED <<x1, x2, x3, x4, x5, x15, x13, x7, x8, x10, x14>> /\ x11' = x11
        /\ x7 = "webhooks" /\ x9' = [kind |-> kind, target |-> e]
    BY <1>5 DEF Secrets!OpenConfirm, Secrets!Server, Secrets!WebhooksPage
  <2>2. x9'.kind = kind /\ x9'.target = e /\ e \in Endpoints
    BY <2>1 DEF Secrets!Listed
  <2>3. kind \in Secrets!OpsOf[x7]
    BY <2>1 DEF Secrets!OpsOf
  <2> QED
    BY <1>1, <2>1, <2>2, <2>3, DialogsMove
<1>6. CASE Secrets!CloseConfirm
  <2>1. /\ UNCHANGED <<x1, x2, x3, x4, x5, x15, x13, x7, x8, x10, x14>> /\ x11' = x11 /\ x9' = None
    BY <1>6 DEF Secrets!CloseConfirm, Secrets!Server
  <2> QED
    BY <1>1, <2>1, DialogsMove
<1>7. CASE Secrets!OpenCreateKey
  <2>1. /\ UNCHANGED <<x1, x2, x3, x4, x5, x15, x13, x7, x9, x10, x14>> /\ x11' = x11
        /\ x7 = "keys" /\ x10 = 0
    BY <1>7 DEF Secrets!OpenCreateKey, Secrets!Server, Secrets!ApiKeysPage, Secrets!Idle, Secrets!SecretDialog
  <2> QED
    BY <1>1, <2>1, DialogsMove
<1>8. ASSUME NEW k \in x3 \ x4, Secrets!OpenRevoke(k) PROVE Secrets!SecretsInv'
  <2>1. /\ UNCHANGED <<x1, x2, x3, x4, x5, x15, x13, x7, x8, x10, x14>> /\ x11' = x11
        /\ x7 = "keys" /\ x9' = [kind |-> "revoke", target |-> k]
    BY <1>8 DEF Secrets!OpenRevoke, Secrets!Server, Secrets!ApiKeysPage
  <2>2. x9'.kind = "revoke"
    BY <2>1
  <2>3. "revoke" \in Secrets!OpsOf[x7]
    BY <2>1 DEF Secrets!OpsOf
  <2> QED
    BY <1>1, <2>1, <2>2, <2>3, DialogsMove
<1> QED
  BY <1>2, <1>3, <1>4, <1>5, <1>6, <1>7, <1>8

LEMMA SecretSends ==
  ASSUME Secrets!SecretsInv,
         \/ Secrets!SubmitForm \/ Secrets!Confirm
         \/ \E op \in {"test", "switch"}, e \in Secrets!Listed : Secrets!EndpointCard(op, e)
         \/ Secrets!Deliveries \/ Secrets!SubmitKey
  PROVE  Secrets!SecretsInv'
<1>1. CASE Secrets!SubmitForm
  <2>1. /\ UNCHANGED <<x1, x2, x3, x4, x5, x15, x13, x7, x8, x9, x10, x14>> /\ x7 = "webhooks"
        /\ Secrets!Send("create", None) \/ Secrets!Send("edit", x8)
    BY <1>1 DEF Secrets!SubmitForm, Secrets!Server, Secrets!WebhooksPage
  <2>2. {"create", "edit"} \subseteq Secrets!OpsOf[x7]
    BY <2>1 DEF Secrets!OpsOf
  <2>3. CASE Secrets!Send("create", None)
    BY <2>1, <2>2, <2>3, SendMoves
  <2>4. CASE Secrets!Send("edit", x8)
    <3>1. PICK target : target = x8
      OBVIOUS
    <3> QED
      BY <2>1, <2>2, <2>4, <3>1, SendMoves
  <2> QED
    BY <2>1, <2>3, <2>4
<1>2. CASE Secrets!Confirm
  <2>1. PICK op, target : op = x9.kind /\ target = x9.target
    OBVIOUS
  <2>2. /\ UNCHANGED <<x1, x2, x3, x4, x5, x15, x13, x7, x8, x9, x10, x14>>
        /\ Secrets!Send(op, target) /\ x9 # None /\ ~Secrets!Loading
    BY <1>2, <2>1 DEF Secrets!Confirm, Secrets!Server
  <2>3. /\ op \in Secrets!OpsOf[x7] \cap {"rotate", "delete", "revoke"} /\ (op # "revoke" => target \in Endpoints)
        /\ x7 \in {"webhooks", "keys", "elsewhere"}
    BY <2>1, <2>2, SecretFacts
  <2>4. x7 = "webhooks" \/ (x7 = "keys" /\ op = "revoke")
    BY <2>3 DEF Secrets!OpsOf
  <2>5. op \in {"rotate", "delete"} => ~Secrets!Busy({"rotate", "delete"})
    BY <2>2, <2>4 DEF Secrets!Loading
  <2> QED
    BY <2>2, <2>3, <2>4, <2>5, SendMoves
<1>3. ASSUME NEW op \in {"test", "switch"}, NEW e \in Secrets!Listed, Secrets!EndpointCard(op, e)
      PROVE  Secrets!SecretsInv'
  <2>1. /\ UNCHANGED <<x1, x2, x3, x4, x5, x15, x13, x7, x8, x9, x10, x14>> /\ x7 = "webhooks"
        /\ Secrets!Send(op, e)
    BY <1>3 DEF Secrets!EndpointCard, Secrets!Server, Secrets!WebhooksPage
  <2>2. op \in Secrets!OpsOf[x7]
    BY <2>1 DEF Secrets!OpsOf
  <2> QED
    BY <2>1, <2>2, SendMoves
<1>4. CASE Secrets!Deliveries
  <2>1. /\ UNCHANGED <<x1, x2, x3, x4, x5, x15, x13, x7, x8, x9, x10, x14>> /\ x7 = "webhooks"
        /\ Secrets!Send("redeliver", None)
    BY <1>4 DEF Secrets!Deliveries, Secrets!Server, Secrets!WebhooksPage
  <2>2. "redeliver" \in Secrets!OpsOf[x7]
    BY <2>1 DEF Secrets!OpsOf
  <2> QED
    BY <2>1, <2>2, SendMoves
<1>5. CASE Secrets!SubmitKey
  <2>1. /\ UNCHANGED <<x1, x2, x3, x4, x5, x15, x13, x7, x8, x9, x10, x14>> /\ x7 = "keys"
        /\ Secrets!Send("createKey", None) /\ x8 = "key" /\ ~Secrets!Busy({"createKey"})
    BY <1>5 DEF Secrets!SubmitKey, Secrets!Server, Secrets!CreatingKey
  <2>2. "createKey" \in Secrets!OpsOf[x7] /\ x8 # None
    BY <2>1, SomeSecrets DEF Secrets!OpsOf
  <2> QED
    BY <2>1, <2>2, SendMoves
<1> QED
  BY <1>1, <1>2, <1>3, <1>4, <1>5

LEMMA SecretsStep ==
  ASSUME Secrets!SecretsInv, [Secrets!Next]_(Secrets!vars)
  PROVE  Secrets!SecretsInv'
<1>1. CASE UNCHANGED Secrets!vars
  <2>1. UNCHANGED <<x1, x2, x3, x4, x5, x15, x13, x7, x8, x9, x10, x11, x14>>
    BY <1>1 DEF Secrets!vars
  <2>2. /\ x9 # None => /\ x9.kind \in Secrets!OpsOf[x7] \cap {"rotate", "delete", "revoke"}
                        /\ x9.kind # "revoke" => x9.target \in Endpoints
        /\ (x7 = "keys" /\ x10 # 0) => x8 = None
    BY SecretFacts
  <2> QED
    BY <2>1, <2>2, DialogsMove
<1>2. CASE Secrets!Next
  BY <1>2, SecretUser, SecretDialogs, SecretSends, SecretServe, SecretFails, SecretAnswer, SecretLateServe
     DEF Secrets!Next
<1> QED
  BY <1>1, <1>2

-----------------------------------------------------------------------------
(* The settings (SettingsPage).                                             *)

LEMMA SettingsStart == Settings!Init => Settings!SettingsInv
<1> SUFFICES ASSUME Settings!Init PROVE Settings!SettingsInv
  OBVIOUS
<1>1. /\ x2 = x1 /\ x3 = TRUE /\ x4 = x1 /\ x5 = x2 /\ x8 = x3 /\ x9 = x3 /\ x10 = {}
      /\ x14 = {} /\ x20 = {} /\ x16 = 0 /\ x17 = FALSE /\ x18 = FALSE /\ x19 = FALSE
  BY DEF Settings!Init
<1>2. DOMAIN x15 = {"profile", "org"}
  BY DEF Settings!Init
<1>3. DOMAIN x12 = {"saved", "typed"} /\ x12.saved = x4 /\ DOMAIN x13 = {"saved", "typed"} /\ x13.saved = x5
  BY DEF Settings!Init, Settings!Fresh
<1>4. x6.state = "idle" /\ x7.state = "idle"
  BY DEF Settings!Init, Settings!Idle
<1>5. Settings!SendsTyped
  BY <1>1 DEF Settings!SendsTyped
<1>6. Settings!InOrder
  BY <1>1 DEF Settings!InOrder, Settings!Done, Settings!Moves
<1>7. Settings!FormsFollow
  BY <1>1, <1>2, <1>3, <1>4 DEF Settings!FormsFollow, Settings!Tells, Settings!Saving
<1> QED
  BY <1>5, <1>6, <1>7 DEF Settings!SettingsInv

(* A send, new or with an answer.                                           *)
SendShape(q) == DOMAIN q = {"id", "kind", "value", "previous", "answer"}
Answer(q, a) == [q EXCEPT !.answer = a]

LEMMA AnswerKeeps ==
  ASSUME NEW q, NEW a, SendShape(q)
  PROVE  /\ SendShape(Answer(q, a)) /\ Answer(q, a).answer = a
         /\ Answer(q, a).id = q.id /\ Answer(q, a).kind = q.kind
         /\ Answer(q, a).value = q.value /\ Answer(q, a).previous = q.previous
BY DEF SendShape, Answer

(* What a step does to the sends: nothing, a new one, an answer, or an end. *)
LEMMA SendMade ==
  ASSUME NEW kind, NEW value, NEW previous, Settings!Send(kind, value, previous)
  PROVE  /\ x11 /\ x16' = x16 + 1
         /\ \E n : /\ x14' = x14 \cup {n} /\ SendShape(n) /\ n.id = x16 /\ n.kind = kind
                   /\ n.value = value /\ n.previous = previous /\ n.answer = "awaited"
<1>1. PICK n : n = [id |-> x16, kind |-> kind, value |-> value, previous |-> previous, answer |-> "awaited"]
  OBVIOUS
<1>2. SendShape(n) /\ n.id = x16 /\ n.kind = kind /\ n.value = value /\ n.previous = previous /\ n.answer = "awaited"
  BY <1>1 DEF SendShape
<1>3. x11 /\ x16' = x16 + 1 /\ x14' = x14 \cup {n}
  BY <1>1 DEF Settings!Send
<1> QED
  BY <1>2, <1>3

LEMMA SendsStayTyped ==
  ASSUME Settings!SendsTyped, [Settings!Next]_(Settings!vars)
  PROVE  Settings!SendsTyped'
<1>1. /\ x16 \in Nat /\ x19 \in BOOLEAN /\ x17 \in BOOLEAN /\ x18 \in BOOLEAN
      /\ \A q \in x14 : SendShape(q) /\ q.id \in 0..(x16 - 1) /\ \A p \in x14 : p.id = q.id => p = q
  BY DEF Settings!SendsTyped, SendShape
<1>2. x19' \in BOOLEAN /\ x17' \in BOOLEAN /\ x18' \in BOOLEAN
  BY <1>1 DEF Settings!Next, Settings!vars, Settings!Api, Settings!Cached, Settings!Switch, Settings!Forms,
     Settings!Type, Settings!Colleague, Settings!SaveProfile, Settings!SaveOrg, Settings!Toggle, Settings!Leave,
     Settings!Visit, Settings!ServeMe, Settings!ServeOrg, Settings!MeArrives, Settings!OrgArrives, Settings!Serve,
     Settings!Cut, Settings!ProfileSaved, Settings!OrgSaved, Settings!NotSaved, Settings!Moved, Settings!MovesBack,
     Settings!AskMe, Settings!MeFails, Settings!OrgFails, Settings!TryAgain
<1>3. ASSUME x16' = x16, x14' \subseteq x14 PROVE Settings!SendsTyped'
  BY <1>1, <1>2, <1>3 DEF Settings!SendsTyped, SendShape
<1>4. ASSUME NEW q \in x14, NEW a, x16' = x16, x14' = (x14 \ {q}) \cup {Answer(q, a)} PROVE Settings!SendsTyped'
  <2>1. SendShape(Answer(q, a)) /\ Answer(q, a).id = q.id
    BY <1>1, AnswerKeeps
  <2>2. \A p \in x14' : SendShape(p) /\ p.id \in 0..(x16 - 1)
    BY <1>1, <1>4, <2>1
  <2>3. \A p, r \in x14' : p.id = r.id => p = r
    BY <1>1, <1>4, <2>1
  <2> QED
    BY <1>1, <1>2, <1>4, <2>2, <2>3 DEF Settings!SendsTyped, SendShape
<1>5. ASSUME NEW n, x16' = x16 + 1, x14' = x14 \cup {n}, SendShape(n), n.id = x16 PROVE Settings!SendsTyped'
  <2>1. x16' \in Nat /\ x16 \in 0..(x16' - 1) /\ \A i \in 0..(x16 - 1) : i \in 0..(x16' - 1) /\ i # x16
    BY <1>1, <1>5
  <2>2. \A p \in x14' : SendShape(p) /\ p.id \in 0..(x16' - 1)
    BY <1>1, <1>5, <2>1
  <2>3. \A p, r \in x14' : p.id = r.id => p = r
    BY <1>1, <1>5, <2>1
  <2> QED
    BY <1>2, <2>1, <2>2, <2>3 DEF Settings!SendsTyped, SendShape
<1>6. CASE Settings!SaveProfile \/ Settings!SaveOrg \/ Settings!Toggle
  <2>1. PICK kind, value, previous : Settings!Send(kind, value, previous)
    BY <1>6 DEF Settings!SaveProfile, Settings!SaveOrg, Settings!Toggle
  <2> QED
    BY <1>5, <2>1, SendMade
<1>7. ASSUME NEW q \in x14, Settings!Serve(q) \/ Settings!Cut(q) PROVE Settings!SendsTyped'
  <2>1. x16' = x16 /\ \E a : x14' = (x14 \ {q}) \cup {Answer(q, a)}
    BY <1>7 DEF Settings!Serve, Settings!Cut, Answer
  <2> QED
    BY <1>4, <2>1
<1>8. ASSUME NEW q \in x14,
             Settings!ProfileSaved(q) \/ Settings!OrgSaved(q) \/ Settings!NotSaved(q) \/ Settings!Moved(q) \/ Settings!MovesBack(q)
      PROVE  Settings!SendsTyped'
  BY <1>3, <1>8 DEF Settings!ProfileSaved, Settings!OrgSaved, Settings!NotSaved, Settings!Moved, Settings!MovesBack,
     Settings!Answered
<1>9. ASSUME NEW name \in Names, Settings!Type(name) \/ Settings!Colleague(name) PROVE Settings!SendsTyped'
  BY <1>3, <1>9 DEF Settings!Type, Settings!Colleague
<1>10. CASE \/ Settings!Leave \/ Settings!Visit \/ Settings!ServeMe \/ Settings!ServeOrg
            \/ Settings!MeArrives \/ Settings!OrgArrives \/ Settings!MeFails \/ Settings!OrgFails
            \/ Settings!TryAgain \/ UNCHANGED Settings!vars
  BY <1>3, <1>10 DEF Settings!Leave, Settings!Visit, Settings!ServeMe, Settings!ServeOrg, Settings!MeArrives,
     Settings!OrgArrives, Settings!MeFails, Settings!OrgFails, Settings!TryAgain, Settings!vars
<1> QED
  BY <1>6, <1>7, <1>8, <1>9, <1>10 DEF Settings!Next

(* Until two moves cross, the switch moves in order.  What a step does to   *)
(* the moves: none of them changes, or one of the cases of its own.         *)
LEMMA OrderKept ==
  ASSUME Settings!InOrder, Settings!Moves' = Settings!Moves, x3' = x3,
         x9' = x9, x8' = x8 \/ (Settings!Moves = {} /\ x8' = x9)
  PROVE  Settings!InOrder'
<1>1. Settings!Done' = Settings!Done
  BY DEF Settings!Done
<1>2. Settings!Moves = {} => Settings!Done = {}
  BY DEF Settings!Done
<1> QED
  BY <1>1, <1>2 DEF Settings!InOrder, Settings!Last, Settings!First

LEMMA OrderOfToggle ==
  ASSUME Settings!SendsTyped, Settings!InOrder, Settings!Toggle, ~x19'
  PROVE  Settings!InOrder'
<1>1. PICK n : /\ x14' = x14 \cup {n} /\ n.id = x16 /\ n.kind = "switch" /\ n.previous = x8 /\ n.answer = "awaited"
               /\ SendShape(n)
  BY SendMade DEF Settings!Toggle
<1>2. /\ \A p \in Settings!Moves : (\A q \in Settings!Moves : q.id <= p.id) => x8 = p.value
      /\ x3' = x3 /\ x9' = x9
  BY DEF Settings!Toggle, Settings!Api
<1>3. Settings!Moves' = Settings!Moves \cup {n}
  BY <1>1 DEF Settings!Moves
<1>4. Settings!Done' = Settings!Done /\ n \notin Settings!Done /\ Settings!Done \subseteq Settings!Moves
  BY <1>1, <1>3 DEF Settings!Done
<1>5. n.id \in Int /\ \A q \in Settings!Moves : q.id \in Int /\ q.id < n.id
  BY <1>1 DEF Settings!SendsTyped, Settings!Moves
<1>6. \A p \in Settings!Done', q \in Settings!Moves' : q.id < p.id => q.answer # "awaited"
  BY <1>3, <1>4, <1>5 DEF Settings!InOrder
<1>7. ASSUME NEW p \in Settings!Moves', NEW q \in Settings!Moves', p.id < q.id,
             \A m \in Settings!Moves' : m.id <= p.id \/ q.id <= m.id
      PROVE  q.previous = p.value
  <2>1. p \in Settings!Moves
    BY <1>3, <1>5, <1>7
  <2>2. CASE q = n
    <3>1. \A m \in Settings!Moves : m.id <= p.id
      BY <1>3, <1>5, <1>7, <2>2
    <3> QED
      BY <1>1, <1>2, <2>1, <2>2, <3>1
  <2>3. CASE q \in Settings!Moves
    BY <1>3, <1>7, <2>1, <2>3 DEF Settings!InOrder
  <2> QED
    BY <1>3, <2>2, <2>3
<1>8. \A q \in Settings!Moves' : Settings!Last(q, Settings!Done') => x3' = q.value
  BY <1>2, <1>3, <1>4 DEF Settings!InOrder, Settings!Last
<1>9. ASSUME NEW q \in Settings!Moves', Settings!Done' = {}, \A p \in Settings!Moves' : q.id <= p.id
      PROVE  x3' = q.previous
  <2>1. CASE q \in Settings!Moves
    BY <1>2, <1>3, <1>4, <1>9, <2>1 DEF Settings!InOrder, Settings!First
  <2>2. CASE q = n
    <3>1. Settings!Moves = {}
      BY <1>3, <1>5, <1>9, <2>2
    <3> QED
      BY <1>1, <1>2, <2>2, <3>1 DEF Settings!InOrder
  <2> QED
    BY <1>3, <2>1, <2>2
<1>10. Settings!Done' = {} => x9' = x3'
  BY <1>2, <1>4 DEF Settings!InOrder
<1> QED
  BY <1>3, <1>6, <1>7, <1>8, <1>9, <1>10 DEF Settings!InOrder, Settings!First

LEMMA OrderOfServe ==
  ASSUME Settings!SendsTyped, Settings!InOrder, NEW q \in x14, Settings!Serve(q) \/ Settings!Cut(q), ~x19'
  PROVE  Settings!InOrder'
<1>1. PICK n : /\ n = Answer(q, "ok") \/ n = Answer(q, "refused")
               /\ x14' = (x14 \ {q}) \cup {n} /\ x8' = x8 /\ x9' = x9
  BY DEF Settings!Serve, Settings!Cut, Answer
<1>2. n.id = q.id /\ n.kind = q.kind /\ n.value = q.value /\ n.previous = q.previous /\ n.answer \in {"ok", "refused"}
  BY <1>1, AnswerKeeps DEF Settings!SendsTyped, SendShape
<1>3. CASE q \notin Settings!Moves
  <2>1. Settings!Moves' = Settings!Moves
    BY <1>1, <1>2, <1>3 DEF Settings!Moves
  <2>2. x3' = x3
    BY <1>3 DEF Settings!Serve, Settings!Cut, Settings!Api, Settings!Moves
  <2> QED
    BY <1>1, <2>1, <2>2, OrderKept
<1>4. CASE q \in Settings!Moves
  <2>1. Settings!Serve(q) /\ q.answer = "awaited" /\ q.kind = "switch"
    BY <1>4 DEF Settings!Cut, Settings!Serve, Settings!Moves
  <2>2. Settings!Moves' = (Settings!Moves \ {q}) \cup {n}
    BY <1>1, <1>2, <1>4 DEF Settings!Moves
  <2>3. q \notin Settings!Done
    BY <2>1 DEF Settings!Done
  <2>4. \A p \in Settings!Moves : /\ p.id \in Int
                                  /\ \A r \in Settings!Moves : p.id = r.id => p = r
    BY DEF Settings!SendsTyped, Settings!Moves
  <2>5. ASSUME NEW p \in Settings!Moves', NEW r \in Settings!Moves', p.id < r.id,
               \A m \in Settings!Moves' : m.id <= p.id \/ r.id <= m.id
        PROVE  r.previous = p.value
    <3> DEFINE before(m) == IF m = n THEN q ELSE m
    <3>1. \A m \in Settings!Moves' : /\ before(m) \in Settings!Moves /\ before(m).id = m.id
                                     /\ before(m).value = m.value /\ before(m).previous = m.previous
      BY <1>2, <1>4, <2>2
    <3>2. \A m \in Settings!Moves : \E k \in Settings!Moves' : k.id = m.id
      BY <1>2, <2>2
    <3>3. \A m \in Settings!Moves : m.id <= p.id \/ r.id <= m.id
      BY <2>5, <3>2
    <3> HIDE DEF before
    <3>4. before(p).id < before(r).id /\ \A m \in Settings!Moves : m.id <= before(p).id \/ before(r).id <= m.id
      BY <2>5, <3>1, <3>3
    <3>5. before(r).previous = before(p).value
      BY <3>1, <3>4 DEF Settings!InOrder
    <3> QED
      BY <3>1, <3>5
  <2>6. CASE n.answer = "ok"
    <3>1. /\ x3' = q.value
          /\ \A p \in Settings!Moves : p.id < q.id => p.answer # "awaited"
      <4>1. CASE x14' = (x14 \ {q}) \cup {[q EXCEPT !.answer = "refused"]}
        <5>1. [q EXCEPT !.answer = "refused"] = Answer(q, "refused")
          BY DEF Answer
        <5>2. Answer(q, "refused").answer = "refused" /\ Answer(q, "refused").id = q.id /\ Answer(q, "refused") # n
          BY <2>6, AnswerKeeps DEF Settings!SendsTyped, SendShape
        <5>3. n \in x14'
          BY <1>1
        <5>4. n \in x14 /\ n # q
          BY <4>1, <5>1, <5>2, <5>3
        <5> QED
          BY <1>2, <5>4 DEF Settings!SendsTyped
      <4>2. CASE x14' # (x14 \ {q}) \cup {[q EXCEPT !.answer = "refused"]}
        BY <1>4, <2>1, <4>2 DEF Settings!Serve
      <4> QED
        BY <4>1, <4>2
    <3>2. Settings!Done' = Settings!Done \cup {n}
      BY <2>2, <2>3, <2>6 DEF Settings!Done
    <3>3. ASSUME NEW p \in Settings!Done', NEW r \in Settings!Moves', r.id < p.id
          PROVE  r.answer # "awaited"
      <4>1. CASE r = n
        BY <2>6, <4>1
      <4>2. CASE r \in Settings!Moves /\ p = n
        BY <1>2, <3>1, <3>3, <4>2
      <4>3. CASE r \in Settings!Moves /\ p \in Settings!Done
        BY <3>3, <4>3 DEF Settings!InOrder
      <4> QED
        BY <2>2, <3>2, <4>1, <4>2, <4>3
    <3>4. ASSUME NEW r \in Settings!Moves', r \in Settings!Done', \A p \in Settings!Done' : p.id <= r.id
          PROVE  x3' = r.value
      <4>1. CASE r = n
        BY <1>2, <3>1, <4>1
      <4>2. CASE r \in Settings!Done
        <5>1. q.id <= r.id /\ r # q /\ r \in Settings!Moves
          BY <1>2, <2>3, <3>2, <3>4, <4>2 DEF Settings!Done
        <5>2. q.id < r.id
          BY <1>4, <2>4, <5>1
        <5> QED
          BY <1>4, <2>1, <4>2, <5>2 DEF Settings!InOrder
      <4> QED
        BY <3>2, <3>4, <4>1, <4>2
    <3>5. Settings!Done' # {} /\ Settings!Moves' # {}
      BY <2>2, <3>2
    <3> QED
      BY <2>5, <3>3, <3>4, <3>5 DEF Settings!InOrder, Settings!Last
  <2>7. CASE n.answer = "refused"
    <3>1. x3' = x3
      <4>1. CASE x14' = (x14 \ {q}) \cup {[q EXCEPT !.answer = "ok"]}
        <5>1. [q EXCEPT !.answer = "ok"] = Answer(q, "ok")
          BY DEF Answer
        <5>2. Answer(q, "ok").answer = "ok" /\ Answer(q, "ok").id = q.id /\ Answer(q, "ok") # n
          BY <2>7, AnswerKeeps DEF Settings!SendsTyped, SendShape
        <5>3. n \in x14'
          BY <1>1
        <5>4. n \in x14 /\ n # q
          BY <4>1, <5>1, <5>2, <5>3
        <5> QED
          BY <1>2, <5>4 DEF Settings!SendsTyped
      <4>2. CASE x14' # (x14 \ {q}) \cup {[q EXCEPT !.answer = "ok"]}
        BY <2>1, <4>2 DEF Settings!Serve, Settings!Api
      <4> QED
        BY <4>1, <4>2
    <3>2. Settings!Done' = Settings!Done
      BY <2>2, <2>3, <2>7 DEF Settings!Done
    <3>3. \A p \in Settings!Done', r \in Settings!Moves' : r.id < p.id => r.answer # "awaited"
      BY <2>2, <2>7, <3>2 DEF Settings!InOrder
    <3>4. \A r \in Settings!Moves' : Settings!Last(r, Settings!Done') => x3' = r.value
      BY <2>2, <3>1, <3>2 DEF Settings!InOrder, Settings!Last, Settings!Done
    <3>5. ASSUME NEW r \in Settings!Moves', Settings!Done' = {}, \A p \in Settings!Moves' : r.id <= p.id
          PROVE  x3' = r.previous
      <4>1. CASE r = n
        <5>1. \A p \in Settings!Moves : q.id <= p.id
          BY <1>2, <1>4, <2>2, <2>4, <3>5, <4>1
        <5> QED
          BY <1>2, <1>4, <3>1, <3>2, <3>5, <4>1, <5>1 DEF Settings!InOrder, Settings!First
      <4>2. CASE r \in Settings!Moves
        <5>1. \A p \in Settings!Moves : r.id <= p.id
          BY <1>2, <2>2, <3>5
        <5> QED
          BY <3>1, <3>2, <3>5, <4>2, <5>1 DEF Settings!InOrder, Settings!First
      <4> QED
        BY <2>2, <4>1, <4>2
    <3>6. (Settings!Done' = {} => x9' = x3') /\ Settings!Moves' # {}
      BY <1>1, <2>2, <3>1, <3>2 DEF Settings!InOrder
    <3> QED
      BY <2>5, <3>3, <3>4, <3>5, <3>6 DEF Settings!InOrder, Settings!First
  <2> QED
    BY <1>2, <2>6, <2>7
<1> QED
  BY <1>3, <1>4

LEMMA OrderOfMoved ==
  ASSUME Settings!SendsTyped, Settings!InOrder, NEW q \in x14, Settings!Moved(q), ~x19'
  PROVE  Settings!InOrder'
<1>1. /\ q.kind = "switch" /\ q.answer = "ok" /\ x14' = x14 \ {q} /\ x8' = q.value /\ x9' = q.value /\ x3' = x3
      /\ \A p \in Settings!Moves : ~(p.id < q.id)
  BY DEF Settings!Moved, Settings!Answered, Settings!Api
<1>2. q \in Settings!Moves /\ q \in Settings!Done
  BY <1>1 DEF Settings!Moves, Settings!Done
<1>3. Settings!Moves' = Settings!Moves \ {q}
  BY <1>1 DEF Settings!Moves
<1>4. Settings!Done' = Settings!Done \ {q} /\ Settings!Done \subseteq Settings!Moves
  BY <1>3 DEF Settings!Done
<1>5. \A p \in Settings!Moves : /\ p.id \in Int /\ (p # q => q.id < p.id)
                                /\ \A r \in Settings!Moves : p.id = r.id => p = r
  <2>1. \A p \in Settings!Moves : /\ p.id \in Int
                                  /\ \A r \in Settings!Moves : p.id = r.id => p = r
    BY DEF Settings!SendsTyped, Settings!Moves
  <2> QED
    BY <1>1, <1>2, <2>1
<1>6. \A p \in Settings!Done', r \in Settings!Moves' : r.id < p.id => r.answer # "awaited"
  BY <1>3, <1>4 DEF Settings!InOrder
<1>7. ASSUME NEW p \in Settings!Moves', NEW r \in Settings!Moves', p.id < r.id,
             \A m \in Settings!Moves' : m.id <= p.id \/ r.id <= m.id
      PROVE  r.previous = p.value
  <2>1. \A m \in Settings!Moves : m.id <= p.id \/ r.id <= m.id
    BY <1>2, <1>3, <1>5, <1>7
  <2> QED
    BY <1>3, <1>7, <2>1 DEF Settings!InOrder
<1>8. ASSUME NEW r \in Settings!Done', \A p \in Settings!Done' : p.id <= r.id
      PROVE  x3' = r.value
  <2>1. r \in Settings!Moves /\ \A p \in Settings!Done : p.id <= r.id
    BY <1>2, <1>4, <1>5, <1>8
  <2> QED
    BY <1>1, <1>4, <1>8, <2>1 DEF Settings!InOrder, Settings!Last
\* What the last answer makes the switch is what the API made it.
<1>9. ASSUME Settings!Done' = {} PROVE x3' = q.value
  <2>1. \A p \in Settings!Done : p = q
    BY <1>4, <1>9
  <2>2. Settings!Last(q, Settings!Done)
    BY <1>2, <1>4, <1>5, <2>1 DEF Settings!Last
  <2> QED
    BY <1>1, <1>2, <2>2 DEF Settings!InOrder
<1>10. ASSUME NEW r \in Settings!Moves', Settings!Done' = {}, \A p \in Settings!Moves' : r.id <= p.id
       PROVE  x3' = r.previous
  <2>1. q.id < r.id /\ \A m \in Settings!Moves : m.id <= q.id \/ r.id <= m.id
    BY <1>2, <1>3, <1>5, <1>10
  <2>2. r.previous = q.value
    BY <1>2, <1>3, <2>1 DEF Settings!InOrder
  <2> QED
    BY <1>9, <1>10, <2>2
<1>11. Settings!Moves' = {} => Settings!Done' = {}
  BY <1>3, <1>4
<1> QED
  BY <1>1, <1>4, <1>6, <1>7, <1>8, <1>9, <1>10, <1>11 DEF Settings!InOrder, Settings!First, Settings!Last

LEMMA OrderOfMovesBack ==
  ASSUME Settings!SendsTyped, Settings!InOrder, NEW q \in x14, Settings!MovesBack(q), ~x19'
  PROVE  Settings!InOrder'
<1>1. /\ q.answer = "refused" /\ x14' = x14 \ {q} /\ x8' = q.previous /\ x9' = x9 /\ x3' = x3
      /\ Settings!Moves = {q}
  BY DEF Settings!MovesBack, Settings!Answered, Settings!Api
<1>2. Settings!Done = {} /\ Settings!First(q, Settings!Moves)
  <2>1. q.id \in Nat
    BY DEF Settings!SendsTyped
  <2> QED
    BY <1>1, <2>1 DEF Settings!Done, Settings!First
<1>3. x3 = q.previous /\ x9 = x3
  BY <1>1, <1>2 DEF Settings!InOrder
<1>4. Settings!Moves' = {}
  BY <1>1 DEF Settings!Moves
<1>5. Settings!Done' = {}
  BY <1>4 DEF Settings!Done
<1> QED
  BY <1>1, <1>3, <1>4, <1>5 DEF Settings!InOrder

LEMMA OrderStep ==
  ASSUME Settings!SendsTyped, ~x19 => Settings!InOrder, [Settings!Next]_(Settings!vars), ~x19'
  PROVE  Settings!InOrder'
<1>1. x19 \in BOOLEAN
  BY DEF Settings!SendsTyped
\* Steps the switch has no part in.
<1>2. ASSUME NEW name \in Names, Settings!Type(name) \/ Settings!Colleague(name) PROVE Settings!InOrder'
  <2>1. UNCHANGED <<x3, x8, x9, x14, x19>>
    BY <1>2 DEF Settings!Type, Settings!Colleague, Settings!Api, Settings!Switch
  <2> QED
    BY <2>1, OrderKept DEF Settings!Moves
<1>3. CASE \/ Settings!Leave \/ Settings!ServeMe \/ Settings!ServeOrg \/ Settings!MeArrives
           \/ Settings!OrgArrives \/ Settings!MeFails \/ Settings!OrgFails \/ Settings!TryAgain
           \/ UNCHANGED Settings!vars
  <2>1. UNCHANGED <<x3, x8, x9, x14, x19>>
    BY <1>3 DEF Settings!Leave, Settings!ServeMe, Settings!ServeOrg, Settings!MeArrives, Settings!OrgArrives,
       Settings!MeFails, Settings!OrgFails, Settings!TryAgain, Settings!vars, Settings!Api, Settings!Switch
  <2> QED
    BY <2>1, OrderKept DEF Settings!Moves
<1>4. CASE Settings!SaveProfile \/ Settings!SaveOrg
  <2>1. PICK n : x14' = x14 \cup {n} /\ n.kind # "switch"
    <3>1. PICK kind, value : Settings!Send(kind, value, None) /\ kind # "switch"
      BY <1>4 DEF Settings!SaveProfile, Settings!SaveOrg
    <3> QED
      BY <3>1, SendMade
  <2>2. UNCHANGED <<x3, x8, x9, x19>>
    BY <1>4 DEF Settings!SaveProfile, Settings!SaveOrg, Settings!Api, Settings!Switch
  <2>3. Settings!Moves' = Settings!Moves
    BY <2>1 DEF Settings!Moves
  <2> QED
    BY <2>2, <2>3, OrderKept
<1>5. ASSUME NEW q \in x14, Settings!NotSaved(q) PROVE Settings!InOrder'
  <2>1. UNCHANGED <<x3, x8, x9, x19>> /\ x14' = x14 \ {q} /\ q.kind # "switch"
    BY <1>5 DEF Settings!NotSaved, Settings!Answered, Settings!Api, Settings!Switch
  <2>2. Settings!Moves' = Settings!Moves
    BY <2>1 DEF Settings!Moves
  <2> QED
    BY <2>1, <2>2, OrderKept
\* The switch is read from the browser again; with a move under way, it crosses it.
<1>6. ASSUME NEW q \in x14, Settings!ProfileSaved(q) \/ Settings!OrgSaved(q) PROVE Settings!InOrder'
  <2>1. PICK more : Settings!AskMe(more)
    BY <1>6 DEF Settings!ProfileSaved, Settings!OrgSaved
  <2>2. x3' = x3 /\ x14' = x14 \ {q} /\ q.kind # "switch"
    BY <1>6 DEF Settings!ProfileSaved, Settings!OrgSaved, Settings!Answered, Settings!Api
  <2>3. Settings!Moves' = Settings!Moves
    BY <2>2 DEF Settings!Moves
  <2>4. ~x19 /\ (x11 => Settings!Moves = {}) /\ x9' = x9 /\ x8' = IF x11 THEN x9 ELSE x8
    BY <2>1 DEF Settings!AskMe
  <2> QED
    BY <2>2, <2>3, <2>4, OrderKept
<1>7. CASE Settings!Visit
  <2>1. /\ x3' = x3 /\ x9' = x9 /\ x14' = x14 /\ ~x19
        /\ "switch" \in x10 => Settings!Moves = {}
        /\ x8' = IF "switch" \in x10 THEN x9 ELSE x8
    BY <1>7 DEF Settings!Visit, Settings!Api
  <2> QED
    BY <2>1, OrderKept DEF Settings!Moves
\* Steps it has.
<1>8. CASE Settings!Toggle
  <2>1. ~x19
    BY <1>8 DEF Settings!Toggle
  <2> QED
    BY <1>8, <2>1, OrderOfToggle
<1>9. ASSUME NEW q \in x14, Settings!Serve(q) \/ Settings!Cut(q) PROVE Settings!InOrder'
  <2>1. ~x19
    BY <1>9 DEF Settings!Serve, Settings!Cut
  <2> QED
    BY <1>9, <2>1, OrderOfServe
<1>10. ASSUME NEW q \in x14, Settings!Moved(q) \/ Settings!MovesBack(q) PROVE Settings!InOrder'
  <2>1. ~x19
    BY <1>10 DEF Settings!Moved, Settings!MovesBack
  <2> QED
    BY <1>10, <2>1, OrderOfMoved, OrderOfMovesBack
<1> QED
  BY <1>2, <1>3, <1>4, <1>5, <1>6, <1>7, <1>8, <1>9, <1>10 DEF Settings!Next

(* The forms.  A step that leaves them, the requests and their excuses      *)
(* alone, and of the saves at most one that was not made.                   *)
LEMMA FormsKept ==
  ASSUME Settings!FormsFollow,
         UNCHANGED <<x1, x2, x4, x5, x6, x7, x11, x20>>,
         ("org" \in x10') <=> ("org" \in x10),
         DOMAIN x12' = {"saved", "typed"}, x12'.saved = x12.saved, DOMAIN x13' = {"saved", "typed"}, x13'.saved = x13.saved,
         DOMAIN x15' = {"profile", "org"}, 
         x17' = x17 \/ (x17' = TRUE), x18' = x18 \/ (x18' = TRUE),
         ~x17' => (Settings!Saving("profile")' <=> Settings!Saving("profile")),
         ~x18' => (Settings!Saving("org")' <=> Settings!Saving("org")),
         (x11 /\ ~x17') => \A q \in x14' : q.kind = "profile" => x15'.profile = q.id /\ (q.answer = "ok" => q.value = x1)
  PROVE  Settings!FormsFollow'
BY DEF Settings!FormsFollow, Settings!Tells

LEMMA FormsStep ==
  ASSUME Settings!SendsTyped, Settings!FormsFollow, [Settings!Next]_(Settings!vars)
  PROVE  Settings!FormsFollow'
<1>1. /\ x16 \in Nat /\ x17 \in BOOLEAN /\ x18 \in BOOLEAN
      /\ \A q \in x14 : SendShape(q) /\ q.id \in Nat /\ \A p \in x14 : p.id = q.id => p = q
  BY DEF Settings!SendsTyped, SendShape
<1>2. /\ DOMAIN x15 = {"profile", "org"} /\ DOMAIN x12 = {"saved", "typed"} /\ DOMAIN x13 = {"saved", "typed"}
      /\ x13.saved = x5
      /\ (x11 /\ ~x17) => \A q \in x14 : q.kind = "profile" => x15.profile = q.id /\ (q.answer = "ok" => q.value = x1)
  BY DEF Settings!FormsFollow
<1>3. ASSUME UNCHANGED <<x1, x2, x4, x5, x6, x7, x10, x11, x12, x13, x14, x15, x17, x20>>, x18' = x18 \/ x18' = TRUE
      PROVE  Settings!FormsFollow'
  BY <1>3 DEF Settings!FormsFollow, Settings!Tells, Settings!Saving
<1>4. ASSUME NEW name \in Names, Settings!Type(name) PROVE Settings!FormsFollow'
  <2>1. UNCHANGED <<x1, x2, x4, x5, x6, x7, x10, x11, x14, x15, x17, x18, x20>>
    BY <1>4 DEF Settings!Type, Settings!Api, Settings!Cached, Settings!Switch
  <2>2. /\ DOMAIN x12' = {"saved", "typed"} /\ x12'.saved = x12.saved
        /\ DOMAIN x13' = {"saved", "typed"} /\ x13'.saved = x13.saved
    BY <1>2, <1>4 DEF Settings!Type
  <2> QED
    BY <1>1, <1>2, <2>1, <2>2, FormsKept DEF Settings!Saving
<1>5. ASSUME NEW name \in Names, Settings!Colleague(name) PROVE Settings!FormsFollow'
  BY <1>5 DEF Settings!Colleague, Settings!Cached, Settings!Switch, Settings!Forms, Settings!FormsFollow,
     Settings!Tells, Settings!Saving
\* A new send is not made yet, and a new save is the only one its form waits for.
<1>6. CASE Settings!SaveProfile \/ Settings!SaveOrg \/ Settings!Toggle
  <2>1. PICK kind, n : /\ x14' = x14 \cup {n} /\ n.id = x16 /\ n.kind = kind /\ n.answer = "awaited"
                       /\ kind = "profile" => x15.profile = None /\ x15'.profile = x16
                       /\ kind # "profile" => x15'.profile = x15.profile
                       /\ DOMAIN x15' = {"profile", "org"}
    <3>1. CASE Settings!SaveProfile
      <4>1. x15' = [x15 EXCEPT !.profile = x16] /\ x15.profile = None
        BY <3>1 DEF Settings!SaveProfile
      <4>2. Settings!Send("profile", x12.typed, None)
        BY <3>1 DEF Settings!SaveProfile
      <4> QED
        BY <1>2, <4>1, <4>2, SendMade
    <3>2. CASE Settings!SaveOrg
      <4>1. x15' = [x15 EXCEPT !.org = x16] /\ Settings!Send("org", x13.typed, None)
        BY <3>2 DEF Settings!SaveOrg
      <4> QED
        BY <1>2, <4>1, SendMade
    <3>3. CASE Settings!Toggle
      <4>1. x15' = x15 /\ Settings!Send("switch", ~x8, x8)
        BY <3>3 DEF Settings!Toggle
      <4> QED
        BY <1>2, <4>1, SendMade
    <3> QED
      BY <1>6, <3>1, <3>2, <3>3
  <2>2. UNCHANGED <<x1, x2, x4, x5, x6, x7, x10, x11, x12, x13, x17, x18, x20>>
    BY <1>6 DEF Settings!SaveProfile, Settings!SaveOrg, Settings!Toggle, Settings!Api, Settings!Cached,
       Settings!Switch, Settings!Forms
  <2>3. \A k : (\E q \in x14' : q.kind = k /\ q.answer = "ok") <=> (\E q \in x14 : q.kind = k /\ q.answer = "ok")
    BY <2>1
  <2>4. ASSUME x11, ~x17, NEW q \in x14', q.kind = "profile"
        PROVE  x15'.profile = q.id /\ (q.answer = "ok" => q.value = x1)
    <3>1. CASE q = n
      BY <2>1, <2>4, <3>1
    <3>2. CASE q \in x14
      <4>1. x15.profile = q.id /\ q.id \in Nat /\ (q.answer = "ok" => q.value = x1)
        BY <1>1, <1>2, <2>4, <3>2
      <4> QED
        BY <2>1, <4>1, NoneIsNoNumber
    <3> QED
      BY <2>1, <2>4, <3>1, <3>2
  <2> QED
    BY <1>1, <1>2, <2>1, <2>2, <2>3, <2>4, FormsKept DEF Settings!Saving
<1>7. CASE Settings!Leave
  <2>1. /\ x11' = FALSE /\ x15' = [x15 EXCEPT !.profile = None, !.org = None]
        /\ UNCHANGED <<x1, x2, x4, x5, x6, x7, x10, x12, x13, x14, x17, x18, x20>>
    BY <1>7 DEF Settings!Leave, Settings!Api, Settings!Cached, Settings!Switch
  <2>2. DOMAIN x15' = {"profile", "org"}
    BY <1>2, <2>1
  <2> QED
    BY <2>1, <2>2 DEF Settings!FormsFollow, Settings!Tells, Settings!Saving
<1>8. CASE Settings!Visit
  <2>1. /\ x10' = {} /\ "me" \notin x20 /\ UNCHANGED <<x1, x2, x4, x5, x6, x14, x15, x18, x20>>
        /\ x17' = (x17 \/ x4 # x1 \/ \E q \in x14 : q.kind = "profile")
        /\ x7' = IF x7.state = "idle" /\ (x18 \/ "org" \in x10 \cup x20) THEN Settings!Ask(x5) ELSE x7
    BY <1>8 DEF Settings!Visit, Settings!Api
  <2>2. DOMAIN x12' = {"saved", "typed"} /\ x12'.saved = x4 /\ DOMAIN x13' = {"saved", "typed"} /\ x13'.saved = x5
    BY <1>8 DEF Settings!Visit, Settings!Fresh
  <2>3. Settings!Ask(x5).state = "asked"
    BY DEF Settings!Ask
  <2>4. {x6'.state, x7'.state} \subseteq {"idle", "asked", "answered"}
    BY <2>1, <2>3 DEF Settings!FormsFollow
  <2>5. ~x17' => (Settings!Saving("profile")' \/ Settings!Tells(x6', x4', x1') \/ (x6'.state = "idle" /\ "me" \in x20'))
    BY <1>1, <2>1 DEF Settings!FormsFollow, Settings!Tells, Settings!Saving
  <2>6. ~x18' => (Settings!Saving("org")' \/ Settings!Tells(x7', x5', x2') \/ (x7'.state = "idle" /\ "org" \in x10' \cup x20'))
    BY <2>1, <2>3 DEF Settings!FormsFollow, Settings!Tells, Settings!Saving
  <2>7. ~x17' => x4 = x1 /\ \A q \in x14' : q.kind # "profile"
    BY <1>1, <2>1
  <2> QED
    BY <1>2, <2>1, <2>2, <2>4, <2>5, <2>6, <2>7 DEF Settings!FormsFollow
\* The API makes a change, or refuses it.
<1>9. ASSUME NEW q \in x14, Settings!Serve(q) PROVE Settings!FormsFollow'
  <2>1. /\ q.answer = "awaited" /\ SendShape(q)
        /\ UNCHANGED <<x4, x5, x6, x7, x10, x11, x12, x13, x15, x17, x18, x20>>
    BY <1>1, <1>9 DEF Settings!Serve, Settings!Cached, Settings!Forms
  <2>2. CASE /\ x14' = (x14 \ {q}) \cup {Answer(q, "ok")}
             /\ x1' = IF q.kind = "profile" THEN q.value ELSE x1
             /\ x2' = IF q.kind = "org" THEN q.value ELSE x2
    <3>1. PICK n : n = Answer(q, "ok")
      OBVIOUS
    <3>2. n.id = q.id /\ n.kind = q.kind /\ n.value = q.value /\ n.answer = "ok"
      BY <2>1, <3>1, AnswerKeeps
    <3>3. x14' = (x14 \ {q}) \cup {n}
      BY <2>2, <3>1
    <3>4. \A k : (\E p \in x14' : p.kind = k /\ p.answer = "ok")
                    <=> (k = q.kind \/ \E p \in x14 : p.kind = k /\ p.answer = "ok")
      BY <2>1, <3>2, <3>3
    <3>5. ASSUME x11, ~x17, NEW p \in x14', p.kind = "profile"
          PROVE  x15.profile = p.id /\ (p.answer = "ok" => p.value = x1')
      <4>1. CASE p = n
        BY <1>2, <2>2, <3>2, <3>5, <4>1
      <4>2. CASE p \in x14 /\ p # q
        <5>1. x15.profile = p.id /\ (p.answer = "ok" => p.value = x1) /\ p.id # q.id
          BY <1>1, <1>2, <3>5, <4>2
        <5>2. q.kind # "profile"
          BY <1>2, <3>5, <5>1
        <5> QED
          BY <2>2, <5>1, <5>2
      <4> QED
        BY <3>3, <3>5, <4>1, <4>2
    <3>6. ~x17 => (Settings!Saving("profile")' \/ Settings!Tells(x6, x4, x1') \/ (x6.state = "idle" /\ "me" \in x20))
      BY <2>2, <3>4 DEF Settings!FormsFollow, Settings!Saving, Settings!Tells
    <3>7. ~x18 => (Settings!Saving("org")' \/ Settings!Tells(x7, x5, x2') \/ (x7.state = "idle" /\ "org" \in x10 \cup x20))
      BY <2>2, <3>4 DEF Settings!FormsFollow, Settings!Saving, Settings!Tells
    <3>8. (x11 /\ ~x17) => (Settings!Saving("profile")' \/ x12.saved = x1')
      BY <2>2, <3>4 DEF Settings!FormsFollow, Settings!Saving
    <3> QED
      BY <2>1, <3>5, <3>6, <3>7, <3>8 DEF Settings!FormsFollow
  <2>3. CASE x14' = (x14 \ {q}) \cup {Answer(q, "refused")} /\ x1' = x1 /\ x2' = x2
    <3>1. PICK n : n = Answer(q, "refused")
      OBVIOUS
    <3>2. n.id = q.id /\ n.kind = q.kind /\ n.answer = "refused"
      BY <2>1, <3>1, AnswerKeeps
    <3>3. x14' = (x14 \ {q}) \cup {n}
      BY <2>3, <3>1
    <3>4. \A k : (\E p \in x14' : p.kind = k /\ p.answer = "ok") <=> (\E p \in x14 : p.kind = k /\ p.answer = "ok")
      BY <2>1, <3>2, <3>3
    <3>5. (x11 /\ ~x17) => \A p \in x14' : p.kind = "profile" => x15.profile = p.id /\ (p.answer = "ok" => p.value = x1)
      BY <1>2, <3>2, <3>3
    <3> QED
      BY <1>1, <1>2, <2>1, <2>3, <3>4, <3>5, FormsKept DEF Settings!Saving
  <2> QED
    BY <1>9, <2>2, <2>3 DEF Settings!Serve, Settings!Api, Answer
<1>10. ASSUME NEW q \in x14, Settings!Cut(q) PROVE Settings!FormsFollow'
  <2>1. /\ SendShape(q) /\ x18' = TRUE /\ x17' = (x17 \/ q.kind = "profile")
        /\ x14' = (x14 \ {q}) \cup {Answer(q, "refused")}
        /\ UNCHANGED <<x1, x2, x4, x5, x6, x7, x10, x11, x12, x13, x15, x20>>
    BY <1>1, <1>10 DEF Settings!Cut, Settings!Api, Settings!Cached, Answer
  <2>2. PICK n : n = Answer(q, "refused")
    OBVIOUS
  <2>3. n.id = q.id /\ n.kind = q.kind /\ n.answer = "refused" /\ x14' = (x14 \ {q}) \cup {n}
    BY <2>1, <2>2, AnswerKeeps
  <2>4. q.kind # "profile" => (Settings!Saving("profile")' <=> Settings!Saving("profile"))
    BY <2>3 DEF Settings!Saving
  <2>5. (x11 /\ ~x17) => \A p \in x14' : p.kind = "profile" => x15.profile = p.id /\ (p.answer = "ok" => p.value = x1)
    BY <1>2, <2>3
  <2> QED
    BY <1>1, <1>2, <2>1, <2>4, <2>5, FormsKept
\* What is asked for is what is so.
<1>11. CASE Settings!ServeMe
  <2>1. /\ x6' = [state |-> "answered", answer |-> x1]
        /\ UNCHANGED <<x1, x2, x4, x5, x7, x10, x11, x12, x13, x14, x15, x17, x18, x20>>
    BY <1>11 DEF Settings!ServeMe, Settings!Api, Settings!Switch, Settings!Forms
  <2>2. x6'.state = "answered" /\ x6'.answer = x1
    BY <2>1
  <2> QED
    BY <2>1, <2>2 DEF Settings!FormsFollow, Settings!Tells, Settings!Saving
<1>12. CASE Settings!ServeOrg
  <2>1. /\ x7' = [state |-> "answered", answer |-> x2]
        /\ UNCHANGED <<x1, x2, x4, x5, x6, x10, x11, x12, x13, x14, x15, x17, x20>>
    BY <1>12 DEF Settings!ServeOrg, Settings!Api, Settings!Switch, Settings!Forms
  <2>2. x7'.state = "answered" /\ x7'.answer = x2
    BY <2>1
  <2> QED
    BY <2>1, <2>2 DEF Settings!FormsFollow, Settings!Tells, Settings!Saving
<1>13. CASE Settings!MeArrives
  <2>1. /\ x6.state = "answered" /\ x4' = x6.answer /\ x6'.state = "idle"
        /\ x20' = x20 \ {"me"} /\ UNCHANGED <<x1, x2, x5, x7, x10, x11, x12, x13, x14, x15, x17, x18>>
    BY <1>13 DEF Settings!MeArrives, Settings!Idle, Settings!Api, Settings!Switch, Settings!Forms
  <2> QED
    BY <2>1 DEF Settings!FormsFollow, Settings!Tells, Settings!Saving
<1>14. CASE Settings!OrgArrives
  <2>1. /\ x7.state = "answered" /\ x5' = x7.answer /\ x7'.state = "idle" /\ x10' = x10 \ {"org"}
        /\ x13' = IF x5' = x5 THEN x13 ELSE Settings!Fresh(x5')
        /\ x15' = IF x5' = x5 THEN x15 ELSE [x15 EXCEPT !.org = None]
        /\ x20' = x20 \ {"org"} /\ UNCHANGED <<x1, x2, x4, x6, x11, x12, x14, x17, x18>>
    BY <1>14 DEF Settings!OrgArrives, Settings!Idle, Settings!Api
  <2>2. DOMAIN x13' = {"saved", "typed"} /\ x13'.saved = x5'
    BY <1>2, <2>1 DEF Settings!Fresh
  <2>3. DOMAIN x15' = {"profile", "org"} /\ x15'.profile = x15.profile
    BY <1>2, <2>1
  <2> QED
    BY <2>1, <2>2, <2>3 DEF Settings!FormsFollow, Settings!Tells, Settings!Saving
\* An answer ends its send; a form that waited for it waits no more.
<1>15. ASSUME NEW q \in x14, Settings!Answered(q)
       PROVE  /\ x14' = x14 \ {q} /\ DOMAIN x15' = {"profile", "org"}
              /\ (x11 /\ ~x17) => \A p \in x14' : p.kind = "profile" =>
                                          x15'.profile = p.id /\ (p.answer = "ok" => p.value = x1)
              /\ \A k : (q.kind # k \/ q.answer # "ok") =>
                   ((\E p \in x14' : p.kind = k /\ p.answer = "ok") <=> (\E p \in x14 : p.kind = k /\ p.answer = "ok"))
  <2>1. x14' = x14 \ {q} /\ x15' = [k \in DOMAIN x15 |-> IF x15[k] = q.id THEN None ELSE x15[k]]
    BY <1>15 DEF Settings!Answered
  <2>2. DOMAIN x15' = {"profile", "org"} /\ (x15.profile # q.id => x15'.profile = x15.profile)
    BY <1>2, <2>1
  <2>3. (x11 /\ ~x17) => \A p \in x14' : p.kind = "profile" => x15'.profile = p.id /\ (p.answer = "ok" => p.value = x1)
    BY <1>1, <1>2, <2>1, <2>2
  <2> QED
    BY <2>1, <2>2, <2>3
<1>16. ASSUME NEW q \in x14, Settings!NotSaved(q) \/ Settings!Moved(q) \/ Settings!MovesBack(q)
       PROVE  Settings!FormsFollow'
  <2>1. /\ Settings!Answered(q) /\ (q.kind = "switch" \/ q.answer = "refused")
        /\ ("org" \in x10') <=> ("org" \in x10)
        /\ UNCHANGED <<x1, x2, x4, x5, x6, x7, x11, x12, x13, x17, x18, x20>>
    BY <1>16 DEF Settings!NotSaved, Settings!Moved, Settings!MovesBack, Settings!Api, Settings!Cached,
       Settings!Switch, Settings!Forms
  <2>2. \A k \in {"profile", "org"} : Settings!Saving(k)' <=> Settings!Saving(k)
    BY <1>15, <2>1 DEF Settings!Saving
  <2>3. (x11 /\ ~x17) => \A p \in x14' : p.kind = "profile" => x15'.profile = p.id /\ (p.answer = "ok" => p.value = x1)
    BY <1>15, <2>1
  <2> QED
    BY <1>1, <1>2, <1>15, <2>1, <2>2, <2>3, FormsKept
\* Who saved is asked for again, and an org that nobody looks at is so later.
<1>17. ASSUME NEW q \in x14, Settings!ProfileSaved(q) PROVE Settings!FormsFollow'
  <2>1. /\ q.kind = "profile" /\ q.answer = "ok" /\ Settings!Answered(q)
        /\ x6' = Settings!Ask(x4) /\ ("org" \in x10' <=> "org" \in x10)
        /\ x12' = IF x15.profile = q.id THEN Settings!Fresh(q.value) ELSE x12
        /\ UNCHANGED <<x1, x2, x4, x5, x7, x11, x13, x17, x18, x20>>
    BY <1>17 DEF Settings!ProfileSaved, Settings!AskMe, Settings!Api
  <2>2. x6'.state = "asked"
    BY <2>1 DEF Settings!Ask
  <2>3. DOMAIN x12' = {"saved", "typed"} /\ (x15.profile = q.id => x12'.saved = q.value)
    BY <1>2, <2>1 DEF Settings!Fresh
  <2>4. Settings!Saving("org")' <=> Settings!Saving("org")
    BY <1>15, <2>1 DEF Settings!Saving
  <2>5. (x11 /\ ~x17) => x15.profile = q.id /\ q.value = x1 /\ \A p \in x14' : p.kind # "profile"
    BY <1>1, <1>2, <1>15, <2>1
  <2> QED
    BY <1>15, <2>1, <2>2, <2>3, <2>4, <2>5 DEF Settings!FormsFollow, Settings!Tells
<1>18. ASSUME NEW q \in x14, Settings!OrgSaved(q) PROVE Settings!FormsFollow'
  <2>1. /\ q.kind = "org" /\ q.answer = "ok" /\ Settings!Answered(q)
        /\ x6' = Settings!Ask(x4) /\ x10' = IF x11 THEN x10 ELSE x10 \cup ({"switch"} \cup {"org"})
        /\ x7' = IF x11 THEN Settings!Ask(x5) ELSE x7
        /\ x18' = (x18 \/ x7'.state = "answered")
        /\ UNCHANGED <<x1, x2, x4, x5, x11, x12, x13, x17, x20>>
    BY <1>18 DEF Settings!OrgSaved, Settings!AskMe, Settings!Api, Settings!Forms
  <2>2. x6'.state = "asked" /\ (x11 => x7'.state = "asked")
    BY <2>1 DEF Settings!Ask
  <2>3. "org" \in x10' => ~x11
    BY <2>1 DEF Settings!FormsFollow
  <2>4. {x6'.state, x7'.state} \subseteq {"idle", "asked", "answered"}
    BY <2>1, <2>2 DEF Settings!FormsFollow
  <2>5. ~x18' => (Settings!Tells(x7', x5', x2') \/ (x7'.state = "idle" /\ "org" \in x10' \cup x20'))
    <3>1. CASE x11
      BY <2>2, <3>1 DEF Settings!Tells
    <3>2. CASE ~x11
      <4>1. "org" \in x10'
        BY <2>1, <3>2
      <4>2. ASSUME ~x18' PROVE x7'.state \in {"idle", "asked"}
        BY <2>1, <2>4, <4>2
      <4> QED
        BY <4>1, <4>2 DEF Settings!Tells
    <3> QED
      BY <3>1, <3>2
  <2>6. Settings!Saving("profile")' <=> Settings!Saving("profile")
    BY <1>15, <2>1 DEF Settings!Saving
  <2>7. (x11 /\ ~x17) => \A p \in x14' : p.kind = "profile" => x15'.profile = p.id /\ (p.answer = "ok" => p.value = x1)
    BY <1>15, <2>1
  <2> QED
    BY <1>2, <1>15, <2>1, <2>2, <2>3, <2>4, <2>5, <2>6, <2>7 DEF Settings!FormsFollow, Settings!Tells
\* A request that failed is remembered as such, and made again when asked for.
<1>19. CASE Settings!MeFails
  <2>1. /\ x6'.state = "idle" /\ x20' = x20 \cup {"me"} /\ x11' = FALSE
        /\ x15' = [x15 EXCEPT !.profile = None, !.org = None]
        /\ UNCHANGED <<x1, x2, x4, x5, x7, x10, x12, x13, x14, x17, x18>>
    BY <1>19 DEF Settings!MeFails, Settings!Idle, Settings!Api, Settings!Switch
  <2>2. DOMAIN x15' = {"profile", "org"}
    BY <1>2, <2>1
  <2> QED
    BY <2>1, <2>2 DEF Settings!FormsFollow, Settings!Tells, Settings!Saving
<1>20. CASE Settings!OrgFails
  <2>1. /\ x7'.state = "idle" /\ x20' = x20 \cup {"org"} /\ x13' = Settings!Fresh(x5)
        /\ x15' = [x15 EXCEPT !.org = None]
        /\ UNCHANGED <<x1, x2, x4, x5, x6, x10, x11, x12, x14, x17, x18>>
    BY <1>20 DEF Settings!OrgFails, Settings!Idle, Settings!Api, Settings!Switch
  <2>2. DOMAIN x13' = {"saved", "typed"} /\ x13'.saved = x5'
    BY <2>1 DEF Settings!Fresh
  <2>3. DOMAIN x15' = {"profile", "org"} /\ x15'.profile = x15.profile
    BY <1>2, <2>1
  <2> QED
    BY <2>1, <2>2, <2>3 DEF Settings!FormsFollow, Settings!Tells, Settings!Saving
<1>21. CASE Settings!TryAgain
  <2>1. UNCHANGED <<x1, x2, x4, x5, x10, x11, x12, x13, x14, x15, x17, x18, x20>>
    BY <1>21 DEF Settings!TryAgain, Settings!Api, Settings!Switch, Settings!Forms
  <2>2. (x6' = x6 \/ x6'.state = "asked") /\ (x7' = x7 \/ x7'.state = "asked")
    BY <1>21 DEF Settings!TryAgain, Settings!Ask
  <2> QED
    BY <2>1, <2>2 DEF Settings!FormsFollow, Settings!Tells, Settings!Saving
<1>22. CASE UNCHANGED Settings!vars
  BY <1>3, <1>22 DEF Settings!vars
<1> QED
  BY <1>4, <1>5, <1>6, <1>7, <1>8, <1>9, <1>10, <1>11, <1>12, <1>13, <1>14, <1>16, <1>17, <1>18, <1>19, <1>20, <1>21, <1>22
     DEF Settings!Next

LEMMA SettingsStep ==
  ASSUME Settings!SettingsInv, [Settings!Next]_(Settings!vars)
  PROVE  Settings!SettingsInv'
<1>1. Settings!SendsTyped'
  BY SendsStayTyped DEF Settings!SettingsInv
<1>2. ~x19' => Settings!InOrder'
  BY OrderStep DEF Settings!SettingsInv
<1>3. Settings!FormsFollow'
  BY FormsStep DEF Settings!SettingsInv
<1> QED
  BY <1>1, <1>2, <1>3 DEF Settings!SettingsInv

LEMMA SettingsShow == Settings!SettingsInv => Settings!SwitchTells /\ Settings!FormsTell
<1> SUFFICES ASSUME Settings!SettingsInv PROVE Settings!SwitchTells /\ Settings!FormsTell
  OBVIOUS
<1>1. Settings!SwitchTells
  <2>1. Settings!Moves = {} => Settings!Done = {}
    BY DEF Settings!Done
  <2> QED
    BY <2>1 DEF Settings!SettingsInv, Settings!InOrder, Settings!SwitchTells
<1>2. Settings!FormsTell
  BY DEF Settings!SettingsInv, Settings!SendsTyped, Settings!FormsFollow, Settings!Tells, Settings!Saving, Settings!FormsTell
<1> QED
  BY <1>1, <1>2

=============================================================================
