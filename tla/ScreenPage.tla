---- MODULE ScreenPage ----
(***************************************************************************)
(* The page that screens an address (apps/web/app/app/screen/page.tsx,     *)
(* with lib/hooks/monitor.ts and useScreen, useScreening of lib/queries.ts)*)
(*                                                                         *)
(* What it shows follows from its address: ?address= runs a screening,     *)
(* ?id= shows a past one, and a run that answers leads to its own ?id=.    *)
(* Runs overlap: the top bar starts one whatever is under way.  The page   *)
(* follows its latest run and none once it is left; what any run answers   *)
(* is cached.  A subject stands for an address with its chain and memo;    *)
(* effects run before the user's next action.                              *)
(***************************************************************************)
EXTENDS Integers, Sequences, FiniteSets

CONSTANTS Subjects,     \* what can be typed
          Malformed,    \* those of them the parser refuses
          MaxRuns,      \* bound: screenings asked for
          MaxMoves,     \* bound: steps from address to address, and edits
          None

VARIABLES screened,     \* the API: the subjects screened; a screening's id is its place
          mounted, route,  \* whether the page is there, and its address
          draft,        \* the form
          ran, filled,  \* what the two effects last ran for
          lastRequest,  \* what was last sent
          screen,       \* the run the page follows, and how it stands
          runs,         \* the runs whose handler has not run
          cached, pastFailed,  \* the past screenings in the cache, and those that failed to load
          started, moves,
          edited, missed,  \* history variables: the form was changed since it was filled in, or
                           \* was not filled in, because a run was under way
          wandered      \* history variable: the user went elsewhere since the last answer

vars == <<screened, mounted, route, draft, ran, filled, lastRequest, screen, runs, cached, pastFailed,
          started, moves, edited, missed, wandered>>

Nowhere == [address |-> None, id |-> 0]
NoRun == [run |-> 0, status |-> "idle", id |-> 0]
Pending == screen.status = "pending"

\* checkSubject: the parser of the API, run on what is typed.
checkSubject(s) == IF s = None THEN "empty" ELSE IF s \in Malformed THEN "error" ELSE "ok"

\* classifyScreenError: a 422, of which a malformed subject is one, belongs to a field of the
\* form, the rest to a card.
classifyScreenError == {"field", "card"}

Past == IF route.id \in cached THEN route.id ELSE 0

\* The result on the page, 0 for none: past results under ?id=, otherwise the latest run's.
Result ==
  IF ~mounted \/ Pending \/ screen.status = "card" THEN 0
  ELSE IF route.id # 0 THEN Past ELSE screen.id

Init ==
  /\ screened \in {<<s>> : s \in Subjects \ Malformed} /\ mounted = FALSE /\ route = Nowhere
  /\ draft = None /\ ran = None /\ filled = 0 /\ lastRequest = None /\ screen = NoRun
  /\ runs = {} /\ cached = {} /\ pastFailed = {} /\ started = 0 /\ moves = 0
  /\ edited = FALSE /\ missed = FALSE /\ wandered = FALSE

------------------------------------------------------------------------------
(* Runs.                                                                   *)

\* The observer of the mutation lets go of the run before.
run(s) ==
  /\ started < MaxRuns /\ started' = started + 1
  /\ lastRequest' = s
  /\ screen' = [run |-> started', status |-> "pending", id |-> 0]
  /\ runs' = runs \cup {[run |-> started', subject |-> s, answer |-> "awaited", id |-> 0]}

\* POST /screen: the answer may be lost when the screening is stored.
Serve(r) ==
  /\ r.answer = "awaited"
  /\ \/ /\ r.subject \notin Malformed /\ screened' = Append(screened, r.subject)
        /\ \/ runs' = (runs \ {r}) \cup {[r EXCEPT !.answer = "success", !.id = Len(screened')]}
           \/ runs' = (runs \ {r}) \cup {[r EXCEPT !.answer = "card"]}
     \/ /\ \E a \in classifyScreenError : runs' = (runs \ {r}) \cup {[r EXCEPT !.answer = a]}
        /\ UNCHANGED screened
  /\ UNCHANGED <<mounted, route, draft, ran, filled, lastRequest, screen, cached, pastFailed, started,
                 moves, edited, missed, wandered>>

EveryRun(r) == TRUE   \* mutant: the handler is that of the request, not of the latest run
LatestRun(r) == mounted /\ screen.run = r.run

\* The hook caches every answer; the page goes to the answer of its latest run.
Answered(r) ==
  /\ r.answer # "awaited" /\ runs' = runs \ {r}
  /\ cached' = IF r.answer = "success" THEN cached \cup {r.id} ELSE cached
  /\ screen' = IF LatestRun(r) /\ screen.run = r.run THEN [run |-> r.run, status |-> r.answer, id |-> r.id] ELSE screen
  /\ route' = IF LatestRun(r) /\ r.answer = "success" THEN [address |-> None, id |-> r.id] ELSE route
  /\ wandered' = IF screen' # screen THEN FALSE ELSE wandered
  /\ UNCHANGED <<screened, mounted, draft, ran, filled, lastRequest, pastFailed, started, moves, edited, missed>>

------------------------------------------------------------------------------
(* Effects.                                                                *)

\* Once for each ?address= that comes.
AutoRunDue == mounted /\ ran # route.address
AutoRun ==
  /\ AutoRunDue /\ ran' = route.address
  /\ IF route.address = None THEN UNCHANGED <<draft, lastRequest, screen, runs, started, edited>>
     ELSE draft' = route.address /\ run(route.address) /\ edited' = TRUE
  /\ UNCHANGED <<screened, mounted, route, filled, cached, pastFailed, moves, missed, wandered>>

\* A past screening that has come fills in the form, but not under a run.
FillDue == mounted /\ filled # Past
Fill ==
  /\ ~AutoRunDue /\ FillDue /\ filled' = Past
  /\ LET fills == Past # 0 /\ ~Pending IN
     /\ draft' = IF fills THEN screened[Past] ELSE draft
     /\ edited' = (edited /\ ~fills)
     /\ missed' = IF fills THEN FALSE ELSE (missed \/ Past # 0)
  /\ UNCHANGED <<screened, mounted, route, ran, lastRequest, screen, runs, cached, pastFailed, started, moves, wandered>>

Settled == ~AutoRunDue /\ ~FillDue

\* useScreening: the past screening that ?id= names.
LoadPast ==
  /\ mounted /\ route.id # 0 /\ route.id \notin cached
  /\ \/ cached' = cached \cup {route.id} /\ pastFailed' = pastFailed \ {route.id}
     \/ route.id \notin pastFailed /\ pastFailed' = pastFailed \cup {route.id} /\ UNCHANGED cached
  /\ UNCHANGED <<screened, mounted, route, draft, ran, filled, lastRequest, screen, runs, started, moves,
                 edited, missed, wandered>>

------------------------------------------------------------------------------
(* The user.                                                               *)

Move == Settled /\ moves < MaxMoves /\ moves' = moves + 1

\* The page is made anew when it is come to from another.
Arrive(address) ==
  /\ route' = address /\ mounted' = TRUE /\ wandered' = TRUE
  /\ IF mounted THEN UNCHANGED <<draft, ran, filled, lastRequest, screen, edited, missed>>
     ELSE /\ draft' = address.address /\ ran' = None /\ filled' = 0 /\ lastRequest' = None /\ screen' = NoRun
          /\ edited' = FALSE /\ missed' = FALSE
  /\ UNCHANGED <<screened, runs, cached, pastFailed, started>>

\* The search field of the top bar, on any page.
ScreenSearch(s) == Move /\ Arrive([address |-> s, id |-> 0])

\* A link to a past screening, or the browser's own buttons; and "Screen" in the menu.
Open(n) == Move /\ n \in DOMAIN screened /\ Arrive([address |-> None, id |-> n])
Menu == Move /\ Arrive(Nowhere)

Leave ==
  /\ Settled /\ mounted /\ mounted' = FALSE /\ route' = Nowhere /\ screen' = NoRun
  /\ UNCHANGED <<screened, draft, ran, filled, lastRequest, runs, cached, pastFailed, started, moves,
                 edited, missed, wandered>>

\* Typing an address takes an error away; choosing a chain or a memo does not.
Type(s) ==
  /\ Move /\ mounted /\ draft' = s /\ edited' = TRUE
  /\ screen' \in IF screen.status \in {"field", "card"} THEN {NoRun, screen} ELSE {screen}
  /\ UNCHANGED <<screened, mounted, route, ran, filled, lastRequest, runs, cached, pastFailed, started, missed, wandered>>

Unmoved == UNCHANGED <<screened, mounted, route, ran, filled, cached, pastFailed, moves, missed, wandered>>
Submit == Settled /\ mounted /\ ~Pending /\ checkSubject(draft) = "ok" /\ run(draft) /\ UNCHANGED <<draft, edited>> /\ Unmoved

\* The examples below the form, and "Try again" on the card of an error.
Pick(s) == Settled /\ mounted /\ ~Pending /\ draft' = s /\ edited' = TRUE /\ run(s) /\ Unmoved
TryAgain ==
  /\ Settled /\ mounted /\ screen.status = "card" /\ lastRequest # None
  /\ run(lastRequest) /\ UNCHANGED <<draft, edited>> /\ Unmoved

Next ==
  \/ \E r \in runs : Serve(r) \/ Answered(r)
  \/ AutoRun \/ Fill \/ LoadPast
  \/ \E s \in Subjects : ScreenSearch(s) \/ Type(s)
  \/ \E n \in DOMAIN screened : Open(n)
  \/ Menu \/ Leave \/ Submit \/ TryAgain
  \/ \E s \in Subjects \ Malformed : Pick(s)

Spec == Init /\ [][Next]_vars

------------------------------------------------------------------------------
(* Properties.                                                             *)

\* However runs overtake each other, the page comes to show the screening of what was
\* asked for last, and goes on showing it until its user goes elsewhere.
LatestRunShown ==
  (Settled /\ screen.status = "success" /\ ~wandered) =>
    Result = screen.id /\ screened[screen.id] = lastRequest

\* Under a past result the form holds the subject of that very result, so that "Screen"
\* screens it again, unless the form was changed since, or the result came under a run.
FormFitsResult ==
  (Settled /\ route.id # 0 /\ Result = route.id) => draft = screened[route.id] \/ edited \/ missed

------------------------------------------------------------------------------
(* Why these hold: the strengthening, of which each step keeps every part. *)

Stored == {0} \cup DOMAIN screened

\* Every number that names a screening names one the API has.
NumbersName ==
  /\ screened \in Seq(Subjects) /\ cached \subseteq DOMAIN screened /\ filled \in Stored
  /\ DOMAIN route = {"address", "id"} /\ route.id \in Stored
  /\ {route.address, draft, lastRequest} \subseteq Subjects \cup {None}

\* A run answers with the screening of its own subject, and the page's is of the last one.
RunSound(r) ==
  /\ DOMAIN r = {"run", "subject", "answer", "id"} /\ r.run \in 1..started /\ r.subject \in Subjects
  /\ mounted /\ screen.run = r.run => r.subject = lastRequest
  /\ r.answer = "success" => r.id \in DOMAIN screened /\ screened[r.id] = r.subject

\* A result on the page is of what was last sent, and its address names it until its user goes on.
ScreenSound ==
  /\ DOMAIN screen = {"run", "status", "id"} /\ started \in Nat
  /\ {mounted, wandered, edited, missed} \subseteq BOOLEAN
  /\ ~mounted => screen = NoRun
  /\ screen.status = "success" =>
       /\ screen.id \in DOMAIN screened /\ screened[screen.id] = lastRequest
       /\ ~wandered => route.id = screen.id /\ screen.id \in cached

\* The form holds the past screening it was filled in with, unless it was changed.
FormSound == mounted /\ filled # 0 => draft = screened[filled] \/ edited \/ missed

ScreenInv == NumbersName /\ (\A r \in runs : RunSound(r)) /\ ScreenSound /\ FormSound

==============================================================================
