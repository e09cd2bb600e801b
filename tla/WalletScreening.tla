---- MODULE WalletScreening ----
(***************************************************************************)
(* The page of a watched wallet (apps/web/app/app/wallets/[id]/page.tsx)   *)
(* and the evidence PDF (useEvidenceExport in lib/hooks/monitor.ts): the   *)
(* screening it shows, which is the last run's answer, else the newest one *)
(* in the list of screenings, and the export, which takes the first of     *)
(* these and otherwise screens again.  The score and its refresh, the      *)
(* alerts and the end of the watch are left out.  A screening is known by  *)
(* its place among the wallet's.                                           *)
(***************************************************************************)
EXTENDS Integers, FiniteSetsExt

CONSTANTS MaxRuns,     \* bound: screenings asked for here
          MaxFlows,    \* bound: exports
          MaxOthers,   \* bound: screenings by others, of this wallet or of many others
          None

VARIABLES screened,    \* the API: how many screenings of the wallet there are
          listed,      \* the API: the last of them is among the newest fifty
          history,     \* the cached list: the wallet's newest in it, 0 for none; None before it came
          fetch,       \* the request for it: [state, answer], "idle", "asked" or "answered"
          stale,       \* it is fetched when the page is next opened
          loaded,      \* the screenings in the cache
          open,        \* the page is open
          screen,      \* the run the page follows: [run, state, id], "none", "pending", "ok" or "error"
          runs,        \* runs whose handler has not run: [run, flow, here, answer], 0 when awaited, -1 an error;
                       \* here as long as the page they were asked from is not left
          flows,       \* exports: [id, stage, screening, shown]
          creating,    \* the one the button waits for, or None
          started, exported, others,
          mine,        \* history variables: the screenings this tab was answered; runs
          excused      \* overlapped, or the list failed or came without an answer's

vars == <<screened, listed, history, fetch, stale, loaded, open, screen, runs, flows, creating, started,
          exported, others, mine, excused>>
Api == <<screened, listed, others>>
List == <<history, fetch, stale>>

NoRun == [run |-> 0, state |-> "none", id |-> 0]
Idle(answer) == [state |-> "idle", answer |-> answer]
Asked == [state |-> "asked", answer |-> history]

Init ==
  /\ screened \in 0..1 /\ listed \in {FALSE, screened = 1}
  /\ history = None /\ fetch = Asked /\ stale = FALSE /\ loaded = {}
  /\ open = TRUE /\ screen = NoRun /\ runs = {} /\ flows = {} /\ creating = None
  /\ started = 0 /\ exported = 0 /\ others = 0 /\ mine = {} /\ excused = FALSE

------------------------------------------------------------------------------
(* What the page shows.                                                    *)

matched == IF history # None /\ history \in loaded THEN history ELSE 0
latest == IF screen.state = "ok" THEN screen.id ELSE matched

LoadMatched ==
  /\ open /\ screen.state # "ok" /\ history \notin {None, 0} \cup loaded
  /\ loaded' = loaded \cup {history}
  /\ UNCHANGED <<Api, List, open, screen, runs, flows, creating, started, exported, mine, excused>>

------------------------------------------------------------------------------
(* Screening and exporting.                                                *)

\* The page follows its last run only.
Run(flow) ==
  /\ started < MaxRuns /\ started' = started + 1
  /\ runs' = runs \cup {[run |-> started', flow |-> flow, here |-> TRUE, answer |-> 0]}
  /\ screen' = [run |-> started', state |-> "pending", id |-> 0]
  /\ excused' = (excused \/ runs # {})

\* "Show latest reasons", and "Try again" after an error.
ShowReasons ==
  /\ open /\ screen.state # "pending" /\ (screen.state = "error" \/ latest = 0)
  /\ Run(None)
  /\ UNCHANGED <<Api, List, loaded, open, flows, creating, exported, mine>>

OfWhatIsShown == latest # 0
OfOwnRun == screen.state = "ok"

Flow(stage, screening) ==
  [id |-> exported, stage |-> stage, screening |-> screening, shown |-> latest]

exportEvidence ==
  /\ open /\ creating = None /\ ~(screen.state = "pending" /\ latest = 0)
  /\ exported < MaxFlows /\ exported' = exported + 1
  /\ \/ /\ OfOwnRun
        /\ flows' = flows \cup {Flow("asked", latest)} /\ creating' = exported
        /\ UNCHANGED <<screen, runs, started, excused>>
     \/ /\ ~OfOwnRun
        /\ flows' = flows \cup {Flow("screening", 0)} /\ Run(exported) /\ UNCHANGED creating
  /\ UNCHANGED <<Api, List, loaded, open, mine>>

------------------------------------------------------------------------------
(* The API.                                                                *)

Serve(r) ==
  /\ r.answer = 0
  /\ \/ /\ screened' = screened + 1 /\ listed' = TRUE
        /\ runs' = (runs \ {r}) \cup {[r EXCEPT !.answer = screened']}
     \/ /\ runs' = (runs \ {r}) \cup {[r EXCEPT !.answer = -1]} /\ UNCHANGED <<screened, listed>>
  /\ UNCHANGED <<others, List, loaded, open, screen, flows, creating, started, exported, mine, excused>>
Cut(r) ==
  /\ r.answer > 0 /\ runs' = (runs \ {r}) \cup {[r EXCEPT !.answer = -1]}
  /\ UNCHANGED <<Api, List, loaded, open, screen, flows, creating, started, exported, mine, excused>>

\* Others screen this wallet, or so many others that it leaves the newest fifty.
Colleague ==
  /\ others < MaxOthers /\ others' = others + 1
  /\ \/ screened' = screened + 1 /\ listed' = TRUE
     \/ listed' = FALSE /\ UNCHANGED screened
  /\ UNCHANGED <<List, loaded, open, screen, runs, flows, creating, started, exported, mine, excused>>

\* An evidence report is rendered at once; the screening is there, nothing removes one.
RenderEvidence(f) ==
  /\ f.stage = "asked" /\ \E s \in {"ready", "failed"} : flows' = (flows \ {f}) \cup {[f EXCEPT !.stage = s]}
  /\ UNCHANGED <<Api, List, loaded, open, screen, runs, creating, started, exported, mine, excused>>

------------------------------------------------------------------------------
(* Answers.  An export goes on although the page is left.                  *)

NotRefetched == UNCHANGED <<fetch, stale>>
\* invalidateQueries: the list is fetched again if the page is there, else when it next is; a
\* first request for it goes on.
Refetched ==
  /\ fetch' = IF open /\ (history # None \/ fetch.state = "idle") THEN Asked ELSE fetch
  /\ stale' = (stale \/ ~open)

Screened(r) ==
  /\ r.answer > 0 /\ runs' = runs \ {r} /\ loaded' = loaded \cup {r.answer}
  /\ mine' = mine \cup {r.answer} /\ Refetched
  /\ screen' = IF screen.run = r.run THEN [screen EXCEPT !.state = "ok", !.id = r.answer] ELSE screen
  /\ flows' = {IF f.id = r.flow THEN [f EXCEPT !.stage = "asked", !.screening = r.answer] ELSE f : f \in flows}
  /\ creating' = IF r.flow # None /\ r.here THEN r.flow ELSE creating
  /\ excused' = (excused \/ (fetch.state = "answered" /\ (history = None \/ ~open)))
  /\ UNCHANGED <<Api, history, open, started, exported>>

\* An export that has nothing to show says so, in place of its "building".
NotScreened(r) ==
  /\ r.answer = -1 /\ runs' = runs \ {r}
  /\ screen' = IF screen.run = r.run THEN [screen EXCEPT !.state = "error"] ELSE screen
  /\ flows' = {IF f.id = r.flow THEN [f EXCEPT !.stage = "failed"] ELSE f : f \in flows}
  /\ UNCHANGED <<Api, List, loaded, open, creating, started, exported, mine, excused>>

Exported(f) ==
  /\ f.stage \in {"ready", "failed"} /\ creating = f.id /\ creating' = None
  /\ UNCHANGED <<Api, List, loaded, open, screen, runs, flows, started, exported, mine, excused>>

------------------------------------------------------------------------------
(* Coming, going and the list.                                             *)

Leave ==
  /\ open /\ open' = FALSE /\ screen' = NoRun /\ creating' = None
  /\ runs' = {[r EXCEPT !.here = FALSE] : r \in runs}
  /\ UNCHANGED <<Api, List, loaded, flows, started, exported, mine, excused>>
Visit ==
  /\ ~open /\ open' = TRUE /\ stale' = FALSE
  /\ fetch' = IF fetch.state = "idle" /\ (stale \/ history = None) THEN Asked ELSE fetch
  /\ UNCHANGED <<Api, history, loaded, screen, runs, flows, creating, started, exported, mine, excused>>

ServeList ==
  /\ fetch.state = "asked" /\ fetch' = [state |-> "answered", answer |-> IF listed THEN screened ELSE 0]
  /\ UNCHANGED <<Api, history, stale, loaded, open, screen, runs, flows, creating, started, exported, mine, excused>>
ListArrives ==
  /\ fetch.state = "answered" /\ history' = fetch.answer /\ fetch' = Idle(history') /\ stale' = FALSE
  /\ UNCHANGED <<Api, loaded, open, screen, runs, flows, creating, started, exported, mine, excused>>
ListFails ==
  /\ fetch.state # "idle" /\ fetch' = Idle(history) /\ excused' = TRUE
  /\ UNCHANGED <<Api, history, stale, loaded, open, screen, runs, flows, creating, started, exported, mine>>

Next ==
  \/ LoadMatched \/ ShowReasons \/ exportEvidence \/ Colleague \/ Leave \/ Visit
  \/ ServeList \/ ListArrives \/ ListFails
  \/ \E r \in runs : Serve(r) \/ Cut(r) \/ Screened(r) \/ NotScreened(r)
  \/ \E f \in flows : RenderEvidence(f) \/ Exported(f)
Spec == Init /\ [][Next]_vars

------------------------------------------------------------------------------
(* Properties.                                                             *)

\* With nothing under way the page shows nothing older than what this tab was told before, on
\* this visit or an earlier one, unless two runs overlapped or the list could not be had.
ShowsNothingOlder ==
  (open /\ runs = {} /\ fetch.state = "idle" /\ ~excused) => (latest = 0 \/ \A n \in mine : latest >= n)

\* Evidence is of a screening this tab asked for itself, never of an old one from the list,
\* and not older than what was shown when the button was pressed.
EvidenceIsCurrent ==
  \A f \in flows : f.stage \in {"asked", "ready"} => f.screening \in mine /\ f.screening >= f.shown

------------------------------------------------------------------------------
(* Why these hold: the strengthening, of which each step keeps every part. *)

\* An answer is newer than all that was told or shown when its run was asked for.
RunSound(r) ==
  /\ DOMAIN r = {"run", "flow", "here", "answer"} /\ r.answer \in -1..screened
  /\ r.flow # None => r.flow \in 0..(exported - 1)
  /\ r.answer > 0 => \A f \in flows : f.id = r.flow => r.answer >= f.shown
FlowSound(f) ==
  /\ DOMAIN f = {"id", "stage", "screening", "shown"} /\ f.id \in 0..(exported - 1) /\ f.shown \in 0..screened
  /\ f.stage \in {"asked", "ready"} => (f.screening \in mine /\ f.screening >= f.shown)

\* Runs that never overlapped are answered in order, and the list comes after them.
OneByOne ==
  /\ \A q, r \in runs : q = r
  /\ \A r \in runs : r.answer > 0 => \A n \in mine : r.answer >= n
  /\ screen.state = "ok" => (runs = {} /\ \A n \in mine : screen.id >= n)
ListFollows ==
  /\ fetch.state = "answered" => (fetch.answer = 0 \/ \A n \in mine : fetch.answer >= n)
  /\ fetch.state = "idle" => (history \in {None, 0} \/ stale \/ \A n \in mine : history >= n)

WalletInv ==
  /\ screened \in Nat /\ exported \in Nat
  /\ mine \in SUBSET (1..screened) /\ (history = None \/ history \in 0..screened)
  /\ fetch.state = "answered" => fetch.answer \in 0..screened
  /\ open \in BOOLEAN /\ stale \in BOOLEAN /\ excused \in BOOLEAN
  /\ stale => ~open
  /\ DOMAIN screen = {"run", "state", "id"} /\ (screen.state = "ok" => screen.id \in mine)
  /\ \A r \in runs : RunSound(r)
  /\ \A f \in flows : FlowSound(f)
  /\ ~excused => OneByOne /\ ListFollows

==============================================================================
