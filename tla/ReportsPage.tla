---- MODULE ReportsPage ----
(***************************************************************************)
(* The reports page and the page of one report (apps/web/app/app/reports,  *)
(* components/reports): both poll while what they show is not finished.    *)
(* Of the API there is the status of each report, which the job that       *)
(* renders it moves on; colleagues ask for reports too.  Validation,       *)
(* downloads and the form's pickers are left out, and so is a report that  *)
(* fails after it was ready (ReportJobs), which neither page would see.    *)
(* The form is there while the first request for the list is under way,    *)
(* and that request alone is not made again after a report was asked for.  *)
(***************************************************************************)
EXTENDS Integers, SequencesExt

CONSTANTS MaxSends,   \* bound: reports this browser asks for
          MaxOthers,  \* bound: reports colleagues ask for
          ListLimit,  \* how many reports the API lists, the newest ones
          None

VARIABLES reports,        \* the API: the status of every report, the oldest first
          history,        \* the cached list: the status of each report in it
          fetch,          \* the request for it: [state, answer], "idle", "asked" or "answered"
          failed,         \* an error is shown in place of the list
          copy,           \* "none" as long as no list came, "fresh", or "old": fetched when next shown
          open,           \* "history", or "report" for the page of one of them
          watched,        \* which one, or None
          seen, seenFetch,   \* its cached status, or None, and the request for it
          waiting,        \* what "Generate" waits for, or None
          sends, sent, others,
          behind          \* history variable: the list asked for last may lack what others did, what
                          \* an answer that was lost did, or a report whose creation found that
                          \* list answered already and did not replace the request

vars == <<reports, history, fetch, failed, copy, open, watched, seen, seenFetch, waiting, sends, sent, others, behind>>
List == <<history, fetch, failed, copy>>
Copy == <<watched, seen, seenFetch>>

reportPending(status) == status \in {"queued", "rendering"}
Idle(answer) == [state |-> "idle", answer |-> answer]
Ask(answer) == [state |-> "asked", answer |-> answer]

\* The org has asked for nothing yet, or for one report that is ready.
Init ==
  /\ reports \in {<<>>, <<"ready">>} /\ history = <<>> /\ fetch = Ask(history) /\ failed = FALSE /\ copy = "none"
  /\ open = "history" /\ watched = None /\ seen = None /\ seenFetch = Idle(None)
  /\ waiting = None /\ sends = {} /\ sent = 0 /\ others = 0 /\ behind = FALSE

------------------------------------------------------------------------------
(* Asking for a report, and the API.                                       *)

\* A record is rendered at once, an audit report is queued.
Generate(status) ==
  /\ open = "history" /\ waiting = None /\ sent < MaxSends
  /\ sends' = sends \cup {[id |-> sent, status |-> status, answer |-> "awaited"]}
  /\ waiting' = sent /\ sent' = sent + 1
  /\ UNCHANGED <<reports, List, open, Copy, others, behind>>

Serve(q) ==
  /\ q.answer = "awaited"
  /\ \/ /\ reports' = Append(reports, q.status)
        /\ sends' = (sends \ {q}) \cup {[q EXCEPT !.answer = "ok"]}
     \/ /\ sends' = (sends \ {q}) \cup {[q EXCEPT !.answer = "refused"]}
        /\ UNCHANGED reports
  /\ UNCHANGED <<List, open, Copy, waiting, sent, others, behind>>

Cut(q) ==
  /\ q.answer = "ok" /\ sends' = (sends \ {q}) \cup {[q EXCEPT !.answer = "refused"]} /\ behind' = TRUE
  /\ UNCHANGED <<reports, List, open, Copy, waiting, sent, others>>

Colleague ==
  /\ others < MaxOthers /\ others' = others + 1 /\ behind' = TRUE
  /\ reports' = Append(reports, "queued")
  /\ UNCHANGED <<List, open, Copy, waiting, sends, sent>>

Render(i) ==
  /\ \E s \in IF reports[i] = "queued" THEN {"rendering"} ELSE IF reports[i] = "rendering" THEN {"ready", "failed"} ELSE {} :
        reports' = [reports EXCEPT ![i] = s]
  /\ UNCHANGED <<List, open, Copy, waiting, sends, sent, others, behind>>

------------------------------------------------------------------------------
(* Answers: what is shown is fetched again, what is not when it next is.   *)

\* A request under way is replaced only where there is data to show meanwhile.
Again(request, copied, data) == IF copied \/ request.state = "idle" THEN Ask(data) ELSE request

Created(q) ==
  /\ q.answer = "ok" /\ sends' = sends \ {q} /\ waiting' = IF waiting = q.id THEN None ELSE waiting
  /\ fetch' = IF open = "history" THEN Again(fetch, copy # "none", history) ELSE fetch
  /\ copy' = IF open = "history" THEN copy ELSE "old"
  /\ seenFetch' = IF open = "report" THEN Again(seenFetch, seen # None, seen) ELSE seenFetch
  /\ behind' = (behind \/ fetch'.state = "answered")
  /\ UNCHANGED <<reports, history, failed, open, watched, seen, sent, others>>
NotCreated(q) ==
  /\ q.answer = "refused" /\ sends' = sends \ {q} /\ waiting' = IF waiting = q.id THEN None ELSE waiting
  /\ UNCHANGED <<reports, List, open, Copy, sent, others, behind>>

------------------------------------------------------------------------------
(* The pages.                                                              *)

OpenReport(i) ==
  /\ open = "history" /\ copy # "none" /\ ~failed /\ watched \in {None, i}
  /\ open' = "report" /\ watched' = i /\ waiting' = None
  /\ seenFetch' = IF seen = None THEN Ask(seen) ELSE seenFetch
  /\ UNCHANGED <<reports, List, seen, sends, sent, others, behind>>

\* The list is fetched when it was invalidated meanwhile or is older than staleTime.
Back ==
  /\ open = "report" /\ open' = "history" /\ copy' = "fresh"
  /\ \/ fetch.state = "idle" /\ fetch' = Ask(history)
     \/ (fetch.state # "idle" \/ copy # "old") /\ UNCHANGED fetch
  /\ UNCHANGED <<reports, history, failed, Copy, waiting, sends, sent, others, behind>>

OnlyQueued == \E i \in DOMAIN history : history[i] = "queued"
Unfinished == \E i \in DOMAIN history : reportPending(history[i])

\* refetchInterval, or "Try again" where an error is shown.
Poll ==
  /\ open = "history" /\ fetch.state = "idle" /\ (Unfinished \/ failed) /\ fetch' = Ask(history)
  /\ UNCHANGED <<reports, history, failed, copy, open, Copy, waiting, sends, sent, others, behind>>
PollReport ==
  /\ open = "report" /\ seenFetch.state = "idle" /\ (seen = None \/ reportPending(seen)) /\ seenFetch' = Ask(seen)
  /\ UNCHANGED <<reports, List, open, watched, seen, waiting, sends, sent, others, behind>>

Newest == [i \in {j \in DOMAIN reports : j > Len(reports) - ListLimit} |-> reports[i]]

ServeList ==
  /\ fetch.state = "asked" /\ fetch' = [state |-> "answered", answer |-> Newest] /\ behind' = FALSE
  /\ UNCHANGED <<reports, history, failed, copy, open, Copy, waiting, sends, sent, others>>
ListArrives ==
  /\ fetch.state = "answered" /\ history' = fetch.answer /\ fetch' = Idle(history') /\ failed' = FALSE /\ copy' = "fresh"
  /\ UNCHANGED <<reports, open, Copy, waiting, sends, sent, others, behind>>
ListFails ==
  /\ fetch.state # "idle" /\ fetch' = Idle(history) /\ failed' = TRUE
  /\ UNCHANGED <<reports, history, copy, open, Copy, waiting, sends, sent, others, behind>>
ServeReport ==
  /\ seenFetch.state = "asked" /\ seenFetch' = [state |-> "answered", answer |-> reports[watched]]
  /\ UNCHANGED <<reports, List, open, watched, seen, waiting, sends, sent, others, behind>>
ReportArrives ==
  /\ seenFetch.state = "answered" /\ seen' = seenFetch.answer /\ seenFetch' = Idle(seen')
  /\ UNCHANGED <<reports, List, open, watched, waiting, sends, sent, others, behind>>

Next ==
  \/ \E status \in {"queued", "ready"} : Generate(status)
  \/ \E q \in sends : Serve(q) \/ Cut(q) \/ Created(q) \/ NotCreated(q)
  \/ \E i \in DOMAIN reports : Render(i)
  \/ \E i \in DOMAIN history : OpenReport(i)
  \/ Colleague \/ Back \/ Poll \/ PollReport
  \/ ServeList \/ ServeReport \/ ListArrives \/ ListFails \/ ReportArrives
Spec == Init /\ [][Next]_vars

------------------------------------------------------------------------------
(* Properties.                                                             *)

\* A list that is no longer polled shows the newest reports as they are, whatever was asked for
\* here meanwhile, on this page or before it was left, but for what others did since, for lost
\* answers, and for a report created while an older list was on its way that no request took
\* the place of: the page's first, or one that the page was left with; and so does the page of
\* a report.
PollsToTheEnd ==
  /\ (open = "history" /\ fetch.state = "idle" /\ sends = {} /\ ~failed /\ ~Unfinished)
       => (history = Newest \/ behind)
  /\ (open = "report" /\ seenFetch.state = "idle" /\ seen # None)
       => (reportPending(seen) \/ seen = reports[watched])

------------------------------------------------------------------------------
(* Why these hold: the strengthening, of which each step keeps every part. *)

Statuses == {"queued", "rendering", "ready", "failed"}
Sound(q) == DOMAIN q = {"id", "status", "answer"} /\ q.status \in Statuses

\* An answer that was true when it was given: what has changed since was not finished in it.
Follows(list) ==
  DOMAIN list = DOMAIN Newest /\ \A i \in DOMAIN list : list[i] = reports[i] \/ reportPending(list[i])
Lists(list) == list = [i \in DOMAIN list |-> list[i]] /\ DOMAIN list \subseteq DOMAIN reports
Tells(status) == watched # None /\ (reportPending(status) \/ status = reports[watched])

ReportsInv ==
  /\ reports \in Seq(Statuses) /\ Lists(history) /\ (fetch.state = "answered" => Lists(fetch.answer))
  /\ open \in {"history", "report"} /\ behind \in BOOLEAN /\ failed \in BOOLEAN /\ copy \in {"none", "fresh", "old"}
  /\ \A q \in sends : Sound(q)
  /\ copy = "old" => open = "report"
  /\ copy = "none" => fetch.state # "idle" \/ failed
  /\ ~behind => \/ \E q \in sends : q.answer = "ok"
                \/ /\ fetch.state = "answered" => Follows(fetch.answer)
                   /\ (fetch.state = "idle" /\ ~failed /\ copy # "old") => Follows(history)
  /\ watched # None => watched \in DOMAIN reports
  /\ open = "report" \/ seenFetch.state # "idle" => watched # None
  /\ seenFetch.state = "answered" => Tells(seenFetch.answer)
  /\ seen # None => Tells(seen)

==============================================================================
