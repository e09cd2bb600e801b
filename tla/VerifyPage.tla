---- MODULE VerifyPage ----
(***************************************************************************)
(* The public page that checks a report                                    *)
(* (apps/web/components/marketing/verify/verify-report.tsx, with           *)
(* useVerifyReport of lib/queries.ts and GET /v1/reports/verify).          *)
(*                                                                         *)
(* Files are hashed in the browser, several at once if the user picks them *)
(* so; a hash may be pasted instead.  Each is sent on its own, and the     *)
(* panel follows the newest request.  A file stands for its contents, so   *)
(* its hash is written as the file itself; its size and its name go with   *)
(* it.  The reference in the address is context only and is left out.      *)
(***************************************************************************)
EXTENDS Integers, FiniteSets

CONSTANTS Files,      \* what can be picked, or have its hash pasted
          TooBig,     \* those of them over MAX_BYTES
          MaxChecks,  \* bound: files picked, hashes sent and retries
          None

VARIABLES record,     \* the API: the hashes of the reports issued
          reading,    \* the files whose hash is awaited
          hashing,    \* the file the panel says is being read
          fileName,   \* the name shown beside the hash
          fileError, hashError,   \* whether the two messages are there
          hashInput,  \* the field: whose hash, and whether spelled as the API wants it
          verify,     \* the newest mutation: its number, hash and outcome
          requests,   \* the requests not answered
          checks,
          asked       \* history variable: what the user asked for last, and whether a file
                      \* picked before it was sent after it

vars == <<record, reading, hashing, fileName, fileError, hashError, hashInput, verify, requests, checks, asked>>

Empty == [of |-> None, plain |-> TRUE]
Nothing == [check |-> 0, hash |-> None, overtaken |-> FALSE]

\* normalizeHash: without prefix, spaces and capitals; isSha256 of that.
normalizeHash(input) == [input EXCEPT !.plain = TRUE]
isSha256(input) == input.of \in Files

Init ==
  /\ record \in SUBSET Files
  /\ reading = {} /\ hashing = None /\ fileName = None /\ fileError = FALSE /\ hashError = FALSE
  /\ hashInput = Empty /\ verify = [n |-> 0, hash |-> None, status |-> "idle"] /\ requests = {}
  /\ checks = 0 /\ asked = Nothing

Counted == checks < MaxChecks /\ checks' = checks + 1

\* The observer of the mutation lets go of the one before.
mutate(hash) ==
  /\ verify' = [n |-> verify.n + 1, hash |-> hash, status |-> "pending"]
  /\ requests' = requests \cup {[n |-> verify.n + 1, hash |-> hash]}

check(hash) == hashError' = FALSE /\ mutate(hash)

\* onFile, as far as the first await.
Pick(file) ==
  /\ Counted
  /\ IF file \in TooBig THEN fileError' = TRUE /\ UNCHANGED <<reading, hashing, asked>>
     ELSE /\ fileError' = FALSE /\ hashing' = file
          /\ reading' = reading \cup {[check |-> checks', file |-> file]}
          /\ asked' = [check |-> checks', hash |-> file, overtaken |-> FALSE]
  /\ UNCHANGED <<record, fileName, hashError, hashInput, verify, requests>>

\* onFile after it: the name, the field and the request are set together.
Hashed(r) ==
  /\ reading' = reading \ {r} /\ hashing' = None
  /\ fileName' = r.file /\ hashInput' = [of |-> r.file, plain |-> TRUE] /\ check(r.file)
  /\ asked' = [asked EXCEPT !.overtaken = asked.check # r.check]
  /\ UNCHANGED <<record, fileError, checks>>

\* The browser cannot read or hash it.
Unreadable(r) ==
  /\ reading' = reading \ {r} /\ hashing' = None /\ fileError' = TRUE
  /\ asked' = IF asked.check = r.check THEN [asked EXCEPT !.hash = None] ELSE asked
  /\ UNCHANGED <<record, fileName, hashError, hashInput, verify, requests, checks>>

Type(input) ==
  /\ hashInput' = input /\ input # hashInput /\ hashError' = FALSE
  /\ UNCHANGED <<record, reading, hashing, fileName, fileError, verify, requests, checks, asked>>

NameKept == fileName   \* mutant: the name of the file before stays beside a pasted hash
NamePasted == None

\* onSubmit: the button, and so the form, waits for a request under way.
Submit ==
  /\ verify.status # "pending"
  /\ LET hash == normalizeHash(hashInput) IN
       IF ~isSha256(hash)
       THEN ~hashError /\ hashError' = TRUE
            /\ UNCHANGED <<fileName, hashInput, verify, requests, checks, asked>>
       ELSE /\ Counted /\ fileName' = NamePasted /\ hashInput' = hash /\ check(hash.of)
            /\ asked' = [check |-> checks', hash |-> hash.of, overtaken |-> FALSE]
  /\ UNCHANGED <<record, reading, hashing, fileError>>

\* What the panel shows.
Panel == IF hashing # None THEN "pending" ELSE verify.status

\* The file named beside the hash: NoMatch names none.
Named == IF Panel = "genuine" THEN fileName ELSE None

\* ErrorBlock's onRetry sends the same hash again.
Retry ==
  /\ Panel = "error" /\ Counted /\ mutate(verify.hash)
  /\ UNCHANGED <<record, reading, hashing, fileName, fileError, hashError, hashInput, asked>>

EveryAnswer(q) == TRUE   \* mutant: an answer is shown whatever was sent since
Newest(q) == verify.n = q.n

\* The API's answer, or none.
Answer(q) ==
  /\ requests' = requests \ {q}
  /\ \E status \in {"error", IF q.hash \in record THEN "genuine" ELSE "no match"} :
       verify' = IF Newest(q) THEN [verify EXCEPT !.status = status] ELSE verify
  /\ UNCHANGED <<record, reading, hashing, fileName, fileError, hashError, hashInput, checks, asked>>

Next ==
  \/ \E file \in Files : Pick(file)
  \/ \E r \in reading : Hashed(r) \/ Unreadable(r)
  \/ \E of \in Files \cup {None} : Type([of |-> of, plain |-> of = None])   \* spelled anyhow
  \/ Submit \/ Retry
  \/ \E q \in requests : Answer(q)

Spec == Init /\ [][Next]_vars

------------------------------------------------------------------------------
(* Safety.                                                                 *)

\* A verdict on the panel is what the API knows of the hash beside it, and a file named
\* there has that hash: no answer, name or hash is mixed with those of another check.
VerdictIsOfWhatIsNamed ==
  Panel \in {"genuine", "no match"} =>
    /\ Panel = (IF verify.hash \in record THEN "genuine" ELSE "no match")
    /\ Named \in {None, verify.hash}

\* Once nothing is under way, the panel is done and is about what the user asked for last, but
\* for a file that could not be read, and for one picked earlier whose hash came later: files
\* are hashed side by side, and each is sent when its hash is there.
ShowsTheLastAsked ==
  reading = {} /\ requests = {} =>
    /\ Panel # "pending"
    /\ asked.hash # None /\ ~asked.overtaken => verify.hash = asked.hash

------------------------------------------------------------------------------
(* Why these hold: the strengthening, of which each step keeps every part. *)

\* The panel follows the newest of the requests.
NewestIsFollowed ==
  /\ DOMAIN verify = {"n", "hash", "status"} /\ verify.n \in Nat
  /\ \A q \in requests : q.n \in 0..verify.n /\ (q.n = verify.n => q.hash = verify.hash)
  /\ verify.status = "pending" => \E q \in requests : q.n = verify.n
  /\ verify.status \in {"genuine", "no match"} =>
       verify.status = (IF verify.hash \in record THEN "genuine" ELSE "no match")

\* Of the files being read, the last one picked is known by its number.
LastIsAwaited ==
  /\ checks \in Nat /\ DOMAIN asked = {"check", "hash", "overtaken"} /\ asked.check \in 0..checks
  /\ asked.overtaken \in BOOLEAN
  /\ hashing # None => reading # {}
  /\ \A r \in reading :
       /\ r.check \in 1..checks
       /\ asked.hash # None /\ r.check = asked.check => r.file = asked.hash
  /\ asked.hash # None /\ ~asked.overtaken =>
       verify.hash = asked.hash \/ \E r \in reading : r.check = asked.check

VerifyInv == fileName \in {None, verify.hash} /\ NewestIsFollowed /\ LastIsAwaited

================================================================================
