------------------------------ MODULE MCBackground ------------------------------
(* The background work of the API on small sets: one watched address and    *)
(* its alerts, the monitor as it runs among refreshes and restarts, the     *)
(* monitor alone, and the runners of queued reports.                        *)
EXTENDS Watchlist, SequencesExt

CONSTANTS Monitored, Failing, Interval, Batch, Workers, Longest, MaxAge,
          Audits, Drafts, References, Instances, Posts, RefAttempts, MaxFailures

VARIABLES
  part, timer, running, queue, work, age, order,
  status, ref, sha, files, generated, failed, pc, job, phase, attempt, draft, renders, stranded,
  crashes, failures

monitorVars == <<timer, running, queue, work, age, order>>
reportVars == <<status, ref, sha, files, generated, failed, pc, job, phase, attempt, draft, renders,
                stranded, crashes, failures>>
allVars == <<part, vars, monitorVars, reportVars>>

Monitor == INSTANCE Monitor WITH Wallets <- Monitored, Nothing <- None

(* One process dies among the runners.                                      *)
Reports == INSTANCE ReportJobs WITH Requests <- Posts, MaxCrashes <- 1

BackgroundInit ==
  /\ part \in {"wallets", "monitor", "alone", "reports"}
  /\ Init /\ (part # "wallets" => newest = 0)
  /\ Monitor!Init
  /\ part \notin {"monitor", "alone"} => order = CHOOSE o \in SetToSeqs(Monitored) : TRUE
  /\ Reports!Init

Alone == part = "alone" /\ Monitor!Work /\ UNCHANGED <<part, vars, reportVars>>
Runner(i) == part = "reports" /\ Reports!Run(i) /\ UNCHANGED <<part, vars, monitorVars>>
BackgroundNext ==
  \/ part = "wallets" /\ Next /\ UNCHANGED <<part, monitorVars, reportVars>>
  \/ part = "monitor" /\ Monitor!Next /\ UNCHANGED <<part, vars, reportVars>>
  \/ Alone
  \/ part = "reports" /\ Reports!Next /\ UNCHANGED <<part, vars, monitorVars>>
BackgroundSpec ==
  /\ BackgroundInit /\ [][BackgroundNext]_allVars
  /\ WF_allVars(Alone) /\ \A i \in Instances : WF_allVars(Runner(i))

(* What Monitor says of workers, and of wallets while it is alone: as long  *)
(* as those that fail do not fill a batch, a stale one is rescreened.       *)
MonitorKeepsUp ==
  /\ [](Monitor!OneAtATime /\ (part = "alone" => Monitor!WithinItsRounds))
  /\ \A w \in Monitored \ Failing : (part = "alone" /\ Monitor!Stale(w)) ~> ~Monitor!Stale(w)

(* What ReportJobs says of queued reports.                                  *)
QueuedReportsEnd == Reports!QueuedReportsEnd

=============================================================================
