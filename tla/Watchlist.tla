------------------------------- MODULE Watchlist -------------------------------
(***************************************************************************)
(* One address on the watchlist of one org: WalletsService, the cache of    *)
(* ScreeningEngine and the alerts AlertsService raises (apps/api/src).      *)
(*                                                                         *)
(* Simplifications.                                                        *)
(*   - The history of the address is the number of its newest transfer.     *)
(*   - A risky category is one whose exposure is worth 25 points or more at *)
(*     any share of the activity (sanctions down to scam).                  *)
(*   - The address has the same labels of its own throughout.               *)
(*   - A screen is a lookup or a read of the chain, and then, after the     *)
(*     answer has come back, a transaction.                                 *)
(*   - An event or an alert e-mail is delivered by WebhookOutbox and Mail.  *)
(***************************************************************************)
EXTENDS Integers

CONSTANTS
  Wallets,       (* ids of rows; none is used twice                         *)
  Requests,      (* creates, refreshes and rescreens of the monitor at once *)
  MaxTransfers,  (* bound: the transfers the address makes                  *)
  Risky,         (* the risky categories, each as the set of the transfers  *)
                 (* whose counterparty is in it                             *)
  Labels,        (* codes of the reasons that the address's own labels give *)
  None

Evidence == (UNION Risky) \cup Labels   (* what an alert is deduplicated on *)
Numbers == 0..MaxTransfers
Results == [activity : Numbers, reasons : SUBSET Evidence]

ASSUME WatchlistAssumption ==
  /\ MaxTransfers \in Nat /\ Risky \subseteq SUBSET (1..MaxTransfers)
  /\ None \notin Int \cup Wallets \cup Results

VARIABLES
  newest,     (* the chain                                                  *)
  cache,      (* the engine's entry for the address                         *)
  wallet,     (* wallet[w]: lastActivityAt of the row (0: null), None       *)
              (* without a row                                              *)
  gone,       (* the rows that were removed                                 *)
  alerts,     (* the rows of alerts: dedupe keys <<wallet, evidence>>       *)
  told,       (* history: told[w]: the result with the newest activity that *)
              (* the org was told of while w has a row, by the answer to    *)
              (* create or by wallet.activity                               *)
  late,       (* history: rows last written by a screen that was overtaken, *)
              (* or that had missed the newest transfer                     *)
  req         (* what each request is doing                                 *)

rows == <<wallet, gone, alerts, told, late>>
vars == <<newest, cache, rows, req>>

NoResult == [activity |-> 0, reasons |-> {}]
Unused(w) == wallet[w] = None /\ w \notin gone
Watched == {w \in Wallets : wallet[w] # None}

Init ==
  /\ newest \in 0..MaxTransfers
  /\ cache = None
  /\ wallet = [w \in Wallets |-> None]
  /\ gone = {}
  /\ alerts = {}
  /\ told = [w \in Wallets |-> NoResult]
  /\ late = {}
  /\ req = [t \in Requests |-> None]

(* The address makes a transfer; the cache entry expires or is evicted.     *)
Transfer == newest < MaxTransfers /\ newest' = newest + 1 /\ UNCHANGED <<cache, rows, req>>
Forget == cache # None /\ cache' = None /\ UNCHANGED <<newest, rows, req>>

-----------------------------------------------------------------------------
(* create looks for a row of the address; refresh and the monitor read one. *)
AskCreate(t) ==
  /\ req[t] = None
  /\ Watched = {}
  /\ req' = [req EXCEPT ![t] = [at |-> "asked", wallet |-> None, known |-> 0]]
  /\ UNCHANGED <<newest, cache, rows>>

AskRescreen(t, w) ==
  /\ req[t] = None
  /\ w \in Watched
  /\ req' = [req EXCEPT ![t] = [at |-> "asked", wallet |-> w, known |-> wallet[w]]]
  /\ UNCHANGED <<newest, cache, rows>>

(* engine.screen: only a rescreen asks for a fresh answer.                  *)
AnyFromCache(t) == cache # None   (* mutant: fresh is not passed on *)
FromCache(t) == cache # None /\ req[t].wallet = None

Fetched(t, result, missed) ==
  req' = [req EXCEPT ![t] = [at |-> "fetched", wallet |-> req[t].wallet, known |-> req[t].known,
                             result |-> result, behind |-> missed]]

Lookup(t) ==
  /\ req[t] # None /\ req[t].at = "asked"
  /\ FromCache(t)
  /\ Fetched(t, cache, FALSE)
  /\ UNCHANGED <<newest, cache, rows>>

(* The reasons worth 25 points, by their first evidence: that of a risky    *)
(* category is its newest transfer.                                         *)
Reasons(seen) == Labels \cup {k \in seen : \E c \in Risky : k \in c /\ \A j \in c \cap seen : j <= k}
IsNewest(k, seen) == k \in seen \cup {0} /\ \A j \in seen : j <= k

(* A source that fails, is slow or is not read to the end is left out of a  *)
(* result: any part of the history may come back, or nothing of it.         *)
ReadChain(t, seen, k) ==
  /\ req[t] # None /\ req[t].at = "asked"
  /\ ~FromCache(t)
  /\ seen \subseteq 1..newest /\ IsNewest(k, seen)
  /\ Fetched(t, [activity |-> k, reasons |-> Reasons(seen)], k # newest)
  /\ UNCHANGED <<newest, cache, rows>>

Answer(t) ==
  /\ req[t] # None /\ req[t].at = "fetched"
  /\ cache' = req[t].result
  /\ req' = [req EXCEPT ![t].at = "answered"]
  /\ UNCHANGED <<newest, rows>>

(* raiseForWallet: an alert for each reason whose evidence has none yet.    *)
OnlyTheNewest(w, t) == {w} \X (req[t].result.reasons \ 1..(req[t].result.activity - 1))   (* mutant *)
Raised(w, t) == {w} \X req[t].result.reasons

Ready(t) == req[t] # None /\ req[t].at = "answered"

(* The id of a new row is any that no row had.                              *)
NewId == CHOOSE w \in Wallets : Unused(w)

Create(t) ==
  LET w == NewId IN
  /\ Ready(t) /\ req[t].wallet = None
  /\ \E free \in Wallets : Unused(free)
  /\ IF Watched = {}
       THEN /\ wallet' = [wallet EXCEPT ![w] = req[t].result.activity]
            /\ alerts' = alerts \cup Raised(w, t)
            /\ told' = [told EXCEPT ![w] = req[t].result]
       ELSE UNCHANGED <<wallet, alerts, told>>
  /\ req' = [req EXCEPT ![t] = None]
  /\ UNCHANGED <<newest, cache, gone, late>>

(* The other screens of the wallet that have read and not yet written.      *)
Overtake(t, w) ==
  [x \in Requests |->
     IF x = t THEN None
     ELSE IF req[x] # None /\ req[x].wallet = w /\ req[x].at # "asked" THEN [req[x] EXCEPT !.behind = TRUE]
     ELSE req[x]]

(* Newer than the row was before the screen, not than it is now.            *)
IsNews(t) == req[t].result.activity > req[t].known

Rescreen(t) ==
  LET w == req[t].wallet IN
  /\ Ready(t) /\ w \in Watched
  /\ wallet' = [wallet EXCEPT ![w] = req[t].result.activity]
  /\ alerts' = alerts \cup Raised(w, t)
  /\ told' = [told EXCEPT ![w] = IF IsNews(t) /\ req[t].result.activity > @.activity
                                    THEN req[t].result ELSE @]
  /\ late' = IF req[t].behind THEN late \cup {w} ELSE late \ {w}
  /\ req' = Overtake(t, w)
  /\ UNCHANGED <<newest, cache, gone>>

(* The row went while its address was screened: nothing is updated, and an  *)
(* alert for it would break alerts.wallet_id's foreign key.                 *)
AlertedAnyway(w, t) == Raised(w, t)   (* mutant: no foreign key *)
AlertedWithoutRow(w, t) == {}

RescreenGone(t) ==
  LET w == req[t].wallet IN
  /\ Ready(t) /\ w \in gone
  /\ alerts' = alerts \cup AlertedWithoutRow(w, t)
  /\ req' = [req EXCEPT ![t] = None]
  /\ UNCHANGED <<newest, cache, wallet, gone, told, late>>

RemoveWallet(w) ==
  /\ w \in Watched
  /\ wallet' = [wallet EXCEPT ![w] = None]
  /\ gone' = gone \cup {w}
  /\ told' = [told EXCEPT ![w] = NoResult]
  /\ late' = late \ {w}
  /\ UNCHANGED <<newest, cache, alerts, req>>

(* 502 chain_unavailable, a lost connection, a crash.                       *)
Fail(t) ==
  /\ req[t] # None
  /\ req' = [req EXCEPT ![t] = None]
  /\ UNCHANGED <<newest, cache, rows>>

Next ==
  \/ Transfer \/ Forget
  \/ \E w \in Wallets : RemoveWallet(w)
  \/ \E t \in Requests :
       \/ AskCreate(t) \/ Lookup(t) \/ Answer(t) \/ Create(t) \/ Rescreen(t) \/ RescreenGone(t) \/ Fail(t)
       \/ \E seen \in SUBSET (1..newest), k \in Numbers : ReadChain(t, seen, k)
       \/ \E w \in Wallets : AskRescreen(t, w)

Spec == Init /\ [][Next]_vars

-----------------------------------------------------------------------------
TypeOK ==
  /\ newest \in Numbers
  /\ cache \in Results \cup {None}
  /\ wallet \in [Wallets -> Numbers \cup {None}]
  /\ gone \subseteq Wallets
  /\ alerts \subseteq Wallets \X Evidence
  /\ told \in [Wallets -> Results]
  /\ late \subseteq Wallets
  /\ req \in [Requests ->
       {None} \cup [at : {"asked"}, wallet : Wallets \cup {None}, known : Numbers]
         \cup [at : {"fetched", "answered"}, wallet : Wallets \cup {None}, known : Numbers,
               result : Results, behind : BOOLEAN]]

(* "Opens an alert for every reason worth at least 25 points": what the org *)
(* was told of last, in any order of creates, refreshes and rescreens that  *)
(* saw more or less of the chain, has its alerts, and so has every label of *)
(* the address.                                                             *)
NothingToldWithoutAlert ==
  \A w \in Watched : {w} \X (Labels \cup told[w].reasons) \subseteq alerts

(* "A rescreen that sees a newer last_activity_at emits wallet.activity":   *)
(* no row shows activity that the org was never told of.                    *)
NothingSeenUntold == \A w \in Watched : wallet[w] <= told[w].activity

(* What is seen is told, and what is told has its alert.                    *)
ToldAsAlerted == TypeOK /\ NothingToldWithoutAlert /\ NothingSeenUntold

(* A row goes back behind what the org was told of only if the last screen  *)
(* to write it had missed the newest transfer, or was slow: another, that   *)
(* read later or at once, wrote before it.                                  *)
BehindOnlyIfLate == \A w \in Watched : wallet[w] < told[w].activity => w \in late

(* Rows, what the org was told and its alerts tell of the same activity.    *)
RowsTellAll == ToldAsAlerted /\ BehindOnlyIfLate

(* A wallet that was removed gets no alert any more, by any screen that was *)
(* under way.                                                               *)
NoAlertOnceGone ==
  [][\A w \in gone, k \in Evidence : <<w, k>> \in alerts' => <<w, k>> \in alerts]_vars

-----------------------------------------------------------------------------
(* Why these hold: nobody knows more than the chain, a screen began from a  *)
(* row the org was told of, and it saw at least as much unless it is behind.*)
NothingAheadOfTheChain ==
  /\ cache # None => cache.activity <= newest
  /\ \A w \in Wallets : told[w].activity <= newest
  /\ \A t \in Requests : req[t] # None /\ req[t].at # "asked" => req[t].result.activity <= newest

EveryResultHasTheLabels ==
  /\ cache # None => Labels \subseteq cache.reasons
  /\ \A t \in Requests : req[t] # None /\ req[t].at # "asked" => Labels \subseteq req[t].result.reasons

GoneHaveNoRow == \A w \in gone : wallet[w] = None

KnownWasTold ==
  \A t \in Requests : req[t] # None /\ req[t].wallet # None =>
    \/ req[t].wallet \in gone
    \/ req[t].wallet \in Watched /\ req[t].known <= told[req[t].wallet].activity

SawAllUnlessBehind ==
  \A t \in Requests : req[t] # None /\ req[t].wallet # None /\ req[t].at # "asked" =>
    req[t].behind \/ told[req[t].wallet].activity <= req[t].result.activity

WatchInv ==
  /\ RowsTellAll
  /\ NothingAheadOfTheChain /\ EveryResultHasTheLabels
  /\ GoneHaveNoRow /\ KnownWasTold /\ SawAllUnlessBehind

=============================================================================
