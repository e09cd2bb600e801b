---- MODULE RecordHistory ----
(***************************************************************************)
(* What a record with a history promises its readers, whatever kind of     *)
(* record it is: a change of status is stamped with the time it is made,   *)
(* and becomes visible, whole, at some later time, or never.  One record   *)
(* has at most one change under way, and each change is one its table of   *)
(* moves allows after the status the record has.                           *)
(*                                                                         *)
(* Two parts of the code keep such records: Travel Rule transfers with     *)
(* their events (TravelRule implements this specification) and alerts with *)
(* their alert.updated audit events.  The audit report is computed from    *)
(* the two (AuditReport).                                                  *)
(***************************************************************************)
EXTENDS Integers, Sequences

CONSTANTS Items,      \* the records
          Moves,      \* <<from, to>>: the moves allowed; <<Nothing, s>> to begin
          Nothing

VARIABLES clock,      \* the time
          history,    \* history[i]: the changes that are visible, in order
          pending     \* pending[i]: the change stamped and not visible yet, or Nothing

rhVars == <<clock, history, pending>>

LastStatus(h) == IF h = <<>> THEN Nothing ELSE h[Len(h)].status

Init ==
  /\ clock = 0
  /\ history = [i \in Items |-> <<>>]
  /\ pending = [i \in Items |-> Nothing]

Tick == clock' = clock + 1 /\ UNCHANGED <<history, pending>>

\* A record that is being created may be stamped anew until it exists.
Stamped(i, to) ==
  /\ pending[i] = Nothing \/ history[i] = <<>>
  /\ <<LastStatus(history[i]), to>> \in Moves
  /\ pending' = [pending EXCEPT ![i] = [status |-> to, at |-> clock]]
  /\ UNCHANGED <<clock, history>>

Committed(i) ==
  /\ pending[i] # Nothing
  /\ history' = [history EXCEPT ![i] = Append(@, pending[i])]
  /\ pending' = [pending EXCEPT ![i] = Nothing]
  /\ UNCHANGED clock

Abandoned(i) ==
  /\ pending[i] # Nothing
  /\ pending' = [pending EXCEPT ![i] = Nothing]
  /\ UNCHANGED <<clock, history>>

\* Whatever else happens to a record changes what it has under way.
Next ==
  \/ Tick
  \/ /\ pending' # pending
     /\ \E i \in Items : Committed(i) \/ Abandoned(i) \/ \E m \in Moves : Stamped(i, m[2])

Spec == Init /\ [][Next]_rhVars

==============================================================================
