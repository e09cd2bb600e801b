-------------------------------- MODULE Receiver --------------------------------
(***************************************************************************)
(* A receiver of webhooks (examples/webhook-receiver with constructEvent of *)
(* the SDK) at the other end of the dispatcher: signatures, the tolerance   *)
(* window, deduplication, and secrets that are rotated.                     *)
(*                                                                         *)
(* Simplifications.                                                        *)
(*   - A signature is the secret it was made with and its timestamp.  The   *)
(*     MAC is sound: only the secret it was made with verifies it.          *)
(*   - Backoffs are a number of attempts, and every body is a Hera event.   *)
(*   - Both ends have the same clock.                                      *)
(***************************************************************************)
EXTENDS Naturals

CONSTANTS
  Events,
  Tolerance,    (* seconds a signature is good for                          *)
  MaxClock,     (* bound on the clock                                       *)
  Attempts,     (* attempts of a delivery                                   *)
  MaxSecret,    (* bound on rotations                                       *)
  MaxRestarts   (* bound on restarts of the receiver                        *)

VARIABLES
  clock,
  secret,      (* the endpoint's signing secret, as a version               *)
  configured,  (* the receiver's                                            *)
  attempts,    (* attempts[e]: attempts made                                *)
  acked,       (* acked[e]: a 2xx came back                                 *)
  posts,       (* what is or was on the wire: it may arrive twice           *)
  seen,        (* the receiver's memory                                     *)
  working,     (* events that are acknowledged and not handled yet          *)
  handled,     (* handled[e]: how often                                     *)
  restarts,
  rotated,     (* history: when the last rotation was                       *)
  vanished     (* history: a restart or a failing handler took it           *)

endpointVars == <<secret, rotated, attempts, acked, posts>>
receiverVars == <<configured, seen, working, handled, restarts, vanished>>
vars == <<clock, endpointVars, receiverVars>>

Init ==
  /\ clock = 0
  /\ secret = 0 /\ configured = 0
  /\ attempts = [e \in Events |-> 0]
  /\ acked = [e \in Events |-> FALSE]
  /\ posts = {}
  /\ seen = {} /\ working = {}
  /\ handled = [e \in Events |-> 0]
  /\ restarts = 0 /\ rotated = 0 /\ vanished = {}

Tick == clock < MaxClock /\ clock' = clock + 1 /\ UNCHANGED <<endpointVars, receiverVars>>

(* rotateSecret: the old secret is gone at once.                            *)
RotateSecret ==
  /\ secret < MaxSecret
  /\ secret' = secret + 1 /\ rotated' = clock
  /\ UNCHANGED <<clock, attempts, acked, posts, receiverVars>>

(* signWebhookPayload: every attempt is signed anew.                        *)
SigningSecret == secret
Sign(e) == [event |-> e, secret |-> SigningSecret, t |-> clock]

(* An attempt: it may be lost, and so may its answer.                       *)
Attempt(e) ==
  /\ ~acked[e] /\ attempts[e] < Attempts
  /\ attempts' = [attempts EXCEPT ![e] = @ + 1]
  /\ posts' = posts \cup {Sign(e)}
  /\ UNCHANGED <<clock, secret, rotated, acked, receiverVars>>

-----------------------------------------------------------------------------
Fresh(p) == clock - p.t <= Tolerance /\ p.t - clock <= Tolerance
Verified(p) == p.secret = configured /\ Fresh(p)

Remembered(e) == {e}

(* The post arrives, for the first time or again; a 200 is heard or lost.   *)
Receive(p, heard) ==
  /\ p \in posts
  /\ Verified(p)
  /\ seen' = seen \cup Remembered(p.event)
  /\ working' = IF p.event \in seen THEN working ELSE working \cup {p.event}
  /\ acked' = [acked EXCEPT ![p.event] = @ \/ heard]
  /\ UNCHANGED <<clock, secret, rotated, attempts, posts, configured, handled, restarts, vanished>>

(* A 400: nothing of the post is remembered.                                *)
Marked(e) == {e}   (* mutant: the id is noted before the signature is checked *)
Ignored(e) == {}

Refuse(p) ==
  /\ p \in posts
  /\ ~Verified(p)
  /\ seen' = seen \cup Ignored(p.event)
  /\ UNCHANGED <<clock, endpointVars, configured, working, handled, restarts, vanished>>

(* handle, after the response; a handler that fails is logged.              *)
Handle(e) ==
  /\ e \in working
  /\ working' = working \ {e}
  /\ \/ handled' = [handled EXCEPT ![e] = @ + 1] /\ UNCHANGED vanished
     \/ vanished' = vanished \cup {e} /\ UNCHANGED handled
  /\ UNCHANGED <<clock, endpointVars, configured, seen, restarts>>

(* The receiver is started with the secret of the day, and an empty memory. *)
Restart ==
  /\ restarts < MaxRestarts
  /\ restarts' = restarts + 1
  /\ configured' = secret
  /\ seen' = {} /\ working' = {}
  /\ vanished' = vanished \cup working
  /\ UNCHANGED <<clock, endpointVars, handled>>

Next ==
  \/ Tick \/ RotateSecret \/ Restart
  \/ \E e \in Events : Attempt(e) \/ Handle(e)
  \/ \E p \in posts : Refuse(p) \/ \E heard \in BOOLEAN : Receive(p, heard)

Spec == Init /\ [][Next]_vars

-----------------------------------------------------------------------------
(* "Deduplicate on event.id": however often an event is delivered, and how- *)
(* ever its answers get lost, it is handled once by one run of the receiver.*)
HandledOnce == \A e \in Events : handled[e] <= restarts + 1

(* "A captured delivery can't be replayed later": an event that the         *)
(* receiver takes on was signed within the tolerance, even after a restart  *)
(* has made it forget what it has seen.                                     *)
NoLateReplay ==
  [][\A e \in working' \ working :
       \E p \in posts : p.event = e /\ clock - p.t <= Tolerance]_vars

(* A rotation "invalidates the old secret immediately" and for the receiver *)
(* it is over with its next start: what is signed after it is accepted.     *)
RotationHeals ==
  \A p \in posts : Fresh(p) /\ configured = secret /\ p.t > rotated => Verified(p)

(* An event that its sender has crossed off was taken: also when a post of  *)
(* it was refused before, for an old secret or a slow network.              *)
AckedIsTaken ==
  \A e \in Events : acked[e] => e \in working \/ handled[e] > 0 \/ e \in vanished

-----------------------------------------------------------------------------
(* Why these hold, however posts are lost, repeated and late.               *)
TypeOK ==
  /\ clock \in Nat /\ secret \in Nat /\ configured \in Nat /\ rotated \in 0..clock
  /\ attempts \in [Events -> Nat]
  /\ acked \in [Events -> BOOLEAN]
  /\ posts \subseteq [event : Events, secret : Nat, t : 0..clock]
  /\ seen \subseteq Events /\ working \subseteq seen /\ vanished \subseteq Events
  /\ handled \in [Events -> Nat]
  /\ restarts \in Nat

(* What this run has not seen, or has and not finished, it has not handled. *)
NotYetHandled ==
  \A e \in Events :
    /\ handled[e] <= restarts + 1
    /\ e \notin seen \/ e \in working => handled[e] <= restarts

(* Taken, by this run or an earlier one.                                    *)
Taken(e) == e \in working \/ handled[e] > 0 \/ e \in vanished
SeenIsTaken == \A e \in Events : e \in seen \/ acked[e] => Taken(e)

SignedSinceRotation == \A p \in posts : p.t > rotated => p.secret = secret

ReceiverInv == TypeOK /\ NotYetHandled /\ SeenIsTaken /\ SignedSinceRotation

=============================================================================
