-------------------------------- MODULE MCClient --------------------------------
(* What stands between the API and its clients, on small sets: repeats of a *)
(* request with one key, a call of the SDK, and a receiver of webhooks.     *)
(* part says which of the three is explored.                                *)
EXTENDS Idempotency, SdkTransport

CONSTANTS Events, Tolerance, MaxClock, Attempts, MaxSecret, MaxRestarts

VARIABLES
  part,
  clock, secret, rotated, configured, attempts, acked, posts, seen, working, handled, restarts,
  vanished

receiverVars == <<clock, secret, rotated, configured, attempts, acked, posts, seen, working, handled,
                  restarts, vanished>>
allVars == <<part, vars, callVars, receiverVars>>

Receiver == INSTANCE Receiver

ClientInit ==
  /\ part \in {"repeats", "call", "receiver"}
  /\ Init /\ (part # "repeats" => key = CHOOSE k \in [Requests -> Keys] : TRUE)
  /\ part # "repeats" => body = CHOOSE b \in [Requests -> Bodies] : TRUE
  /\ CallInit /\ (part # "call" => method = "GET")
  /\ Receiver!Init

Timers ==
  part = "call" /\ (Send \/ Unreachable \/ TimeOut \/ Retry)
    /\ UNCHANGED <<part, vars, receiverVars>>
Served(q) == part = "repeats" /\ Serve(q) /\ UNCHANGED <<part, callVars, receiverVars>>
ClientNext ==
  \/ part = "repeats" /\ Next /\ UNCHANGED <<part, callVars, receiverVars>>
  \/ part = "call" /\ CallNext /\ UNCHANGED <<part, vars, receiverVars>>
  \/ part = "receiver" /\ Receiver!Next /\ UNCHANGED <<part, vars, callVars>>
ClientSpec ==
  /\ ClientInit /\ [][ClientNext]_allVars
  /\ WF_allVars(Timers) /\ \A q \in Requests : WF_allVars(Served(q))

(* What Receiver says of its part: one delivery is handled once, what was   *)
(* acknowledged is taken, a rotated secret heals, no late post is taken.    *)
ReceiverKeepsItsWord ==
  [](Receiver!HandledOnce /\ Receiver!AckedIsTaken /\ Receiver!RotationHeals) /\ Receiver!NoLateReplay

(* Every repeat is answered or refused, and every call of the SDK settles.  *)
EverybodyIsAnswered ==
  /\ part = "repeats" => NobodyHangs
  /\ part = "call" => <>(callPc = "settled")

=============================================================================
