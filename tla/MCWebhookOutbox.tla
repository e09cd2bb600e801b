--------------------------- MODULE MCWebhookOutbox ---------------------------
(***************************************************************************)
(* Instances of WebhookOutbox for TLC: two API processes, one of them with *)
(* two send loops, and two deliveries of one endpoint.                     *)
(***************************************************************************)
EXTENDS WebhookOutbox, TLC

CONSTANTS e1, d1, d2, i1, i2, w1, w2, w3, none

(* d1 and d2 go to the same endpoint: their failures add up. *)
OneEndpoint == (d1 :> e1) @@ (d2 :> e1)
ThreeWorkers == (w1 :> i1) @@ (w2 :> i1) @@ (w3 :> i2)
OneWorkerEach == (w1 :> i1) @@ (w3 :> i2)

=============================================================================
