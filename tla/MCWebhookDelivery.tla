------------------------- MODULE MCWebhookDelivery -------------------------
(***************************************************************************)
(* Values for WebhookDelivery: an alert that may be posted twice, a test      *)
(* webhook and a body that is no webhook; a server, a worker and, in some     *)
(* runs, an instance that is both.                                          *)
(***************************************************************************)
EXTENDS WebhookDeliveryProofs, TLC

CONSTANTS alert, test, junk, server, worker, spare, mono

MCKindOf == [w \in Webhooks |->
  CASE w = alert -> "alert" [] w = test -> "other" [] w = junk -> "garbage"]
MCMaxPosts == [w \in Webhooks |-> IF w = alert THEN 2 ELSE 1]
MCModeOf == [i \in Instances |->
  CASE i = server -> "http" [] i \in {worker, spare} -> "worker" [] i = mono -> "all"]

\* The two workers are alike.
Alike == Permutations({worker, spare})
=============================================================================
