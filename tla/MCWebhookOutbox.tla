-------------------------- MODULE MCWebhookOutbox --------------------------
(***************************************************************************)
(* WebhookOutbox alone for TLC: subscriptions that want every event.       *)
(***************************************************************************)
EXTENDS WebhookOutbox

CONSTANTS h1, e1, t1

WantsAll == [h \in Hooks |-> Events]
=============================================================================
