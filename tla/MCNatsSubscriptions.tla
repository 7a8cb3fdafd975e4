------------------------ MODULE MCNatsSubscriptions ------------------------
(* NatsSubscriptions with two topics: changes can arrive between two       *)
(* subscriptions of one reconciliation.                                    *)
EXTENDS NatsSubscriptions
=============================================================================
