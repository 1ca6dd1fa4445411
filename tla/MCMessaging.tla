----------------------------- MODULE MCMessaging -----------------------------
(* One client, one agent with two listings.                                  *)
EXTENDS Messaging

CONSTANTS client, agent, p1, p2, w1, w2

MCUsers      == {client, agent}
TwoProperties == {p1, p2}
MCAgentOf    == [p \in {p1, p2} |-> agent]
TwoWorkers   == {w1, w2}
=============================================================================
