-------------------------- MODULE MCViewingRequest --------------------------
(* Finite values for the constants of ViewingRequest: one listing agent, one *)
(* client and one admin, a single listed property.                           *)
EXTENDS ViewingRequest, TLC

CONSTANTS client, agent, admin, prop, d1, d2, t1, t2, w1, w2

MCUsers      == {client, agent, admin}
MCAdmins     == {admin}
MCProperties == {prop}
MCAgentOf    == [p \in MCProperties |-> agent]
(* The form re-sends every field: a rescue of a finished request, a rejection, *)
(* and a hand-over to the admin as client.                                    *)
MCPanelRows  == {[status |-> "pending",   client |-> client, agent |-> agent, date |-> d1, time |-> t1],
                 [status |-> "rejected",  client |-> client, agent |-> agent, date |-> d1, time |-> t1],
                 [status |-> "completed", client |-> admin,  agent |-> agent, date |-> d1, time |-> t1]}
OneDate      == {d1}
TwoDates     == {d1, d2}
OneTime      == {t1}
TwoTimes     == {t1, t2}
OneWorker    == {w1}
TwoWorkers   == {w1, w2}

(* PHP workers are interchangeable; so are days and times as far as the API  *)
(* goes, while the panel's rows name some.                                   *)
WorkerSymmetry == Permutations(Workers)
Symmetry == WorkerSymmetry \cup Permutations(Dates) \cup Permutations(Times)
=============================================================================
