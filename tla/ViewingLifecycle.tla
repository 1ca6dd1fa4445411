-------------------------- MODULE ViewingLifecycle --------------------------
(***************************************************************************)
(* What the status scheme of a viewing request promises to its readers,     *)
(* with no handler, no worker and no database in sight: a request is opened *)
(* pending, moves only along the scheme, and never returns once removed.    *)
(* ViewingRequest.tla is the detailed specification; it implements this one *)
(* when requests are handled one at a time.                                 *)
(***************************************************************************)
CONSTANT Ids            \* the ids a request can be given

VARIABLE stage          \* [Ids -> Stages]

Statuses == {"pending", "confirmed", "rejected", "cancelled", "completed"}
Stages   == Statuses \cup {"none", "deleted"}

(* ViewingRequestStatus::allowedTargets(). *)
allowedTargets(s) ==
  CASE s = "pending"   -> {"confirmed", "rejected", "cancelled"}
    [] s = "confirmed" -> {"completed", "cancelled"}
    [] OTHER           -> {}

Init == stage = [r \in Ids |-> "none"]

Open(r) ==
  /\ stage[r] = "none"
  /\ stage' = [stage EXCEPT ![r] = "pending"]

Move(r) ==
  \E t \in allowedTargets(stage[r]) : stage' = [stage EXCEPT ![r] = t]

Remove(r) ==
  /\ stage[r] \in Statuses
  /\ stage' = [stage EXCEPT ![r] = "deleted"]

Next == \E r \in Ids : Open(r) \/ Move(r) \/ Remove(r)

Spec == Init /\ [][Next]_stage
=============================================================================
