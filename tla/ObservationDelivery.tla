------------------------ MODULE ObservationDelivery ------------------------
(***************************************************************************)
(* What the collector promises about an observation it has made: at most   *)
(* one is outstanding, it stays on the machine until the centre has it,    *)
(* and the centre takes it once.  CollectorSync is shown to implement this *)
(* under `pending' <- the batches of the checkpoint files and `delivered'  *)
(* <- the rows of creator_observations.                                    *)
(***************************************************************************)
CONSTANT Observations

VARIABLES pending, delivered

Init == pending = {} /\ delivered = {}

\* A creator page was inspected; nothing else may be outstanding.
Observe(o) ==
  /\ pending = {}
  /\ o \notin delivered
  /\ pending' = {o}
  /\ UNCHANGED delivered

\* The centre commits the observation, while the machine still keeps it.
Accept(o) ==
  /\ o \in pending \ delivered
  /\ delivered' = delivered \cup {o}
  /\ UNCHANGED pending

\* The machine lets go of what the centre has.
Release(o) ==
  /\ pending = {o}
  /\ o \in delivered
  /\ pending' = {}
  /\ UNCHANGED delivered

Next == \E o \in Observations : Observe(o) \/ Accept(o) \/ Release(o)

Spec == Init /\ [][Next]_<<pending, delivered>>
=============================================================================
