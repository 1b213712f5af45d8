------------------------ MODULE EntitlementDelivery ------------------------
(***************************************************************************)
(* What the way of an entitlement from the control plane to a deployment   *)
(* promises, whatever is lost, late or restarted on it: the CRM applies    *)
(* only what was issued, moves only to higher versions, and the control    *)
(* plane is told only what the CRM has applied, never an older version     *)
(* after a newer one.                                                      *)
(***************************************************************************)
EXTENDS Naturals

VARIABLES
  issued,       \* number of the newest version the control plane has signed
  applied,      \* number of the version the CRM runs under, 0: none
  acknowledged  \* number in the deployment's latest heartbeat, 0: none

Init == issued = 0 /\ applied = 0 /\ acknowledged = 0

Issue ==
  /\ issued' > issued
  /\ UNCHANGED <<applied, acknowledged>>

Apply ==
  /\ applied' \in (applied + 1) .. issued
  /\ UNCHANGED <<issued, acknowledged>>

Acknowledge ==
  /\ acknowledged' \in (acknowledged + 1) .. applied
  /\ UNCHANGED <<issued, applied>>

Next == Issue \/ Apply \/ Acknowledge

Spec == Init /\ [][Next]_<<issued, applied, acknowledged>>
=============================================================================
