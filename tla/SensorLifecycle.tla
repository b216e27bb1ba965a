--------------------------- MODULE SensorLifecycle ---------------------------
(***************************************************************************)
(* What the server promises about a row of the SENSORS table: a token is   *)
(* generated once, its sensor then comes and goes, and a revocation is     *)
(* final.  Which thread takes a step, when, and what it tells the sensor   *)
(* is the business of SensorServer, which implements this specification.   *)
(***************************************************************************)
CONSTANTS Sensors,          \* the ids of the rows, each with its own token
          InitialStatuses   \* what earlier runs of the server may have left

VARIABLE status   \* status[s]: the column STATUS of row s

Usable(s) == status[s] \notin {"ABSENT", "REVOKED"}

Init == status \in [Sensors -> InitialStatuses]

Become(s, new) == status' = [status EXCEPT ![s] = new]

Create(s) == status[s] = "ABSENT" /\ Become(s, "CREATED")

Activate(s) == Usable(s) /\ Become(s, "ACTIVE")

Deactivate(s) == Usable(s) /\ Become(s, "DISCONNECTED")

Revoke(s) == Usable(s) /\ Become(s, "REVOKED")

Next == \E s \in Sensors :
           Create(s) \/ Activate(s) \/ Deactivate(s) \/ Revoke(s)

Spec == Init /\ [][Next]_status

=============================================================================
