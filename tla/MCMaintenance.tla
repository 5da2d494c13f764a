--------------------------- MODULE MCMaintenance ---------------------------
(***************************************************************************)
(* The parts that the maintenance task serves, for TLC: pre-keys and       *)
(* scheduled messages.  They share no table; a behaviour is one of one     *)
(* part.                                                                   *)
(***************************************************************************)
EXTENDS PreKeyExchange, Scheduled

CONSTANTS f1, f2, f3, load, worker

ThreeFetchers == {f1, f2, f3}
Checkers == {load, worker}

VARIABLE part

MaintenanceInit == part \in {"prekeys", "schedule"} /\ Init /\ ScheduledInit

MaintenanceNext ==
    \/ part = "prekeys" /\ Next /\ UNCHANGED <<rowVars, part>>
    \/ part = "schedule" /\ ScheduledNext /\ UNCHANGED <<vars, part>>

(* The fairness of each part. *)
MaintenanceFairness ==
    /\ \A k \in Checker :
          WF_vars(part = "prekeys" /\ (CheckPreKeys(k) \/ UploadPreKeys(k)))
    /\ \A i \in Items : WF_rowVars(part = "schedule" /\ TimeComes(i))
    /\ \A r \in Runs : WF_rowVars(part = "schedule" /\ RunStep(r, Text))

MaintenanceSpec ==
    MaintenanceInit /\ [][MaintenanceNext]_<<vars, rowVars, part>> /\ MaintenanceFairness
=============================================================================
