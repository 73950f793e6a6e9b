---------------------------- MODULE MCOperations ----------------------------
(***************************************************************************)
(* Instances for TLC of what runs beside the answers: the cleanup under    *)
(* its lock, requests for pictures against it, and what the monitoring and *)
(* the scheduled-tasks page show. A behaviour is about one of them; the    *)
(* variables of the others rest.                                           *)
(***************************************************************************)
EXTENDS CleanupJob, FileVariants, ActivityWatch, MonitorProbes, TLC

VARIABLE stretch

operationsVars == <<stretch, allVars, variantVars, watchVars, probeVars>>

Symmetry == Permutations(Schedulers) \cup Permutations(Files)

OperationsInit ==
    /\ stretch \in {"cleanup", "pictures", "watch", "probes"}
    /\ CleanupInit /\ VariantInit /\ WatchInit /\ ProbeInit

OperationsNext ==
    \/ stretch = "cleanup"  /\ CleanupNext /\ UNCHANGED <<stretch, variantVars, watchVars, probeVars>>
    \/ stretch = "pictures" /\ VariantNext /\ UNCHANGED <<stretch, allVars, watchVars, probeVars>>
    \/ stretch = "watch"    /\ WatchNext   /\ UNCHANGED <<stretch, allVars, variantVars, probeVars>>
    \/ stretch = "probes"   /\ ProbeNext   /\ UNCHANGED <<stretch, allVars, variantVars, watchVars>>

OperationsSpec == OperationsInit /\ [][OperationsNext]_operationsVars
=============================================================================
