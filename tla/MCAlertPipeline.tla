-------------------------- MODULE MCAlertPipeline --------------------------
(* AlertPipeline for TLC: every alert is about the one workload; ids and     *)
(* incidents are interchangeable.                                            *)
EXTENDS AlertPipeline, TLC

CONSTANT Workload

MCWorkloadOf == [a \in Alerts |-> Workload]

Symmetry == Permutations(Ids) \cup Permutations(Incidents)
=============================================================================
