------------------------ MODULE MCOperationManager ------------------------
(* Instances of OperationManager for TLC.                                  *)
EXTENDS OperationManager, TLC

CONSTANTS m1, m2

\* During a rolling update the old replica has no executor for AI changes.
OldAndNewReplica == [m \in Managers |-> IF m = m2 THEN {"helm_release"} ELSE Kinds]
EqualReplicas    == [m \in Managers |-> Kinds]

\* Equal replicas may be exchanged.
ReplicaSymmetry == Permutations(Managers)
=============================================================================
