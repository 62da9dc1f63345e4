-------------------------- MODULE MCClusterService --------------------------
(* Instances of ClusterService for TLC.                                    *)
EXTENDS ClusterService, TLC

CONSTANTS r1, r2, c1, c2

\* Replicas may be exchanged, and names may.
Symmetry == Permutations(Replicas) \cup Permutations(Names)
=============================================================================
