----------------------------- MODULE MCResources -----------------------------
(* A small instance of Resources: one deployment and one pod.              *)
EXTENDS Resources

MCBatches == {<<"web", "pod">>}
=============================================================================
