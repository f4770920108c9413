----------------------- MODULE MCClusterResourceQuota -----------------------
(***************************************************************************)
(* Instances of ClusterResourceQuota: one namespace, whose quotas are      *)
(* ensured without regard to those of others, and four names, so that a    *)
(* stale cache makes duplicates and the next one still has a name.         *)
(***************************************************************************)
EXTENDS ClusterResourceQuota

CONSTANTS n1, q1, q2, q3, q4

=============================================================================
