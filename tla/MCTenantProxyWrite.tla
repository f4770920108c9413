------------------------- MODULE MCTenantProxyWrite -------------------------
(***************************************************************************)
(* Instances of TenantProxyWrite: two clients writing up to two objects of *)
(* two keys under a cap of one.                                            *)
(***************************************************************************)
EXTENDS TenantProxyWrite

CONSTANTS n1, n2, spec, labels, c1, c2
=============================================================================
