--------------------------- MODULE MCTenantObjects ---------------------------
(***************************************************************************)
(* TenantObjects with two addresses.                                       *)
(***************************************************************************)
EXTENDS TenantObjects
=============================================================================
