----------------------------- MODULE MCCRDServing -----------------------------
(***************************************************************************)
(* Instances of CRDServing: one definition, of the tenant or shared.       *)
(***************************************************************************)
EXTENDS CRDServing

CONSTANTS crd, v1, r1, r2
===============================================================================
