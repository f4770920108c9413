---------------------------- MODULE MCTenantList ----------------------------
(* Instances of TenantList for TLC.                                         *)
EXTENDS TenantList

\* Two namespaces to begin with; a third may be created between them.
TwoSpaces == [spaces |-> {1, 3}, objects |-> {<<1, 1>>, <<1, 2>>, <<1, 3>>, <<3, 1>>}]

\* Another tenant's object between two of the tenant's.
ForeignBetween == [spaces |-> {}, objects |-> {<<0, 1>>, <<0, 2>>, <<0, 3>>}]

Both == [f \in BOOLEAN |-> IF f THEN TwoSpaces ELSE ForeignBetween]
=============================================================================
