--------------------------- MODULE MCCRBProjection ---------------------------
(* Instances of CRBProjection for TLC.                                      *)
EXTENDS CRBProjection

CONSTANTS home, web, b1, b2, b3, c1, c2

\* Every verb on one binding; two more can be created, to get past the cap.
OneBusyBinding ==
    [b \in {b1, b2, b3} |-> IF b = b1 THEN AllVerbs ELSE {"create"}]

\* One binding, created and deleted.
Recreated == [b \in {b1} |-> {"create", "delete"}]
=============================================================================
