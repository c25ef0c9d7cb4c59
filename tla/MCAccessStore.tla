--------------------------- MODULE MCAccessStore ----------------------------
(* Small instance of AccessStore: one user in a group, one in none.         *)
EXTENDS AccessStore

MCGroupsOf == [u \in Users |-> IF u = "u1" THEN <<"g1">> ELSE <<>>]
=============================================================================
