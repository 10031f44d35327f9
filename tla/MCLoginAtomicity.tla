--------------------------- MODULE MCLoginAtomicity ---------------------------
(* A small instance of LoginAtomicity: two accounts, three logins of which    *)
(* two are of the same account.                                               *)
EXTENDS LoginAtomicity

CONSTANTS l1, l2, l3, a1, a2

TwoOnOneAccount == [l \in Logins |-> IF l = l3 THEN a2 ELSE a1]
=============================================================================
