------------------------------ MODULE MCAccess ------------------------------
(* Instances of Access small enough for TLC: one area, its org-wide scope, *)
(* a built-in administrator role and one an administrator creates.         *)
EXTENDS Access, TLC

CONSTANTS m1, m2, r1, r2, c1, c2

MCArea == ("orders.all" :> "orders")
\* One grid that is sane and one that is not.
MCGrids == {{"orders"}, {"orders.all"}}
MCLocked == [r \in Roles |-> IF r = r1 THEN {"orders"} ELSE {}]
MCBuiltin == (r1 :> "admin")
MCSeeded == (r1 :> Keys)
=============================================================================
