------------------------------- MODULE MCTrash -------------------------------
(* An instance of Trash small enough for TLC: a customer, a payment of theirs *)
(* and the bank account it was collected through.                             *)
EXTENDS Trash, TLC

CONSTANTS cu, pa, ba, c1, sw

MCKind == cu :> "customer" @@ pa :> "payment" @@ ba :> "bank-account"
MCOwners == cu :> {} @@ pa :> {cu, ba} @@ ba :> {}
=============================================================================
