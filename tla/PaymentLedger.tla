---------------------------- MODULE PaymentLedger ----------------------------
(***************************************************************************)
(* What the payments module promises about money, with no sweeps, no       *)
(* requests and no stale reads: each payment takes at most one movement of *)
(* money, each movement goes to at most one payment, a debt is paid in the *)
(* same step that credits a payment for it, and what is decided stays so.  *)
(***************************************************************************)
CONSTANTS Payments, Debts, References, None

VARIABLES
  state,  \* how far each payment has come
  owed,   \* the debt each payment is for
  money,  \* the movement of money each payment has taken
  paid    \* the debts that are settled

ledger == <<state, owed, money, paid>>

Decided == {"credited", "mismatched", "closed"}

Free(ref) == \A p \in Payments : money[p] # ref

PayDebt(p) == paid' = paid \cup {owed[p]}

\* A payment is opened for a debt.
Open(p, debt) ==
  /\ state[p] = "none"
  /\ state' = [state EXCEPT ![p] = "open"]
  /\ owed' = [owed EXCEPT ![p] = debt]
  /\ UNCHANGED <<money, paid>>

\* Money that is on no payment is put on an open one, which decides it unless
\* the money still has to confirm.
Take(p, ref, outcome) ==
  /\ state[p] = "open" /\ Free(ref)
  /\ state' = [state EXCEPT ![p] = outcome]
  /\ money' = [money EXCEPT ![p] = ref]
  /\ IF outcome = "credited" THEN PayDebt(p) ELSE UNCHANGED paid
  /\ UNCHANGED owed

\* A person vouches for money that has no reference.
Vouch(p) ==
  /\ state[p] = "open"
  /\ state' = [state EXCEPT ![p] = "credited"]
  /\ PayDebt(p)
  /\ UNCHANGED <<owed, money>>

\* Money that was confirming is final.
Confirm(p) ==
  /\ state[p] = "confirming"
  /\ state' = [state EXCEPT ![p] = "credited"]
  /\ PayDebt(p)
  /\ UNCHANGED <<owed, money>>

\* A payment that took no money is given up.
Close(p) ==
  /\ state[p] = "open"
  /\ state' = [state EXCEPT ![p] = "closed"]
  /\ UNCHANGED <<owed, money, paid>>

Init ==
  /\ state = [p \in Payments |-> "none"]
  /\ owed = [p \in Payments |-> None]
  /\ money = [p \in Payments |-> None]
  /\ paid = {}

Next ==
  \E p \in Payments :
    \/ \E debt \in Debts : Open(p, debt)
    \/ \E ref \in References, outcome \in {"confirming", "credited", "mismatched"} :
         Take(p, ref, outcome)
    \/ Vouch(p) \/ Confirm(p) \/ Close(p)

Spec == Init /\ [][Next]_ledger
=============================================================================
