--------------------------- MODULE OrderPipeline ----------------------------
(***************************************************************************)
(* One order and everyone who moves it: a reviewer's updateOrder           *)
(* (admin/orders), a quote sent or withdrawn (admin/quotes), a payment     *)
(* credited (payments: creditQuote), and replies on the order's thread     *)
(* that claim it (conversations).  All but updateOrder go through          *)
(* advanceOrderStatus or write the row by id.                              *)
(*                                                                         *)
(* A caller is one request, or one credit of the payment sweep, at a time; *)
(* each of its steps is a round trip to the database.  A transaction is    *)
(* the reads it decides on, a step each, and its commit.  The order's      *)
(* lines are those of the module Delivery.                                 *)
(***************************************************************************)
EXTENDS Delivery

CONSTANTS
  Keys,     \* Idempotency-Keys; a quote is named by the one it was sent under
  Staff,    \* staff members
  Customer, \* the order's customer
  Nobody,   \* SQL null in assigneeId
  NoKey,
  Callers,  \* concurrent requests
  Admins,   \* those of them an administrator makes
  Resends   \* bound: whether requests send fields they do not change

ASSUME PipelineAssumption ==
  /\ Nobody \notin Staff /\ Customer \notin Staff /\ Customer # Nobody
  /\ NoKey \notin Keys
  /\ Admins \subseteq Callers
  /\ Resends \in BOOLEAN

VARIABLES
  order,  \* Order.status and Order.assigneeId
  thread, \* the order's Conversation: whether it exists, and its assigneeId
  quotes, \* the order's quotes
  calls   \* the requests in flight

orderVars == <<order, thread, quotes, calls>>
vars == <<items, records, jobs, order, thread, quotes, calls>>

OrderStatus ==
  {"DRAFT", "SUBMITTED", "UNDER_REVIEW", "MISSING_INFO", "APPROVED", "PAID",
   "PROCESSING", "COMPLETED"}

Rank(s) ==
  CASE s = "DRAFT" -> 0
    [] s = "SUBMITTED" -> 1
    [] s \in {"UNDER_REVIEW", "MISSING_INFO"} -> 2
    [] s = "APPROVED" -> 3
    [] s = "PAID" -> 4
    [] s = "PROCESSING" -> 5
    [] OTHER -> 6

\* ORDER_STATUS_TRANSITIONS
Transitions ==
  {<<"DRAFT", "SUBMITTED">>, <<"SUBMITTED", "UNDER_REVIEW">>,
   <<"UNDER_REVIEW", "MISSING_INFO">>, <<"UNDER_REVIEW", "APPROVED">>,
   <<"MISSING_INFO", "UNDER_REVIEW">>, <<"APPROVED", "PAID">>,
   <<"PAID", "PROCESSING">>, <<"PROCESSING", "COMPLETED">>}

\* allowedNextStatuses: an admin may set any status.
Allowed(c, from, to) == from # to /\ (c \in Admins \/ <<from, to>> \in Transitions)

\* `due` while a payment is open against the quote; `live` until validUntil.
Quote ==
  [status : {"NONE", "PENDING", "PAID", "CANCELLED"}, live : BOOLEAN, due : BOOLEAN]

Owner == Staff \cup {Nobody}

\* What a request has read so far, and what it is to write.
Call ==
  [pc : {"idle", "outstanding", "pricing", "sending", "cancelling", "crediting",
         "gating", "moving", "locating", "creating", "replying"},
   key : Keys \cup {NoKey}, seen : OrderStatus, next : OrderStatus,
   owner : Owner, heir : Owner, holder : Owner, sends : SUBSET {"status", "owner"},
   actor : Staff \cup {Customer}, posts : BOOLEAN]

NoCall ==
  [pc |-> "idle", key |-> NoKey, seen |-> "DRAFT", next |-> "DRAFT",
   owner |-> Nobody, heir |-> Nobody, holder |-> Nobody, sends |-> {},
   actor |-> Customer, posts |-> FALSE]

Live(k) == quotes[k].status = "PENDING" /\ quotes[k].live
Priced == \E k \in Keys : quotes[k].status # "NONE"

\* advanceOrderStatus, with the status its read returned: a target at or behind
\* that is a no-op, any other is written by id.
Advanced(seen, target) ==
  IF Rank(seen) >= Rank(target) THEN order ELSE [order EXCEPT !.status = target]

Hangup(c) == calls' = [calls EXCEPT ![c] = NoCall]

-----------------------------------------------------------------------------
(* createQuote *)

\* A key that has been spent answers with its quote and changes nothing.
BeginQuote(c, k) ==
  /\ calls[c].pc = "idle"
  /\ quotes[k].status = "NONE"
  /\ calls' = [calls EXCEPT ![c] = [NoCall EXCEPT !.pc = "outstanding", !.key = k]]
  /\ UNCHANGED <<order, thread, quotes>>

\* One live quote at a time, or a 409.
CheckOutstanding(c) ==
  /\ calls[c].pc = "outstanding"
  /\ IF \E k \in Keys : Live(k)
     THEN Hangup(c)
     ELSE calls' = [calls EXCEPT ![c].pc = "pricing"]
  /\ UNCHANGED <<order, thread, quotes>>

\* The insert meets the unique key: behind an open transaction it waits, after
\* a committed one the request answers with the winner's quote.  Then the read
\* of advanceOrderStatus.
PriceQuote(c) ==
  LET k == calls[c].key IN
  /\ calls[c].pc = "pricing"
  /\ ~\E d \in Callers : calls[d].pc = "sending" /\ calls[d].key = k
  /\ IF quotes[k].status # "NONE"
     THEN Hangup(c)
     ELSE calls' = [calls EXCEPT ![c].pc = "sending", ![c].seen = order.status]
  /\ UNCHANGED <<order, thread, quotes>>

SendQuote(c) ==
  LET k == calls[c].key IN
  /\ calls[c].pc = "sending"
  /\ quotes' = [quotes EXCEPT ![k] = [status |-> "PENDING", live |-> TRUE, due |-> FALSE]]
  /\ order' = Advanced(calls[c].seen, "APPROVED")
  /\ Hangup(c)
  /\ UNCHANGED thread

-----------------------------------------------------------------------------
(* cancelQuote *)

\* A paid quote is refused and a cancelled one left as it is.
BeginCancel(c, k) ==
  /\ calls[c].pc = "idle"
  /\ quotes[k].status = "PENDING"
  /\ calls' = [calls EXCEPT ![c] = [NoCall EXCEPT !.pc = "cancelling", !.key = k]]
  /\ UNCHANGED <<order, thread, quotes>>

\* The update is by id; it waits for a credit that holds the row.
CommitCancel(c) ==
  /\ calls[c].pc = "cancelling"
  /\ ~\E d \in Callers : calls[d].pc = "crediting" /\ calls[d].key = calls[c].key
  /\ quotes' = [quotes EXCEPT ![calls[c].key].status = "CANCELLED"]
  /\ Hangup(c)
  /\ UNCHANGED <<order, thread>>

-----------------------------------------------------------------------------
(* Payments, as this order sees them; the module Payments has their detail *)

\* createIntent: a payment is opened against an offer that stands.
OpenPayment(k) ==
  /\ Live(k)
  /\ ~quotes[k].due
  /\ quotes' = [quotes EXCEPT ![k].due = TRUE]
  /\ UNCHANGED <<order, thread, calls>>

\* A credit, in the payment's transaction: the quote's update, whose row lock
\* it keeps, and the read of advanceOrderStatus.
BeginCredit(c, k) ==
  /\ calls[c].pc = "idle"
  /\ quotes[k].due
  /\ ~\E d \in Callers : calls[d].pc = "crediting" /\ calls[d].key = k
  /\ calls' = [calls EXCEPT ![c] =
       [NoCall EXCEPT !.pc = "crediting", !.key = k, !.seen = order.status]]
  /\ UNCHANGED <<order, thread, quotes>>

\* Mutant: the order is left for the reviewer.
CommitBareCredit(c) ==
  /\ calls[c].pc = "crediting"
  /\ quotes' = [quotes EXCEPT ![calls[c].key].status = "PAID", ![calls[c].key].due = FALSE]
  /\ Hangup(c)
  /\ UNCHANGED <<order, thread>>

CommitCredit(c) ==
  /\ calls[c].pc = "crediting"
  /\ quotes' = [quotes EXCEPT ![calls[c].key].status = "PAID", ![calls[c].key].due = FALSE]
  /\ order' = Advanced(calls[c].seen, "PAID")
  /\ Hangup(c)
  /\ UNCHANGED thread

\* validUntil passes.
Lapse(k) ==
  /\ Live(k)
  /\ quotes' = [quotes EXCEPT ![k].live = FALSE]
  /\ UNCHANGED <<order, thread, calls>>

-----------------------------------------------------------------------------
(* updateOrder *)

\* The row as read, and the transition it allows.  A field equal to the one
\* read is no change, whether the request sent it or not.
BeginMove(c, next, heir) ==
  LET changes == {f \in {"status", "owner"} :
                    IF f = "status" THEN next # order.status ELSE heir # order.owner}
  IN
  /\ calls[c].pc = "idle"
  /\ "status" \in changes => Allowed(c, order.status, next)
  /\ \E sends \in (SUBSET {"status", "owner"}) \ {{}} :
       /\ IF Resends THEN changes \subseteq sends ELSE changes = sends
       /\ calls' = [calls EXCEPT ![c] =
            [NoCall EXCEPT !.pc = IF "status" \in changes /\ next \in {"APPROVED", "COMPLETED"}
                                  THEN "gating" ELSE "moving",
                           !.seen = order.status, !.next = next,
                           !.owner = order.owner, !.heir = heir, !.sends = sends]]
  /\ UNCHANGED <<order, thread, quotes>>

\* Mutant: an order may be approved unpriced.
GateOnItems(c) ==
  /\ calls[c].pc = "gating"
  /\ IF calls[c].next = "APPROVED" \/ \A i \in Items : items[i] = "COMPLETED"
     THEN calls' = [calls EXCEPT ![c].pc = "moving"]
     ELSE Hangup(c)
  /\ UNCHANGED <<order, thread, quotes>>

\* No approval without a quote, no completion with a line still open; a 422
\* otherwise.
GateMove(c) ==
  /\ calls[c].pc = "gating"
  /\ IF \/ calls[c].next = "APPROVED" /\ Priced
        \/ calls[c].next = "COMPLETED" /\ \A i \in Items : items[i] = "COMPLETED"
     THEN calls' = [calls EXCEPT ![c].pc = "moving"]
     ELSE Hangup(c)
  /\ UNCHANGED <<order, thread, quotes>>

StatusChanged(c) == calls[c].next # calls[c].seen
OwnerChanged(c) == calls[c].heir # calls[c].owner

\* syncAssignee
Synced(c) ==
  IF OwnerChanged(c) /\ thread.exists THEN [thread EXCEPT !.owner = calls[c].heir] ELSE thread

\* The fields the request sent, those it does not change included.
Moved(c) ==
  [status |-> IF "status" \in calls[c].sends THEN calls[c].next ELSE order.status,
   owner |-> IF "owner" \in calls[c].sends THEN calls[c].heir ELSE order.owner]

\* Mutant: a plain update by id.
MoveById(c) ==
  /\ calls[c].pc = "moving"
  /\ order' = Moved(c)
  /\ thread' = Synced(c)
  /\ Hangup(c)
  /\ UNCHANGED quotes

\* Compare-and-set on the fields the request changes; the loser gets a 409.
CommitMove(c) ==
  /\ calls[c].pc = "moving"
  /\ IF /\ StatusChanged(c) => order.status = calls[c].seen
        /\ OwnerChanged(c) => order.owner = calls[c].owner
     THEN order' = Moved(c) /\ thread' = Synced(c)
     ELSE UNCHANGED <<order, thread>>
  /\ Hangup(c)
  /\ UNCHANGED quotes

-----------------------------------------------------------------------------
(* getOrderConversation and sendMessage *)

\* The order as read: a member may answer for it who holds it, or an admin, or
\* any while nobody does; a customer may post once somebody does.
BeginTalk(c, who, posts) ==
  /\ calls[c].pc = "idle"
  /\ IF who = Customer
     THEN posts => order.owner # Nobody
     ELSE c \in Admins \/ order.owner \in {Nobody, who}
  /\ calls' = [calls EXCEPT ![c] =
       [NoCall EXCEPT !.pc = "locating", !.owner = order.owner,
                      !.actor = who, !.posts = posts]]
  /\ UNCHANGED <<order, thread, quotes>>

\* The thread found: a read is over, a message knows who holds the thread.
Located(c) ==
  IF calls[c].posts
  THEN calls' = [calls EXCEPT ![c].pc = "replying", ![c].holder = thread'.owner]
  ELSE Hangup(c)

LocateThread(c) ==
  /\ calls[c].pc = "locating"
  /\ UNCHANGED <<order, thread, quotes>>
  /\ IF thread.exists THEN Located(c) ELSE calls' = [calls EXCEPT ![c].pc = "creating"]

\* Created with the assignee the order had when it was read; the loser of the
\* race reads the winner's row.
CreateThread(c) ==
  /\ calls[c].pc = "creating"
  /\ thread' = IF thread.exists THEN thread ELSE [exists |-> TRUE, owner |-> calls[c].owner]
  /\ Located(c)
  /\ UNCHANGED <<order, quotes>>

\* A staff reply claims the order and the thread, each if it was read unclaimed.
CommitReply(c) ==
  LET claims == calls[c].actor # Customer IN
  /\ calls[c].pc = "replying"
  /\ thread' = IF claims /\ calls[c].holder = Nobody
               THEN [thread EXCEPT !.owner = calls[c].actor] ELSE thread
  /\ order' = IF claims /\ calls[c].owner = Nobody
              THEN [order EXCEPT !.owner = calls[c].actor] ELSE order
  /\ Hangup(c)
  /\ UNCHANGED quotes

-----------------------------------------------------------------------------
Init ==
  /\ DeliveryInit
  /\ order = [status |-> "SUBMITTED", owner |-> Nobody]
  /\ thread = [exists |-> FALSE, owner |-> Nobody]
  /\ quotes = [k \in Keys |-> [status |-> "NONE", live |-> FALSE, due |-> FALSE]]
  /\ calls = [c \in Callers |-> NoCall]

QuoteStep(c) ==
  \/ CheckOutstanding(c)
  \/ PriceQuote(c)
  \/ SendQuote(c)
  \/ CommitCancel(c)
  \/ CommitCredit(c)
  \/ \E k \in Keys : BeginQuote(c, k) \/ BeginCancel(c, k) \/ BeginCredit(c, k)

MoveStep(c) ==
  \/ GateMove(c)
  \/ CommitMove(c)
  \/ \E next \in OrderStatus, heir \in Owner : BeginMove(c, next, heir)

TalkStep(c) ==
  \/ LocateThread(c)
  \/ CreateThread(c)
  \/ CommitReply(c)
  \/ \E who \in Staff \cup {Customer}, posts \in BOOLEAN : BeginTalk(c, who, posts)

OrderNext ==
  \/ \E c \in Callers : QuoteStep(c) \/ MoveStep(c) \/ TalkStep(c)
  \/ \E k \in Keys : OpenPayment(k) \/ Lapse(k)

Next ==
  \/ OrderNext /\ UNCHANGED deliveryVars
  \/ DeliveryNext /\ UNCHANGED orderVars

Spec == Init /\ [][Next]_vars

-----------------------------------------------------------------------------
(* Properties *)

OrderTypeOK ==
  /\ order \in [status : OrderStatus, owner : Owner]
  /\ thread \in [exists : BOOLEAN, owner : Owner]
  /\ quotes \in [Keys -> Quote]
  /\ calls \in [Callers -> Call]

\* Rows and requests have the types of their columns.
TypeOK == DeliveryTypeOK /\ OrderTypeOK

\* An approved order has been priced: the customer never reads "accepted" with
\* no bill to pay, whichever of the quote and the manual control approved it.
ApprovedIsPriced == order.status = "APPROVED" => Priced

\* A change a reviewer's request makes is the one it was checked for: the
\* status moves along the pipeline (or by an admin) from where the order stands,
\* and the order leaves only the hands it was seen in, though several round
\* trips lie between the read and the write.
MovesAreChecked ==
  [][\A c \in Callers : calls[c].pc = "moving" /\ calls'[c].pc = "idle" =>
       /\ StatusChanged(c) /\ order'.status # order.status =>
            Allowed(c, order.status, order'.status)
       /\ OwnerChanged(c) /\ order'.owner # order.owner => order.owner = calls[c].owner
    ]_vars

\* With one quote, no admin about and no field sent again, a paid quote's order
\* never reads as still to be paid, however reviewer, credit and withdrawal
\* interleave.
PaidQuoteMovedOrder ==
  \A k \in Keys : quotes[k].status = "PAID" => Rank(order.status) >= Rank("PAID")

\* A paid quote can never be cancelled.
PaidQuoteStaysPaid ==
  [][\A k \in Keys : quotes[k].status = "PAID" => quotes'[k].status = "PAID"]_vars

\* What a request in flight knows: a quote's request names a quote; one about to
\* change the status was allowed to, from the status it saw; one about to approve
\* has seen a quote.
CallIsChecked(c) ==
  /\ calls[c].pc \in {"outstanding", "pricing", "sending", "cancelling", "crediting"} =>
       calls[c].key \in Keys
  /\ calls[c].pc \in {"gating", "moving"} /\ StatusChanged(c) =>
       Allowed(c, calls[c].seen, calls[c].next)
  /\ calls[c].pc = "moving" /\ calls[c].next = "APPROVED" => Priced

\* The inductive invariant.
OrderInv ==
  /\ OrderTypeOK
  /\ ApprovedIsPriced
  /\ \A c \in Callers : CallIsChecked(c)
=============================================================================
