------------------------------ MODULE Payments ------------------------------
(***************************************************************************)
(* Collecting a quote's money: backend/src/modules/payments and the        *)
(* reconciliation sweep of backend/src/jobs/processors.                    *)
(*                                                                         *)
(* A customer opens a payment window on a quote (createIntent), the window *)
(* waits for a USDT transfer of one exact amount or for a bank transfer,   *)
(* and it ends credited, mismatched, expired, cancelled or rejected.       *)
(* Every handler runs as the sequence of database round trips it makes:    *)
(* what it read in one step may be stale in the next.  A transaction whose *)
(* first write takes the row lock is one step from that write on.          *)
(*                                                                         *)
(* One clock tick is one Tron block.  Amounts are raw token units.         *)
(***************************************************************************)
EXTENDS Naturals, FiniteSets

CONSTANTS
  Quotes,        \* quotes sent to customers
  Owner,         \* the customer each quote belongs to
  Total,         \* each quote's total, converted to raw USDT at the locked rate
  InitialOrder,  \* each quote's order status when the quote was sent
  Methods,       \* payment methods switched on (usdtEnabled, wireEnabled)
  Keys,          \* Idempotency-Key values
  Requests,      \* in-flight POST /payments requests
  Staff,         \* people holding payments.settle
  Workers,       \* concurrent runs of the sweep
  Hashes,        \* Tron transaction hashes
  References,    \* what a settler may paste as the provider's reference
  Addresses,     \* deposit addresses
  Amounts,       \* raw amounts a transfer may carry
  Depths,        \* values of tronMinConfirmations
  Ttl,           \* usdtRateTtlMinutes, in ticks
  ValidUntil,    \* when the quotes stop being payable
  MaxNudges,     \* MAX_AMOUNT_NUDGES
  MaxTime,       \* bound: the last tick
  MaxChanges,    \* bound: settings updates
  MaxCrashes,    \* bound: sweeps that die half way
  None           \* SQL null

PaymentId == 1..Cardinality(Requests)

OrderStatus == {"SUBMITTED", "UNDER_REVIEW", "MISSING_INFO", "APPROVED",
                "PAID", "PROCESSING", "COMPLETED"}

ASSUME ConstantsAssumption ==
  /\ IsFiniteSet(Requests)
  /\ Total \in [Quotes -> Nat \ {0}]
  /\ InitialOrder \in [Quotes -> OrderStatus \cup {None}]
  /\ Methods \subseteq {"USDT", "WIRE"}
  /\ Hashes \subseteq References
  /\ Amounts \subseteq Nat
  /\ Depths \subseteq Nat \ {0} /\ Depths # {}
  /\ Ttl \in Nat \ {0}
  /\ MaxNudges \in Nat \ {0}
  /\ MaxTime \in Nat /\ MaxChanges \in Nat /\ MaxCrashes \in Nat
  /\ ValidUntil \in Nat
  /\ None \notin Quotes \cup Keys \cup References \cup Addresses \cup OrderStatus
  /\ None \notin PaymentId

VARIABLES
  clock,      \* the current block time
  settings,   \* the PaymentSettings row: deposit address, autoVerify, depth
  changes,    \* settings updates made so far
  quote,      \* Quote.status
  order,      \* Order.status of the order the quote belongs to
  pay,        \* the Payment table, rows numbered in createdAt order
  chain,      \* USDT transfers on the chain
  unmatched,  \* the UnmatchedTransfer table
  req,        \* state of each createIntent call
  staff,      \* state of each manual settlement or rejection
  sweep,      \* state of each run of pollUsdtTransfers
  crashes,    \* sweeps that have died so far
  credits,    \* history: times creditQuote ran for a payment
  handled     \* history: hashes settleTransfer has answered for

vars == <<clock, settings, changes, quote, order, pay, chain, unmatched, req,
          staff, sweep, crashes, credits, handled>>

PaymentStatus == {"PENDING", "PROCESSING", "SUCCEEDED", "FAILED", "CANCELLED",
                  "UNDERPAID", "OVERPAID"}

OpenStatuses == {"PENDING"}
LiveStatuses == OpenStatuses \cup {"PROCESSING"}

Payment ==
  [status : PaymentStatus \cup {"NONE"}, quote : Quotes \cup {None},
   provider : {"USDT", "WIRE"}, key : Keys \cup {None},
   addr : Addresses \cup {None}, expected : Nat, expires : Nat, depth : Nat,
   ref : References \cup {None}, confirmations : Nat, byHand : BOOLEAN,
   sent : BOOLEAN]

NoRow ==
  [status |-> "NONE", quote |-> None, provider |-> "WIRE", key |-> None,
   addr |-> None, expected |-> 0, expires |-> 0, depth |-> 0,
   ref |-> None, confirmations |-> 0, byHand |-> FALSE, sent |-> FALSE]

Request ==
  [pc : {"new", "readQuote", "readLive", "readSettings", "insert",
         "readTaken", "probe", "done"},
   quote : Quotes \cup {None}, provider : {"USDT", "WIRE"},
   key : Keys \cup {None}, now : Nat, addr : Addresses \cup {None},
   depth : Nat, nudge : Nat, taken : SUBSET Nat,
   reply : PaymentId \cup {None}]

NewRequest ==
  [pc |-> "new", quote |-> None, provider |-> "USDT", key |-> None, now |-> 0,
   addr |-> None, depth |-> 0, nudge |-> 0, taken |-> {}, reply |-> None]

StaffCall ==
  [op : {"idle", "settle", "reject"}, payment : PaymentId \cup {None},
   ref : References \cup {None}]

NoCall == [op |-> "idle", payment |-> None, ref |-> None]

Sweep ==
  [pc : {"idle", "fetch", "transfers", "match", "claim", "record",
         "confirming", "stale"},
   now : Nat, addr : Addresses \cup {None}, todo : SUBSET Hashes, hash : Hashes \cup {None},
   pick : PaymentId \cup {None}, rows : SUBSET PaymentId]

NoSweep ==
  [pc |-> "idle", now |-> 0, addr |-> None, todo |-> {}, hash |-> None,
   pick |-> None, rows |-> {}]

Settings == [addr : Addresses \cup {None}, autoVerify : BOOLEAN, depth : Depths]

\* A transfer on the chain; `None` in `to` while it has not been made.
Transfer == [to : Addresses \cup {None}, amount : Nat, at : Nat]
NoTransfer == [to |-> None, amount |-> 0, at |-> 0]

-----------------------------------------------------------------------------
(* Reading the tables *)

Rows == {p \in PaymentId : pay[p].status # "NONE"}

OnChain(h) == chain[h].to # None

\* The unique index on providerRef: some row carries this reference.
Claimed(ref) == \E p \in PaymentId : pay[p].ref = ref

\* The same index, met by a write to row p.
ClaimedByOther(p, ref) == \E o \in PaymentId \ {p} : pay[o].ref = ref

\* The unique index on idempotencyKey.
KeyUsed(k) == \E p \in PaymentId : pay[p].key = k

\* The partial unique index on (depositAddress, usdtExpectedRaw) over live rows.
AmountWatched(a, amount) ==
  \E p \in PaymentId : /\ pay[p].provider = "USDT"
                       /\ pay[p].status \in LiveStatuses
                       /\ pay[p].addr = a /\ pay[p].expected = amount

\* resumableWhere: confirming, or open with a window that has not closed.
Resumable(p, q, now) ==
  /\ pay[p].quote = q
  /\ \/ pay[p].status = "PROCESSING"
     \/ /\ pay[p].status \in OpenStatuses
        /\ \/ pay[p].provider = "WIRE"
           \/ pay[p].expires > now

\* Mutant: depth is one block behind.
LaggingConfirmations(now, at) == IF now > at THEN (now - at) - 1 ELSE 0

Confirmations(now, at) == IF now > at THEN now - at ELSE 0

\* Mutant: the window's last instant never counts as closed.
StaleStrictly(p, now) ==
  /\ pay[p].provider = "USDT" /\ pay[p].status \in OpenStatuses
  /\ pay[p].ref = None
  /\ pay[p].expires < now

\* An open window that has passed with no transfer on it.
Stale(p, now) ==
  /\ pay[p].provider = "USDT" /\ pay[p].status \in OpenStatuses
  /\ pay[p].ref = None
  /\ pay[p].expires <= now

\* The live payments watching the address a transfer was sent to.
Candidates(h) ==
  {p \in PaymentId : /\ pay[p].provider = "USDT"
                     /\ pay[p].status \in LiveStatuses
                     /\ pay[p].addr = chain[h].to}

Distance(p, h) ==
  IF chain[h].amount > pay[p].expected THEN chain[h].amount - pay[p].expected
                                       ELSE pay[p].expected - chain[h].amount

\* nearestCandidate's integer 10% band.
InBand(p, h) == /\ pay[p].expected # 0
                /\ 10 * Distance(p, h) <= pay[p].expected

\* The payment a transfer is attributed to: the exact amount, else the closest
\* in the band; the earlier row wins a tie.
BestCandidate(h) ==
  {p \in Candidates(h) :
     /\ InBand(p, h)
     /\ \A o \in Candidates(h) :
          InBand(o, h) => \/ Distance(p, h) < Distance(o, h)
                          \/ Distance(p, h) = Distance(o, h) /\ p <= o}

\* Mutant: the rate lock is not re-checked.
SettledIgnoringRate(p, h, now) ==
  CASE chain[h].amount < pay[p].expected -> "UNDERPAID"
    [] chain[h].amount > pay[p].expected -> "OVERPAID"
    [] chain[h].amount = pay[p].expected ->
         IF Confirmations(now, chain[h].at) < pay[p].depth
           THEN "PROCESSING" ELSE "SUCCEEDED"

\* What a claimed transfer makes of the payment.
SettledStatus(p, h, now) ==
  CASE chain[h].amount < pay[p].expected -> "UNDERPAID"
    [] chain[h].amount > pay[p].expected -> "OVERPAID"
    [] chain[h].amount = pay[p].expected /\ chain[h].at > pay[p].expires
         -> "UNDERPAID"
    [] chain[h].amount = pay[p].expected /\ chain[h].at <= pay[p].expires
         -> IF Confirmations(now, chain[h].at) < pay[p].depth
              THEN "PROCESSING" ELSE "SUCCEEDED"

-----------------------------------------------------------------------------
(* Crediting *)

OrderRank(s) ==
  CASE s = "SUBMITTED" -> 1 [] s \in {"UNDER_REVIEW", "MISSING_INFO"} -> 2
    [] s = "APPROVED" -> 3 [] s = "PAID" -> 4
    [] s = "PROCESSING" -> 5 [] s = "COMPLETED" -> 6

\* advanceOrderStatus(order, PAID): only ever forward.
AdvancedToPaid(s) ==
  IF s # None /\ OrderRank(s) < OrderRank("PAID") THEN "PAID" ELSE s

\* Mutant: the order and the history move, the quote does not.
CreditOrderOnly(p) ==
  /\ quote' = quote
  /\ order' = [order EXCEPT ![pay[p].quote] = AdvancedToPaid(@)]
  /\ credits' = [credits EXCEPT ![p] = IF @ < 2 THEN @ + 1 ELSE @]

\* creditQuote, inside the transaction that settles payment p.
CreditQuote(p) ==
  /\ quote' = [quote EXCEPT ![pay[p].quote] = "PAID"]
  /\ order' = [order EXCEPT ![pay[p].quote] = AdvancedToPaid(@)]
  /\ credits' = [credits EXCEPT ![p] = IF @ < 2 THEN @ + 1 ELSE @]

NoCredit == UNCHANGED <<quote, order, credits>>

-----------------------------------------------------------------------------
(* createIntent, one action per round trip *)

Answer(r, reply) ==
  req' = [req EXCEPT ![r] = [NewRequest EXCEPT !.pc = "done",
                                               !.key = req[r].key,
                                               !.quote = req[r].quote,
                                               !.reply = reply]]

\* The call arrives and looks its Idempotency-Key up.
BeginIntent(r, k, q, method) ==
  /\ req[r].pc = "new"
  /\ LET used == {p \in PaymentId : pay[p].key = k} IN
       req' = [req EXCEPT ![r] =
                 IF used = {}
                   THEN [@ EXCEPT !.pc = "readQuote", !.key = k, !.quote = q,
                                  !.provider = method]
                   ELSE [@ EXCEPT !.pc = "done", !.key = k, !.quote = q,
                           !.reply =
                             LET p == CHOOSE p \in used : TRUE IN
                               IF Owner[pay[p].quote] = Owner[q]
                                 THEN p ELSE None]]
  /\ UNCHANGED <<clock, settings, changes, quote, order, pay, chain, unmatched,
                 staff, sweep, crashes, credits, handled>>

\* The quote must still be payable.
ReadQuote(r) ==
  /\ req[r].pc = "readQuote"
  /\ IF quote[req[r].quote] = "PENDING" /\ clock < ValidUntil
       THEN req' = [req EXCEPT ![r].pc = "readLive", ![r].now = clock]
       ELSE Answer(r, None)
  /\ UNCHANGED <<clock, settings, changes, quote, order, pay, chain, unmatched,
                 staff, sweep, crashes, credits, handled>>

\* A live payment on the quote is handed back instead of opening a second one.
ReadLive(r) ==
  /\ req[r].pc = "readLive"
  /\ LET live == {p \in PaymentId : Resumable(p, req[r].quote, req[r].now)} IN
       IF live # {}
         THEN \E p \in live : (\A o \in live : o <= p) /\ Answer(r, p)
         ELSE req' = [req EXCEPT ![r].pc = IF req[r].provider = "USDT"
                                            THEN "readSettings" ELSE "insert"]
  /\ UNCHANGED <<clock, settings, changes, quote, order, pay, chain, unmatched,
                 staff, sweep, crashes, credits, handled>>

\* The address and the depth are locked from the settings read here.
ReadSettings(r) ==
  /\ req[r].pc = "readSettings"
  /\ IF settings.addr = None
       THEN Answer(r, None)
       ELSE req' = [req EXCEPT ![r].pc = "insert", ![r].addr = settings.addr,
                               ![r].depth = settings.depth]
  /\ UNCHANGED <<clock, settings, changes, quote, order, pay, chain, unmatched,
                 staff, sweep, crashes, credits, handled>>

\* Mutant: the row is not tied to its quote.
NewDetachedRow(r, amount) ==
  [NoRow EXCEPT !.status = "PENDING", !.provider = "USDT", !.key = req[r].key,
                !.addr = req[r].addr, !.expected = amount,
                !.expires = req[r].now + Ttl, !.depth = req[r].depth]

NewUsdtRow(r, amount) ==
  [NoRow EXCEPT !.status = "PENDING", !.quote = req[r].quote,
                !.provider = "USDT", !.key = req[r].key, !.addr = req[r].addr,
                !.expected = amount, !.expires = req[r].now + Ttl,
                !.depth = req[r].depth]

NewWireRow(r) ==
  [NoRow EXCEPT !.status = "PENDING", !.quote = req[r].quote,
                !.provider = "WIRE", !.key = req[r].key]

\* payment.create: the row goes after the rows there are.
InsertRow(r, row) ==
  \E p \in PaymentId :
    /\ pay[p].status = "NONE"
    /\ \A o \in PaymentId : o < p => pay[o].status # "NONE"
    /\ pay' = [pay EXCEPT ![p] = row]
    /\ Answer(r, p)

\* createWireIntent's insert; a key that was taken meanwhile is an error.
InsertWire(r) ==
  /\ req[r].pc = "insert" /\ req[r].provider = "WIRE"
  /\ IF KeyUsed(req[r].key)
       THEN Answer(r, None) /\ UNCHANGED pay
       ELSE InsertRow(r, NewWireRow(r))
  /\ UNCHANGED <<clock, settings, changes, quote, order, chain, unmatched,
                 staff, sweep, crashes, credits, handled>>

\* Mutant: the amounts read earlier are trusted, with no index behind them.
InsertTrustsRead(r, amount) == KeyUsed(req[r].key)

\* Any unique violation counts as a collision on the amount.
InsertFails(r, amount) ==
  KeyUsed(req[r].key) \/ AmountWatched(req[r].addr, amount)

\* createWithUniqueAmount's first try, at the amount owed.
InsertBase(r) ==
  /\ req[r].pc = "insert" /\ req[r].provider = "USDT"
  /\ IF InsertFails(r, Total[req[r].quote])
       THEN req' = [req EXCEPT ![r].pc = "readTaken"] /\ UNCHANGED pay
       ELSE InsertRow(r, NewUsdtRow(r, Total[req[r].quote]))
  /\ UNCHANGED <<clock, settings, changes, quote, order, chain, unmatched,
                 staff, sweep, crashes, credits, handled>>

\* One query for the band of amounts that is spoken for.
ReadTaken(r) ==
  /\ req[r].pc = "readTaken"
  /\ req' = [req EXCEPT
       ![r].pc = "probe", ![r].nudge = 1,
       ![r].taken = {n \in 0..(MaxNudges - 1) :
                       AmountWatched(req[r].addr, Total[req[r].quote] + n)}]
  /\ UNCHANGED <<clock, settings, changes, quote, order, pay, chain, unmatched,
                 staff, sweep, crashes, credits, handled>>

\* The nudging loop: the next value not known to be taken, one unit at a time.
Probe(r) ==
  /\ req[r].pc = "probe"
  /\ LET n == req[r].nudge
         amount == Total[req[r].quote] + n
         collides == n \in req[r].taken \/ InsertFails(r, amount)
     IN  \/ n >= MaxNudges /\ Answer(r, None) /\ UNCHANGED pay
         \/ /\ n < MaxNudges /\ collides
            /\ req' = [req EXCEPT ![r].nudge = n + 1] /\ UNCHANGED pay
         \/ n < MaxNudges /\ ~collides /\ InsertRow(r, NewUsdtRow(r, amount))
  /\ UNCHANGED <<clock, settings, changes, quote, order, chain, unmatched,
                 staff, sweep, crashes, credits, handled>>

-----------------------------------------------------------------------------
(* The customer's other calls *)

\* cancelPayment: the conditional write repeats what the read checked.
CancelPayment(p) ==
  /\ pay[p].status \in OpenStatuses
  /\ pay[p].ref = None
  /\ pay' = [pay EXCEPT ![p].status = "CANCELLED"]
  /\ UNCHANGED <<clock, settings, changes, quote, order, chain, unmatched, req,
                 staff, sweep, crashes, credits, handled>>

\* assertManuallySettleable.
ManuallySettleable(p) == pay[p].provider = "WIRE" \/ ~settings.autoVerify

\* markPaymentSent: a stamp for the team's queue, nothing more.
MarkPaymentSent(p) ==
  /\ pay[p].status \in OpenStatuses
  /\ ManuallySettleable(p)
  /\ ~pay[p].sent
  /\ pay' = [pay EXCEPT ![p].sent = TRUE]
  /\ UNCHANGED <<clock, settings, changes, quote, order, chain, unmatched, req,
                 staff, sweep, crashes, credits, handled>>

-----------------------------------------------------------------------------
(* Settling by hand: the checks, then the conditional write *)

BeginStaffCall(s, op, p, ref) ==
  /\ staff[s].op = "idle"
  /\ pay[p].status \in OpenStatuses
  /\ ManuallySettleable(p)
  /\ staff' = [staff EXCEPT ![s] = [op |-> op, payment |-> p, ref |-> ref]]
  /\ UNCHANGED <<clock, settings, changes, quote, order, pay, chain, unmatched,
                 req, sweep, crashes, credits, handled>>

\* Mutant: the write repeats no status check.
SettlesUnconditionally(p, ref) == ref = None \/ ~ClaimedByOther(p, ref)

\* Mutant: references are not unique.
SettlesAnyReference(p, ref) == pay[p].status \in OpenStatuses

\* The row must still be open, and a reference on another row fails the write.
SettlesByHand(p, ref) ==
  /\ pay[p].status \in OpenStatuses
  /\ ref = None \/ ~ClaimedByOther(p, ref)

\* settlePaymentManually.
SettlePaymentManually(s) ==
  LET p == staff[s].payment
      ref == staff[s].ref
  IN  /\ staff[s].op = "settle"
      /\ IF SettlesByHand(p, ref)
           THEN /\ pay' = [pay EXCEPT ![p].status = "SUCCEEDED", ![p].ref = ref,
                                      ![p].byHand = TRUE]
                /\ CreditQuote(p)
           ELSE UNCHANGED pay /\ NoCredit
      /\ staff' = [staff EXCEPT ![s] = NoCall]
      /\ UNCHANGED <<clock, settings, changes, chain, unmatched, req, sweep,
                     crashes, handled>>

\* rejectPayment.
RejectPayment(s) ==
  LET p == staff[s].payment IN
  /\ staff[s].op = "reject"
  /\ pay' = IF pay[p].status \in OpenStatuses
              THEN [pay EXCEPT ![p].status = "CANCELLED"] ELSE pay
  /\ staff' = [staff EXCEPT ![s] = NoCall]
  /\ UNCHANGED <<clock, settings, changes, quote, order, chain, unmatched, req,
                 sweep, crashes, credits, handled>>

\* resolveUnmatchedTransfer: an annotation, conditional on the row being open.
ResolveUnmatchedTransfer(h) ==
  /\ unmatched[h] = "open"
  /\ unmatched' = [unmatched EXCEPT ![h] = "resolved"]
  /\ UNCHANGED <<clock, settings, changes, quote, order, pay, chain, req, staff,
                 sweep, crashes, credits, handled>>

\* updateSettings: takes effect on the next read, and touches no payment.
UpdateSettings(new) ==
  /\ changes < MaxChanges
  /\ new # settings
  /\ settings' = new
  /\ changes' = changes + 1
  /\ UNCHANGED <<clock, quote, order, pay, chain, unmatched, req, staff, sweep,
                 crashes, credits, handled>>

-----------------------------------------------------------------------------
(* pollUsdtTransfers *)

\* The sweep reads the clock and the settings, and idles unless it may collect.
BeginSweep(w) ==
  /\ sweep[w].pc = "idle"
  /\ settings.addr # None /\ settings.autoVerify
  /\ sweep' = [sweep EXCEPT ![w] = [NoSweep EXCEPT !.pc = "fetch", !.now = clock,
                                                   !.addr = settings.addr]]
  /\ UNCHANGED <<clock, settings, changes, quote, order, pay, chain, unmatched,
                 req, staff, crashes, credits, handled>>

\* fetchUsdtTransfers.  Which transfers the window and the indexer serve is
\* ChainSweep's subject: here it may be any of those made to the address.
FetchTransfers(w, served) ==
  /\ sweep[w].pc = "fetch"
  /\ \A h \in served : chain[h].to = sweep[w].addr
  /\ sweep' = [sweep EXCEPT ![w].pc = "transfers", ![w].addr = None,
                            ![w].todo = served]
  /\ UNCHANGED <<clock, settings, changes, quote, order, pay, chain, unmatched,
                 req, staff, crashes, credits, handled>>

\* settleTransfer has answered for the transfer in hand.
TransferDone(w) ==
  /\ sweep' = [sweep EXCEPT ![w].pc = "transfers", ![w].hash = None,
                            ![w].pick = None,
                            ![w].todo = @ \ {sweep[w].hash}]
  /\ handled' = handled \cup {sweep[w].hash}

\* applyTransfer's pre-check, oldest transfer first.
TakeTransfer(w, h) ==
  /\ sweep[w].pc = "transfers"
  /\ h \in sweep[w].todo
  /\ \A o \in sweep[w].todo : chain[h].at <= chain[o].at
  /\ IF Claimed(h)
       THEN /\ sweep' = [sweep EXCEPT ![w].todo = @ \ {h}]
            /\ handled' = handled \cup {h}
       ELSE /\ sweep' = [sweep EXCEPT ![w].pc = "match", ![w].hash = h]
            /\ UNCHANGED handled
  /\ UNCHANGED <<clock, settings, changes, quote, order, pay, chain, unmatched,
                 req, staff, crashes, credits>>

\* The transaction's first statement: read the candidates and choose.
MatchTransfer(w) ==
  /\ sweep[w].pc = "match"
  /\ \/ /\ BestCandidate(sweep[w].hash) = {}
        /\ sweep' = [sweep EXCEPT ![w].pc = "claim", ![w].pick = None]
     \/ \E p \in BestCandidate(sweep[w].hash) :
          sweep' = [sweep EXCEPT ![w].pc = "claim", ![w].pick = p]
  /\ UNCHANGED <<clock, settings, changes, quote, order, pay, chain, unmatched,
                 req, staff, crashes, credits, handled>>

\* Mutant: the predicate forgets that another transfer may have claimed it.
ClaimableWhileLive(p) == pay[p].status \in LiveStatuses

\* The conditional write finds its row still live and unclaimed.
Claimable(p) == pay[p].status \in LiveStatuses /\ pay[p].ref = None

\* The claim, and the credit it may carry, in one commit.
ClaimTransfer(w) ==
  LET p == sweep[w].pick
      h == sweep[w].hash
      status == SettledStatus(p, h, sweep[w].now)
  IN  /\ sweep[w].pc = "claim"
      /\ p # None
      /\ Claimable(p) /\ ~ClaimedByOther(p, h)
      /\ pay' = [pay EXCEPT
                   ![p].status = status, ![p].ref = h,
                   ![p].confirmations =
                      Confirmations(sweep[w].now, chain[h].at)]
      /\ IF status = "SUCCEEDED" THEN CreditQuote(p) ELSE NoCredit
      /\ TransferDone(w)
      /\ UNCHANGED <<clock, settings, changes, chain, unmatched, req, staff,
                     crashes>>

\* Mutant: the sweep answers for the transfer before it is queued.
ClaimLostAnswersEarly(w) ==
  /\ sweep[w].pc = "claim"
  /\ ~(/\ sweep[w].pick # None
       /\ Claimable(sweep[w].pick)
       /\ ~ClaimedByOther(sweep[w].pick, sweep[w].hash))
  /\ IF Claimed(sweep[w].hash)
       THEN TransferDone(w)
       ELSE /\ sweep' = [sweep EXCEPT ![w].pc = "record"]
            /\ handled' = handled \cup {sweep[w].hash}
  /\ UNCHANGED <<clock, settings, changes, quote, order, pay, chain, unmatched,
                 req, staff, crashes, credits>>

\* No candidate, a lost claim or a unique violation: the hash decides whether
\* the transfer is a duplicate or is still nobody's.
ClaimLost(w) ==
  /\ sweep[w].pc = "claim"
  /\ ~(/\ sweep[w].pick # None
       /\ Claimable(sweep[w].pick)
       /\ ~ClaimedByOther(sweep[w].pick, sweep[w].hash))
  /\ IF Claimed(sweep[w].hash)
       THEN TransferDone(w)
       ELSE sweep' = [sweep EXCEPT ![w].pc = "record"] /\ UNCHANGED handled
  /\ UNCHANGED <<clock, settings, changes, quote, order, pay, chain, unmatched,
                 req, staff, crashes, credits>>

\* recordUnmatchedTransfer: an upsert that never re-opens a resolved row.
RecordUnmatchedTransfer(w) ==
  /\ sweep[w].pc = "record"
  /\ unmatched' = [unmatched EXCEPT ![sweep[w].hash] =
                     IF @ = "none" THEN "open" ELSE @]
  /\ TransferDone(w)
  /\ UNCHANGED <<clock, settings, changes, quote, order, pay, chain, req, staff,
                 crashes, credits>>

\* creditConfirmedPayments reads what is confirming ...
ReadConfirming(w) ==
  /\ sweep[w].pc = "transfers" /\ sweep[w].todo = {}
  /\ sweep' = [sweep EXCEPT
       ![w].pc = "confirming",
       ![w].rows = {p \in PaymentId : /\ pay[p].provider = "USDT"
                                      /\ pay[p].status = "PROCESSING"
                                      /\ pay[p].ref # None}]
  /\ UNCHANGED <<clock, settings, changes, quote, order, pay, chain, unmatched,
                 req, staff, crashes, credits, handled>>

\* ... and for each row writes the depth, or credits it if it still confirms.
CreditConfirmedPayment(w, p) ==
  LET depth == Confirmations(sweep[w].now, chain[pay[p].ref].at)
      deep == depth >= pay[p].depth
  IN  /\ sweep[w].pc = "confirming"
      /\ p \in sweep[w].rows
      /\ IF deep /\ pay[p].status = "PROCESSING"
           THEN /\ pay' = [pay EXCEPT ![p].status = "SUCCEEDED",
                                      ![p].confirmations = depth]
                /\ CreditQuote(p)
           ELSE /\ pay' = IF deep THEN pay
                          ELSE [pay EXCEPT ![p].confirmations = depth]
                /\ NoCredit
      /\ sweep' = [sweep EXCEPT ![w].rows = @ \ {p}]
      /\ UNCHANGED <<clock, settings, changes, chain, unmatched, req, staff,
                     crashes, handled>>

\* The sweep is over once no stale row is left to look at.
StaleLeft(w, rows) ==
  sweep' = [sweep EXCEPT ![w] = IF rows = {} THEN NoSweep
                                ELSE [@ EXCEPT !.pc = "stale", !.rows = rows]]

\* expireStalePayments reads the windows that have closed ...
ReadStale(w) ==
  /\ sweep[w].pc = "confirming" /\ sweep[w].rows = {}
  /\ StaleLeft(w, {p \in PaymentId : Stale(p, sweep[w].now)})
  /\ UNCHANGED <<clock, settings, changes, quote, order, pay, chain, unmatched,
                 req, staff, crashes, credits, handled>>

\* ... and fails each that is still open and unclaimed.
ExpireStalePayment(w, p) ==
  /\ sweep[w].pc = "stale"
  /\ p \in sweep[w].rows
  /\ pay' = IF pay[p].status \in OpenStatuses /\ pay[p].ref = None
              THEN [pay EXCEPT ![p].status = "FAILED"] ELSE pay
  /\ StaleLeft(w, sweep[w].rows \ {p})
  /\ UNCHANGED <<clock, settings, changes, quote, order, chain, unmatched, req,
                 staff, crashes, credits, handled>>

\* The job dies between two round trips; the next run starts over.
CrashSweep(w) ==
  /\ sweep[w].pc # "idle"
  /\ crashes < MaxCrashes
  /\ crashes' = crashes + 1
  /\ sweep' = [sweep EXCEPT ![w] = NoSweep]
  /\ UNCHANGED <<clock, settings, changes, quote, order, pay, chain, unmatched,
                 req, staff, credits, handled>>

-----------------------------------------------------------------------------
(* The world outside *)

\* A customer's USDT transfer enters a block (the Tron network; external).
MakeTransfer(h, a, amount) ==
  /\ ~OnChain(h)
  /\ chain' = [chain EXCEPT ![h] = [to |-> a, amount |-> amount, at |-> clock]]
  /\ UNCHANGED <<clock, settings, changes, quote, order, pay, unmatched, req,
                 staff, sweep, crashes, credits, handled>>

Tick ==
  /\ clock < MaxTime
  /\ clock' = clock + 1
  /\ UNCHANGED <<settings, changes, quote, order, pay, chain, unmatched, req,
                 staff, sweep, crashes, credits, handled>>

-----------------------------------------------------------------------------

Init ==
  /\ clock = 0
  /\ settings \in [addr : Addresses, autoVerify : {TRUE}, depth : Depths]
  /\ changes = 0
  /\ quote = [q \in Quotes |-> "PENDING"]
  /\ order = InitialOrder
  /\ pay = [p \in PaymentId |-> NoRow]
  /\ chain = [h \in Hashes |-> NoTransfer]
  /\ unmatched = [h \in Hashes |-> "none"]
  /\ req = [r \in Requests |-> NewRequest]
  /\ staff = [s \in Staff |-> NoCall]
  /\ sweep = [w \in Workers |-> NoSweep]
  /\ crashes = 0
  /\ credits = [p \in PaymentId |-> 0]
  /\ handled = {}

CreateIntent(r) ==
  \/ \E k \in Keys, q \in Quotes, method \in Methods :
       BeginIntent(r, k, q, method)
  \/ ReadQuote(r) \/ ReadLive(r) \/ ReadSettings(r)
  \/ InsertWire(r) \/ InsertBase(r) \/ ReadTaken(r) \/ Probe(r)

StaffStep(s) ==
  \/ \E p \in PaymentId :
       \/ \E ref \in References \cup {None} : BeginStaffCall(s, "settle", p, ref)
       \/ BeginStaffCall(s, "reject", p, None)
  \/ SettlePaymentManually(s) \/ RejectPayment(s)

\* One step of a sweep that does not die.
SweepStep(w) ==
  \/ BeginSweep(w)
  \/ \E served \in SUBSET Hashes : FetchTransfers(w, served)
  \/ \E h \in Hashes : TakeTransfer(w, h)
  \/ MatchTransfer(w) \/ ClaimTransfer(w) \/ ClaimLost(w)
  \/ RecordUnmatchedTransfer(w)
  \/ ReadConfirming(w) \/ ReadStale(w)
  \/ \E p \in PaymentId : CreditConfirmedPayment(w, p) \/ ExpireStalePayment(w, p)

Next ==
  \/ \E r \in Requests : CreateIntent(r)
  \/ \E p \in PaymentId : CancelPayment(p) \/ MarkPaymentSent(p)
  \/ \E s \in Staff : StaffStep(s)
  \/ \E h \in Hashes : ResolveUnmatchedTransfer(h)
  \/ \E new \in Settings : UpdateSettings(new)
  \/ \E w \in Workers : SweepStep(w) \/ CrashSweep(w)
  \/ \E h \in Hashes, a \in Addresses, amount \in Amounts : MakeTransfer(h, a, amount)
  \/ Tick

Spec == Init /\ [][Next]_vars

\* BullMQ keeps running the sweep, each run gets on with its work, and time
\* passes.  Nothing obliges a customer or the team to do anything.
FairSpec == Spec /\ WF_vars(Tick) /\ \A w \in Workers : WF_vars(SweepStep(w))
-----------------------------------------------------------------------------
(* What the module promises *)

\* A row that exists names its quote.
PaymentsTyped ==
  /\ pay \in [PaymentId -> Payment]
  /\ \A p \in PaymentId : pay[p].status = "NONE" <=> pay[p].quote = None

RequestsTyped ==
  /\ req \in [Requests -> Request]
  /\ \A r \in Requests :
       req[r].pc # "new" => req[r].quote # None /\ req[r].key # None

StaffTyped ==
  /\ staff \in [Staff -> StaffCall]
  /\ \A s \in Staff : staff[s].op # "idle" => staff[s].payment # None

SweepsTyped ==
  /\ sweep \in [Workers -> Sweep]
  /\ \A w \in Workers :
       sweep[w].pc \in {"match", "claim", "record"} => sweep[w].hash # None

CreditTyped ==
  /\ quote \in [Quotes -> {"PENDING", "PAID"}]
  /\ order \in [Quotes -> OrderStatus \cup {None}]
  /\ credits \in [PaymentId -> 0..2]

SurroundingsTyped ==
  /\ clock \in Nat /\ changes \in Nat /\ crashes \in Nat
  /\ settings \in Settings
  /\ chain \in [Hashes -> Transfer]

OutcomesTyped ==
  /\ unmatched \in [Hashes -> {"none", "open", "resolved"}]
  /\ handled \in SUBSET Hashes

\* Every variable stays in its domain (the Prisma schema's columns), and a call
\* that is under way knows the row, quote or transfer it is about.
TypeOK ==
  /\ PaymentsTyped /\ RequestsTyped /\ StaffTyped /\ SweepsTyped
  /\ CreditTyped /\ SurroundingsTyped /\ OutcomesTyped

\* A payment that waits carries no reference, one that confirms carries its
\* transfer, and a row a sweep read as confirming is still confirming that
\* transfer or credited by the time the sweep gets to it.
RowsConsistent ==
  /\ \A p \in PaymentId :
       /\ pay[p].status \in {"NONE", "PENDING"} => pay[p].ref = None
       /\ pay[p].status = "PROCESSING" => pay[p].ref \in Hashes
  /\ \A w \in Workers : sweep[w].pc = "confirming" =>
       \A p \in sweep[w].rows : /\ pay[p].status \in {"PROCESSING", "SUCCEEDED"}
                                /\ pay[p].ref \in Hashes

\* "This processor running twice credits exactly once": however many sweeps and
\* settlers race, creditQuote has run once for a payment that succeeded and
\* never for one that did not.
CreditedExactlyOnce ==
  \A p \in PaymentId :
    credits[p] = IF pay[p].status = "SUCCEEDED" THEN 1 ELSE 0

\* A transfer pays for one payment only: no hash or bank reference stands on
\* two rows, whichever of the poller and the settlers wrote it.
ReferenceOnOnePayment ==
  \A p, o \in PaymentId :
    pay[p].ref # None /\ pay[p].ref = pay[o].ref => p = o

\* The poller credits a payment only with a transfer of exactly its amount, to
\* its address, made before its rate expired, and as deep as its row demands,
\* whatever the settings say by then and however old the sweep's clock is.
ChainCreditEarned ==
  \A p \in PaymentId :
    pay[p].status = "SUCCEEDED" /\ ~pay[p].byHand =>
      /\ pay[p].provider = "USDT"
      /\ pay[p].ref \in Hashes
      /\ LET transfer == chain[pay[p].ref] IN
           /\ transfer.to = pay[p].addr
           /\ transfer.amount = pay[p].expected
           /\ transfer.at <= pay[p].expires
           /\ clock >= transfer.at + pay[p].depth

\* Money is never silently dropped: a transfer settleTransfer has answered for
\* is on a payment or in the reconciliation queue, also when its claim was lost
\* to another transfer or another sweep.
NoTransferDropped ==
  \A h \in handled : Claimed(h) \/ unmatched[h] # "none"

\* A quote is paid exactly when a payment for it succeeded, and its order has
\* then been carried to PAID or beyond: the facts land together.
PaidExactlyWhenSettled ==
  \A q \in Quotes :
    /\ quote[q] = "PAID" <=>
         \E p \in PaymentId : pay[p].quote = q /\ pay[p].status = "SUCCEEDED"
    /\ quote[q] = "PAID" /\ order[q] # None =>
         OrderRank(order[q]) >= OrderRank("PAID")

\* An exact amount identifies one payment: no two live payments watch the same
\* amount at the same address, however createIntent calls interleave.
AmountIdentifiesPayment ==
  \A p, o \in PaymentId :
    /\ pay[p].provider = "USDT" /\ pay[p].status \in LiveStatuses
    /\ pay[o].provider = "USDT" /\ pay[o].status \in LiveStatuses
    /\ pay[p].addr = pay[o].addr /\ pay[p].expected = pay[o].expected
    => p = o

\* What a payment's status means to the ledger.
LedgerState(status) ==
  CASE status = "NONE" -> "none" [] status = "PENDING" -> "open"
    [] status = "PROCESSING" -> "confirming" [] status = "SUCCEEDED" -> "credited"
    [] status \in {"UNDERPAID", "OVERPAID"} -> "mismatched"
    [] status \in {"FAILED", "CANCELLED"} -> "closed"

Ledger == INSTANCE PaymentLedger WITH
  Payments <- PaymentId, Debts <- Quotes,
  state <- [p \in PaymentId |-> LedgerState(pay[p].status)],
  owed <- [p \in PaymentId |-> pay[p].quote],
  money <- [p \in PaymentId |-> pay[p].ref],
  paid <- {q \in Quotes : quote[q] = "PAID"}

\* Through every interleaving of requests, sweeps, settlers and crashes, the
\* tables move as the abstract ledger does: one step, one decision.
LedgerSpec == Ledger!Spec

\* USDT is collected automatically from some point on.
Collecting == settings.addr # None /\ settings.autoVerify

\* A customer who closes the tab still gets credited: a confirming payment
\* whose transfer gets deep enough is credited, through crashes and restarts.
ConfirmingIsCredited ==
  <>[]Collecting =>
    \A p \in PaymentId :
      (/\ pay[p].status = "PROCESSING"
       /\ chain[pay[p].ref].at + pay[p].depth <= MaxTime)
        ~> pay[p].status = "SUCCEEDED"

\* A window nobody paid into closes: no USDT payment stays open for good past
\* the time it expires.
WindowCloses ==
  <>[]Collecting =>
    \A p \in PaymentId :
      (/\ pay[p].provider = "USDT" /\ pay[p].status \in OpenStatuses
       /\ pay[p].expires <= MaxTime)
        ~> pay[p].status \notin OpenStatuses
=============================================================================
