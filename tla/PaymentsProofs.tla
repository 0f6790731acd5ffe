--------------------------- MODULE PaymentsProofs ---------------------------
(* Theorems about Payments, for every number of requests, sweeps, transfers *)
(* and settlers.                                                            *)
EXTENDS Payments, FiniteSetTheorems, TLAPS

\* Rows are numbered by natural numbers.
LEMMA RowsAreNumbers == PaymentId \subseteq Nat
<1>1. Cardinality(Requests) \in Nat
  BY ConstantsAssumption, FS_CardinalityType
<1> QED
  BY <1>1 DEF PaymentId

-----------------------------------------------------------------------------
(* Type correctness *)

\* The types hold at first.
LEMMA InitTypeOK == Init => TypeOK
<1> SUFFICES ASSUME Init PROVE TypeOK
  OBVIOUS
<1>1. NoRow \in Payment /\ NoRow.status = "NONE" /\ NoRow.quote = None
  BY DEF NoRow, Payment
<1>2. NewRequest \in Request /\ NewRequest.pc = "new"
  BY DEF NewRequest, Request
<1>3. NoCall \in StaffCall /\ NoCall.op = "idle"
  BY DEF NoCall, StaffCall
<1>4. NoSweep \in Sweep /\ NoSweep.pc = "idle"
  BY DEF NoSweep, Sweep
<1>5. NoTransfer \in Transfer
  BY DEF NoTransfer, Transfer
<1>6. settings \in Settings
  BY DEF Init, Settings
<1>7. order \in [Quotes -> OrderStatus \cup {None}]
  BY ConstantsAssumption DEF Init
<1> QED
  BY <1>1, <1>2, <1>3, <1>4, <1>5, <1>6, <1>7
  DEF Init, TypeOK, PaymentsTyped, RequestsTyped, StaffTyped, SweepsTyped,
      CreditTyped, SurroundingsTyped, OutcomesTyped

\* A new row has the columns of a Payment and names its quote.
LEMMA NewRowsTyped ==
  ASSUME RequestsTyped, NEW r \in Requests, req[r].pc # "new"
  PROVE  /\ NewWireRow(r) \in Payment
         /\ NewWireRow(r).status = "PENDING" /\ NewWireRow(r).quote # None
         /\ \A amount \in Nat : /\ NewUsdtRow(r, amount) \in Payment
                                /\ NewUsdtRow(r, amount).status = "PENDING"
                                /\ NewUsdtRow(r, amount).quote # None
<1>1. req[r] \in Request /\ req[r].quote # None
  BY DEF RequestsTyped
<1>2. req[r].now + Ttl \in Nat
  BY <1>1, ConstantsAssumption DEF Request
<1> QED
  BY <1>1, <1>2 DEF NewWireRow, NewUsdtRow, NoRow, Payment, PaymentStatus, Request

\* Answering a request keeps the requests well typed.
LEMMA AnswerTyped ==
  ASSUME RequestsTyped, NEW r \in Requests, req[r].pc # "new",
         NEW reply \in PaymentId \cup {None}, Answer(r, reply)
  PROVE  RequestsTyped'
<1>1. req[r] \in Request /\ req[r].quote # None /\ req[r].key # None
  BY DEF RequestsTyped
<1> QED
  BY <1>1 DEF RequestsTyped, Answer, NewRequest, Request

\* Inserting a typed row keeps payments and requests well typed.
LEMMA InsertTyped ==
  ASSUME RequestsTyped, PaymentsTyped, NEW r \in Requests, req[r].pc # "new",
         NEW row \in Payment, row.status = "PENDING", row.quote # None,
         InsertRow(r, row)
  PROVE  PaymentsTyped' /\ RequestsTyped'
<1>1. PICK p \in PaymentId : pay' = [pay EXCEPT ![p] = row] /\ Answer(r, p)
  BY DEF InsertRow
<1>2. PaymentsTyped'
  BY <1>1 DEF PaymentsTyped
<1> QED
  BY <1>1, <1>2, AnswerTyped

\* Crediting a row that exists keeps quotes, orders and the history well typed.
LEMMA CreditQuoteTyped ==
  ASSUME PaymentsTyped, CreditTyped,
         NEW p \in PaymentId, pay[p].status # "NONE", CreditQuote(p)
  PROVE  CreditTyped'
<1>1. pay[p].quote \in Quotes
  BY DEF PaymentsTyped, Payment
<1>2. \A s \in OrderStatus \cup {None} :
        AdvancedToPaid(s) \in OrderStatus \cup {None}
  BY DEF AdvancedToPaid, OrderStatus
<1> QED
  BY <1>1, <1>2 DEF CreditQuote, CreditTyped

\* A transfer's depth is a number, and its classification a status of Payment.
LEMMA SettledTyped ==
  ASSUME TypeOK, NEW p \in PaymentId, NEW h \in Hashes, NEW now \in Nat
  PROVE  /\ Confirmations(now, chain[h].at) \in Nat
         /\ SettledStatus(p, h, now) \in {"PROCESSING", "SUCCEEDED", "UNDERPAID", "OVERPAID"}
<1>1. chain[h].at \in Nat /\ chain[h].amount \in Nat
  BY DEF TypeOK, SurroundingsTyped, Transfer
<1>2. pay[p].expected \in Nat /\ pay[p].expires \in Nat /\ pay[p].depth \in Nat
  BY DEF TypeOK, PaymentsTyped, Payment
<1> QED
  BY <1>1, <1>2 DEF Confirmations, SettledStatus

\* Finishing with a transfer keeps the sweep and the outcomes well typed.
LEMMA TransferDoneTyped ==
  ASSUME SweepsTyped, handled \in SUBSET Hashes,
         NEW w \in Workers, sweep[w].hash # None, TransferDone(w)
  PROVE  SweepsTyped' /\ handled' \in SUBSET Hashes
<1>1. sweep[w] \in Sweep
  BY DEF SweepsTyped
<1> QED
  BY <1>1 DEF SweepsTyped, TransferDone, Sweep

\* A request reads and writes payments and requests only.
LEMMA RequestStepTyped ==
  ASSUME TypeOK, NEW r \in Requests, CreateIntent(r)
  PROVE  TypeOK'
<1> USE DEF TypeOK
<1>0. req[r] \in Request
  BY DEF RequestsTyped
<1>a. req[r].quote \in Quotes => Total[req[r].quote] \in Nat
  BY ConstantsAssumption
<1>b. PaymentsTyped' /\ RequestsTyped'
  <2>1. ASSUME NEW k \in Keys, NEW q \in Quotes, NEW m \in Methods,
               BeginIntent(r, k, q, m)
        PROVE  PaymentsTyped' /\ RequestsTyped'
    <3>1. m \in {"USDT", "WIRE"} /\ k # None /\ q # None
      BY ConstantsAssumption
    <3>2. UNCHANGED pay
      BY <2>1 DEF BeginIntent
    <3>3. RequestsTyped'
      BY <1>0, <2>1, <3>1 DEF BeginIntent, RequestsTyped, Request
    <3> QED
      BY <3>2, <3>3 DEF PaymentsTyped
  <2>2. ASSUME ReadQuote(r) PROVE PaymentsTyped' /\ RequestsTyped'
    <3>1. UNCHANGED pay /\ req[r].pc = "readQuote" /\ clock \in Nat
      BY <2>2 DEF ReadQuote, SurroundingsTyped
    <3>2. CASE Answer(r, None)
      BY <3>1, <3>2, AnswerTyped DEF PaymentsTyped
    <3>3. CASE req' = [req EXCEPT ![r].pc = "readLive", ![r].now = clock]
      BY <1>0, <3>1, <3>3 DEF PaymentsTyped, RequestsTyped, Request
    <3> QED
      BY <2>2, <3>2, <3>3 DEF ReadQuote
  <2>3. ASSUME ReadLive(r) PROVE PaymentsTyped' /\ RequestsTyped'
    <3>1. UNCHANGED pay /\ req[r].pc = "readLive"
      BY <2>3 DEF ReadLive
    <3>2. ASSUME NEW p \in PaymentId, Answer(r, p)
          PROVE  PaymentsTyped' /\ RequestsTyped'
      BY <3>1, <3>2, AnswerTyped DEF PaymentsTyped
    <3>3. CASE req' = [req EXCEPT ![r].pc = IF req[r].provider = "USDT"
                                             THEN "readSettings" ELSE "insert"]
      BY <1>0, <3>1, <3>3 DEF PaymentsTyped, RequestsTyped, Request
    <3> QED
      BY <2>3, <3>2, <3>3 DEF ReadLive
  <2>4. ASSUME ReadSettings(r) PROVE PaymentsTyped' /\ RequestsTyped'
    <3>1. UNCHANGED pay /\ req[r].pc = "readSettings"
      BY <2>4 DEF ReadSettings
    <3>2. settings.addr \in Addresses \cup {None} /\ settings.depth \in Nat
      BY ConstantsAssumption DEF SurroundingsTyped, Settings
    <3>3. CASE Answer(r, None)
      BY <3>1, <3>3, AnswerTyped DEF PaymentsTyped
    <3>4. CASE req' = [req EXCEPT ![r].pc = "insert", ![r].addr = settings.addr,
                                 ![r].depth = settings.depth]
      BY <1>0, <3>1, <3>2, <3>4 DEF PaymentsTyped, RequestsTyped, Request
    <3> QED
      BY <2>4, <3>3, <3>4 DEF ReadSettings
  <2>5. ASSUME InsertWire(r) PROVE PaymentsTyped' /\ RequestsTyped'
    <3>1. req[r].pc = "insert"
      BY <2>5 DEF InsertWire
    <3>2. CASE Answer(r, None) /\ UNCHANGED pay
      BY <3>1, <3>2, AnswerTyped DEF PaymentsTyped
    <3>3. CASE InsertRow(r, NewWireRow(r))
      BY <3>1, <3>3, NewRowsTyped, InsertTyped
    <3> QED
      BY <2>5, <3>2, <3>3 DEF InsertWire
  <2>6. ASSUME InsertBase(r) PROVE PaymentsTyped' /\ RequestsTyped'
    <3>1. req[r].pc = "insert" /\ Total[req[r].quote] \in Nat
      BY <1>0, <1>a, <2>6 DEF InsertBase, RequestsTyped, Request
    <3>2. CASE req' = [req EXCEPT ![r].pc = "readTaken"] /\ UNCHANGED pay
      BY <1>0, <3>1, <3>2 DEF PaymentsTyped, RequestsTyped, Request
    <3>3. CASE InsertRow(r, NewUsdtRow(r, Total[req[r].quote]))
      BY <3>1, <3>3, NewRowsTyped, InsertTyped
    <3> QED
      BY <2>6, <3>2, <3>3 DEF InsertBase
  <2>7. ASSUME ReadTaken(r) PROVE PaymentsTyped' /\ RequestsTyped'
    <3>1. UNCHANGED pay
      BY <2>7 DEF ReadTaken
    <3>2. \A n \in 0..(MaxNudges - 1) : n \in Nat
      BY ConstantsAssumption
    <3>3. RequestsTyped'
      BY <1>0, <2>7, <3>2 DEF ReadTaken, RequestsTyped, Request
    <3> QED
      BY <3>1, <3>3 DEF PaymentsTyped
  <2>8. ASSUME Probe(r) PROVE PaymentsTyped' /\ RequestsTyped'
    <3>1. /\ req[r].pc = "probe" /\ req[r].nudge \in Nat
          /\ Total[req[r].quote] + req[r].nudge \in Nat
      BY <1>0, <1>a, <2>8 DEF Probe, RequestsTyped, Request
    <3>2. CASE Answer(r, None) /\ UNCHANGED pay
      BY <3>1, <3>2, AnswerTyped DEF PaymentsTyped
    <3>3. CASE req' = [req EXCEPT ![r].nudge = req[r].nudge + 1] /\ UNCHANGED pay
      BY <1>0, <3>1, <3>3 DEF PaymentsTyped, RequestsTyped, Request
    <3>4. CASE InsertRow(r, NewUsdtRow(r, Total[req[r].quote] + req[r].nudge))
      BY <3>1, <3>4, NewRowsTyped, InsertTyped
    <3> QED
      BY <2>8, <3>1, <3>2, <3>3, <3>4, ConstantsAssumption DEF Probe
  <2> QED
    BY <2>1, <2>2, <2>3, <2>4, <2>5, <2>6, <2>7, <2>8 DEF CreateIntent
<1>c. UNCHANGED <<clock, settings, changes, quote, order, chain, unmatched, staff,
                  sweep, crashes, credits, handled>>
  BY DEF CreateIntent, BeginIntent, ReadQuote, ReadLive, ReadSettings, InsertWire,
         InsertBase, ReadTaken, Probe
<1> QED
  BY <1>b, <1>c DEF StaffTyped, SweepsTyped, CreditTyped, SurroundingsTyped,
                    OutcomesTyped

\* What one step may do to a payment's row, and to its quote with it.
RowStep(p, row) ==
  /\ pay' = [pay EXCEPT ![p] = row]
  /\ row \in Payment /\ row.quote # None
  /\ row.quote = pay[p].quote \/ pay[p].status = "NONE"
  /\ \/ pay[p].status = "NONE" /\ row.status = "PENDING" /\ row.ref = None
     \/ pay[p].status # "NONE" /\ row.status = pay[p].status /\ row.ref = pay[p].ref
     \/ /\ pay[p].status = "PENDING" /\ row.status \in {"CANCELLED", "FAILED"}
        /\ row.ref = pay[p].ref
     \/ /\ pay[p].status = "PENDING" /\ row.ref \in Hashes
        /\ row.status \in {"PROCESSING", "UNDERPAID", "OVERPAID", "SUCCEEDED"}
        /\ ~ClaimedByOther(p, row.ref)
     \/ /\ pay[p].status = "PENDING" /\ row.status = "SUCCEEDED"
        /\ row.ref = None \/ ~ClaimedByOther(p, row.ref)
     \/ /\ pay[p].status = "PROCESSING" /\ row.status = "SUCCEEDED"
        /\ row.ref = pay[p].ref
  /\ IF row.status = "SUCCEEDED" /\ pay[p].status # "SUCCEEDED"
       THEN CreditQuote(p) ELSE NoCredit

\* A step changes one row, or leaves payments and quotes alone.
TablesStep ==
  \/ UNCHANGED <<pay, quote, order, credits>>
  \/ \E p \in PaymentId : \E row \in Payment : RowStep(p, row)

\* Inserting a row is a row step.
LEMMA InsertIsRowStep ==
  ASSUME RequestsTyped, PaymentsTyped, RowsConsistent,
         NEW r \in Requests, req[r].pc # "new", NEW row \in Payment,
         row.status = "PENDING", row.quote # None, row.ref = None,
         InsertRow(r, row), NoCredit
  PROVE  TablesStep
<1>1. PICK p \in PaymentId : pay[p].status = "NONE" /\ pay' = [pay EXCEPT ![p] = row]
  BY DEF InsertRow
<1>2. RowStep(p, row)
  BY <1>1 DEF RowStep
<1> QED
  BY <1>2 DEF TablesStep

\* A request inserts a row or changes no table.
LEMMA RequestTablesStep ==
  ASSUME TypeOK, RowsConsistent, NEW r \in Requests, CreateIntent(r)
  PROVE  TablesStep
<1> USE DEF TypeOK
<1>1. UNCHANGED <<quote, order, credits>>
  BY DEF CreateIntent, BeginIntent, ReadQuote, ReadLive, ReadSettings, InsertWire,
         InsertBase, ReadTaken, Probe
<1>2. CASE UNCHANGED pay
  BY <1>1, <1>2 DEF TablesStep
<1>3. CASE pay' # pay
  <2>0. req[r] \in Request /\ (req[r].quote \in Quotes => Total[req[r].quote] \in Nat)
    BY ConstantsAssumption DEF RequestsTyped
  <2>1. NewWireRow(r).ref = None /\ \A n \in Nat : NewUsdtRow(r, n).ref = None
    BY DEF NewWireRow, NewUsdtRow, NoRow
  <2>2. req[r].pc # "new" /\ req[r].quote \in Quotes
    BY <1>3, <2>0 DEF CreateIntent, BeginIntent, ReadQuote, ReadLive, ReadSettings,
         InsertWire, InsertBase, ReadTaken, Probe, RequestsTyped, Request
  <2>3. Total[req[r].quote] \in Nat /\ Total[req[r].quote] + req[r].nudge \in Nat
    BY <2>0, <2>2 DEF Request
  <2>4. CASE InsertWire(r)
    BY <1>1, <1>3, <2>1, <2>2, <2>4, NewRowsTyped, InsertIsRowStep
    DEF InsertWire, NoCredit
  <2>5. CASE InsertBase(r)
    BY <1>1, <1>3, <2>1, <2>2, <2>3, <2>5, NewRowsTyped, InsertIsRowStep
    DEF InsertBase, NoCredit
  <2>6. CASE Probe(r)
    BY <1>1, <1>3, <2>1, <2>2, <2>3, <2>6, NewRowsTyped, InsertIsRowStep
    DEF Probe, NoCredit
  <2> QED
    BY <1>3, <2>4, <2>5, <2>6
    DEF CreateIntent, BeginIntent, ReadQuote, ReadLive, ReadSettings, ReadTaken
<1> QED
  BY <1>2, <1>3

\* So does a customer's cancellation or report.
LEMMA CustomerTablesStep ==
  ASSUME TypeOK, RowsConsistent, NEW p \in PaymentId,
         CancelPayment(p) \/ MarkPaymentSent(p)
  PROVE  TablesStep
<1> USE DEF TypeOK, OpenStatuses
<1>1. pay[p] \in Payment /\ (pay[p].status # "NONE" => pay[p].quote # None)
  BY DEF PaymentsTyped
<1>2. CASE CancelPayment(p)
  <2> DEFINE row == [pay[p] EXCEPT !.status = "CANCELLED"]
  <2>1. RowStep(p, row) /\ row \in Payment
    BY <1>1, <1>2 DEF CancelPayment, RowStep, Payment, PaymentStatus, PaymentsTyped, NoCredit
  <2> QED
    BY <2>1 DEF TablesStep
<1>3. CASE MarkPaymentSent(p)
  <2> DEFINE row == [pay[p] EXCEPT !.sent = TRUE]
  <2>1. RowStep(p, row) /\ row \in Payment
    BY <1>1, <1>3 DEF MarkPaymentSent, RowStep, Payment, PaymentStatus, PaymentsTyped, NoCredit
  <2> QED
    BY <2>1 DEF TablesStep
<1> QED
  BY <1>2, <1>3

\* A settler credits an open row, rejects it, or finds it gone.
LEMMA StaffTablesStep ==
  ASSUME TypeOK, RowsConsistent, NEW s \in Staff, StaffStep(s)
  PROVE  TablesStep
<1> USE DEF TypeOK, OpenStatuses
<1> DEFINE p == staff[s].payment
           ref == staff[s].ref
<1>1. staff[s].op # "idle" => /\ p \in PaymentId /\ ref \in References \cup {None}
                              /\ pay[p] \in Payment
                              /\ (pay[p].status # "NONE" => pay[p].quote # None)
  BY DEF StaffTyped, StaffCall, PaymentsTyped
<1>2. ASSUME SettlePaymentManually(s), SettlesByHand(p, ref) PROVE TablesStep
  <2> DEFINE row == [pay[p] EXCEPT !.status = "SUCCEEDED", !.ref = ref, !.byHand = TRUE]
  <2>1. RowStep(p, row) /\ row \in Payment
    BY <1>1, <1>2 DEF SettlePaymentManually, SettlesByHand, RowStep, Payment,
                      PaymentStatus, PaymentsTyped
  <2> QED
    BY <1>1, <1>2, <2>1 DEF TablesStep, SettlePaymentManually
<1>3. ASSUME RejectPayment(s), pay[p].status \in OpenStatuses PROVE TablesStep
  <2> DEFINE row == [pay[p] EXCEPT !.status = "CANCELLED"]
  <2>1. RowStep(p, row) /\ row \in Payment
    BY <1>1, <1>3 DEF RejectPayment, RowStep, Payment, PaymentStatus, PaymentsTyped, NoCredit
  <2> QED
    BY <1>1, <1>3, <2>1 DEF TablesStep, RejectPayment
<1>4. CASE UNCHANGED <<pay, quote, order, credits>>
  BY <1>4 DEF TablesStep
<1> QED
  BY <1>2, <1>3, <1>4 DEF StaffStep, BeginStaffCall, SettlePaymentManually,
                          RejectPayment, NoCredit

\* A sweep claims, credits or expires a row, or changes no table.
LEMMA SweepTablesStep ==
  ASSUME TypeOK, RowsConsistent, NEW w \in Workers, SweepStep(w)
  PROVE  TablesStep
<1> USE DEF TypeOK, OpenStatuses, LiveStatuses
<1>0. sweep[w] \in Sweep /\ pay \in [PaymentId -> Payment]
  BY DEF SweepsTyped, PaymentsTyped
<1>1. ASSUME ClaimTransfer(w) PROVE TablesStep
  <2> DEFINE p == sweep[w].pick
             h == sweep[w].hash
             status == SettledStatus(p, h, sweep[w].now)
             depth == Confirmations(sweep[w].now, chain[h].at)
             row == [pay[p] EXCEPT !.status = status, !.ref = h,
                                   !.confirmations = depth]
  <2>1. /\ p \in PaymentId /\ h \in Hashes /\ sweep[w].now \in Nat
        /\ pay[p] \in Payment /\ pay[p].quote # None
    BY <1>0, <1>1 DEF ClaimTransfer, Claimable, SweepsTyped, Sweep, PaymentsTyped
  <2>2. status \in {"PROCESSING", "UNDERPAID", "OVERPAID", "SUCCEEDED"} /\ depth \in Nat
    BY <2>1, SettledTyped
  <2>3. pay[p].status = "PENDING"
    BY <1>1, <2>1, ConstantsAssumption DEF ClaimTransfer, Claimable, RowsConsistent
  <2>4. row \in Payment /\ row.status = status /\ row.ref = h /\ row.quote = pay[p].quote
    BY <2>1, <2>2, ConstantsAssumption DEF Payment, PaymentStatus
  <2>5. RowStep(p, row)
    <3> HIDE DEF status, depth
    <3> QED
      BY <1>1, <2>1, <2>2, <2>3, <2>4 DEF ClaimTransfer, RowStep, status, depth
  <2> QED
    BY <2>1, <2>4, <2>5 DEF TablesStep
<1>2. ASSUME NEW p \in PaymentId, CreditConfirmedPayment(w, p) PROVE TablesStep
  <2> DEFINE depth == Confirmations(sweep[w].now, chain[pay[p].ref].at)
  <2>1. /\ pay[p] \in Payment /\ pay[p].status \in {"PROCESSING", "SUCCEEDED"}
        /\ pay[p].ref \in Hashes /\ pay[p].quote # None
    BY <1>0, <1>2 DEF CreditConfirmedPayment, RowsConsistent, PaymentsTyped
  <2>2. depth \in Nat
    BY <1>0, <2>1, SettledTyped DEF Sweep
  <2>3. ASSUME depth >= pay[p].depth, pay[p].status = "PROCESSING" PROVE TablesStep
    <3> DEFINE row == [pay[p] EXCEPT !.status = "SUCCEEDED", !.confirmations = depth]
    <3>1. row \in Payment /\ RowStep(p, row)
      BY <1>2, <2>1, <2>2, <2>3 DEF CreditConfirmedPayment, RowStep, Payment, PaymentStatus
    <3> QED
      BY <3>1 DEF TablesStep
  <2>4. ASSUME ~(depth >= pay[p].depth) PROVE TablesStep
    <3> DEFINE row == [pay[p] EXCEPT !.confirmations = depth]
    <3>1. row \in Payment /\ RowStep(p, row)
      BY <1>2, <2>1, <2>2, <2>4 DEF CreditConfirmedPayment, RowStep, Payment
    <3> QED
      BY <3>1 DEF TablesStep
  <2>5. CASE UNCHANGED pay /\ NoCredit
    BY <2>5 DEF TablesStep, NoCredit
  <2> QED
    BY <1>2, <2>3, <2>4, <2>5 DEF CreditConfirmedPayment
<1>3. ASSUME NEW p \in PaymentId, ExpireStalePayment(w, p) PROVE TablesStep
  <2> DEFINE row == [pay[p] EXCEPT !.status = "FAILED"]
  <2>1. CASE pay[p].status \in OpenStatuses /\ pay[p].ref = None
    <3>1. row \in Payment /\ RowStep(p, row)
      BY <1>0, <1>3, <2>1 DEF ExpireStalePayment, RowStep, Payment, PaymentStatus,
                              PaymentsTyped, NoCredit
    <3> QED
      BY <3>1 DEF TablesStep
  <2>2. CASE UNCHANGED pay
    BY <1>3, <2>2 DEF TablesStep, ExpireStalePayment
  <2> QED
    BY <1>3, <2>1, <2>2 DEF ExpireStalePayment
<1>4. CASE UNCHANGED <<pay, quote, order, credits>>
  BY <1>4 DEF TablesStep
<1> QED
  BY <1>1, <1>2, <1>3, <1>4
  DEF SweepStep, BeginSweep, FetchTransfers, TakeTransfer, MatchTransfer, ClaimLost,
      RecordUnmatchedTransfer, ReadConfirming, ReadStale

\* Every step of the module is a step of the tables.
LEMMA NextTablesStep ==
  ASSUME TypeOK, RowsConsistent, [Next]_vars
  PROVE  TablesStep
<1>1. CASE \E r \in Requests : CreateIntent(r)
  BY <1>1, RequestTablesStep
<1>2. CASE \E p \in PaymentId : CancelPayment(p) \/ MarkPaymentSent(p)
  BY <1>2, CustomerTablesStep
<1>3. CASE \E s \in Staff : StaffStep(s)
  BY <1>3, StaffTablesStep
<1>4. CASE \E w \in Workers : SweepStep(w)
  BY <1>4, SweepTablesStep
<1>5. CASE UNCHANGED <<pay, quote, order, credits>>
  BY <1>5 DEF TablesStep
<1> QED
  BY <1>1, <1>2, <1>3, <1>4, <1>5
  DEF Next, vars, ResolveUnmatchedTransfer, UpdateSettings, CrashSweep, MakeTransfer, Tick

\* A step of the tables keeps their types and the shapes of the rows.
LEMMA TablesStepTyped ==
  ASSUME PaymentsTyped, CreditTyped, TablesStep
  PROVE  PaymentsTyped' /\ CreditTyped'
<1>1. CASE UNCHANGED <<pay, quote, order, credits>>
  BY <1>1 DEF PaymentsTyped, CreditTyped
<1>2. ASSUME NEW p \in PaymentId, NEW row \in Payment, RowStep(p, row)
      PROVE  PaymentsTyped' /\ CreditTyped'
  <2>1. row.status # "NONE" /\ row.quote # None
    BY <1>2 DEF RowStep, PaymentsTyped
  <2>2. PaymentsTyped'
    BY <1>2, <2>1 DEF RowStep, PaymentsTyped
  <2>3. CASE row.status = "SUCCEEDED" /\ pay[p].status # "SUCCEEDED"
    <3>1. CreditQuote(p) /\ pay[p].status # "NONE"
      BY <1>2, <2>3 DEF RowStep
    <3> QED
      BY <2>2, <3>1, CreditQuoteTyped
  <2>4. CASE ~(row.status = "SUCCEEDED" /\ pay[p].status # "SUCCEEDED")
    BY <1>2, <2>2, <2>4 DEF RowStep, NoCredit, CreditTyped
  <2> QED
    BY <2>3, <2>4
<1> QED
  BY <1>1, <1>2 DEF TablesStep

\* A sweep moves between its states with what each of them needs.
LEMMA SweepStepTyped ==
  ASSUME TypeOK, NEW w \in Workers, SweepStep(w)
  PROVE  SweepsTyped' /\ OutcomesTyped'
<1> USE DEF TypeOK
<1>0. sweep[w] \in Sweep /\ clock \in Nat /\ settings.addr \in Addresses \cup {None}
  BY DEF SweepsTyped, SurroundingsTyped, Settings
<1>1. CASE BeginSweep(w)
  BY <1>0, <1>1 DEF BeginSweep, NoSweep, SweepsTyped, Sweep, OutcomesTyped
<1>2. ASSUME NEW served \in SUBSET Hashes, FetchTransfers(w, served)
      PROVE  SweepsTyped' /\ OutcomesTyped'
  BY <1>0, <1>2 DEF FetchTransfers, SweepsTyped, Sweep, OutcomesTyped
<1>3. ASSUME NEW h \in Hashes, TakeTransfer(w, h) PROVE SweepsTyped' /\ OutcomesTyped'
  <2>1. h # None
    BY ConstantsAssumption
  <2> QED
    BY <1>0, <1>3, <2>1 DEF TakeTransfer, SweepsTyped, Sweep, OutcomesTyped
<1>4. CASE MatchTransfer(w)
  BY <1>0, <1>4 DEF MatchTransfer, BestCandidate, Candidates, SweepsTyped, Sweep,
                    OutcomesTyped
<1>5. ASSUME TransferDone(w), sweep[w].pc \in {"claim", "record"}, UNCHANGED unmatched
      PROVE  SweepsTyped' /\ OutcomesTyped'
  BY <1>0, <1>5, TransferDoneTyped DEF SweepsTyped, OutcomesTyped
<1>6. CASE ClaimTransfer(w)
  BY <1>5, <1>6 DEF ClaimTransfer
<1>7. CASE ClaimLost(w)
  <2>1. CASE TransferDone(w)
    BY <1>5, <1>7, <2>1 DEF ClaimLost
  <2>2. CASE sweep' = [sweep EXCEPT ![w].pc = "record"] /\ UNCHANGED handled
    BY <1>0, <1>7, <2>2 DEF ClaimLost, SweepsTyped, Sweep, OutcomesTyped
  <2> QED
    BY <1>7, <2>1, <2>2 DEF ClaimLost
<1>8. CASE RecordUnmatchedTransfer(w)
  <2>1. sweep[w].hash \in Hashes
    BY <1>0, <1>8 DEF RecordUnmatchedTransfer, SweepsTyped, Sweep
  <2>2. SweepsTyped' /\ handled' \in SUBSET Hashes
    BY <1>8, <2>1, TransferDoneTyped DEF RecordUnmatchedTransfer, SweepsTyped, OutcomesTyped
  <2> QED
    BY <1>8, <2>1, <2>2 DEF RecordUnmatchedTransfer, OutcomesTyped
<1>9. CASE ReadConfirming(w)
  BY <1>0, <1>9 DEF ReadConfirming, SweepsTyped, Sweep, OutcomesTyped
<1>10. ASSUME NEW p \in PaymentId, CreditConfirmedPayment(w, p)
       PROVE  SweepsTyped' /\ OutcomesTyped'
  BY <1>0, <1>10 DEF CreditConfirmedPayment, SweepsTyped, Sweep, OutcomesTyped
<1>11. ASSUME NEW rows \in SUBSET PaymentId, StaleLeft(w, rows), UNCHANGED <<unmatched, handled>>
       PROVE  SweepsTyped' /\ OutcomesTyped'
  BY <1>0, <1>11 DEF StaleLeft, NoSweep, SweepsTyped, Sweep, OutcomesTyped
<1>12. CASE ReadStale(w)
  BY <1>11, <1>12 DEF ReadStale
<1>13. ASSUME NEW p \in PaymentId, ExpireStalePayment(w, p)
       PROVE  SweepsTyped' /\ OutcomesTyped'
  BY <1>0, <1>11, <1>13 DEF ExpireStalePayment, Sweep
<1> QED
  BY <1>1, <1>2, <1>3, <1>4, <1>6, <1>7, <1>8, <1>9, <1>10, <1>12, <1>13 DEF SweepStep

\* The types of everything but the tables are kept.
LEMMA NextTyped ==
  ASSUME TypeOK, RowsConsistent, [Next]_vars
  PROVE  TypeOK'
<1>1. PaymentsTyped' /\ CreditTyped'
  BY NextTablesStep, TablesStepTyped DEF TypeOK
<1>2. RequestsTyped' /\ StaffTyped' /\ SweepsTyped' /\ SurroundingsTyped' /\ OutcomesTyped'
  <2> USE DEF TypeOK
  <2>1. ASSUME NEW r \in Requests, CreateIntent(r) PROVE TypeOK'
    BY <2>1, RequestStepTyped
  <2>2. ASSUME NEW p \in PaymentId, CancelPayment(p) \/ MarkPaymentSent(p)
        PROVE  UNCHANGED <<clock, settings, changes, chain, unmatched, req, staff,
                           sweep, crashes, handled>>
    BY <2>2 DEF CancelPayment, MarkPaymentSent
  <2>3. ASSUME NEW s \in Staff, StaffStep(s)
        PROVE  /\ StaffTyped'
               /\ UNCHANGED <<clock, settings, changes, chain, unmatched, req, sweep,
                              crashes, handled>>
    <3>1. NoCall \in StaffCall /\ NoCall.op = "idle"
      BY DEF NoCall, StaffCall
    <3>2. ASSUME NEW p \in PaymentId, NEW op \in {"settle", "reject"},
                 NEW ref \in References \cup {None}, BeginStaffCall(s, op, p, ref)
          PROVE  StaffTyped'
      <4>1. p # None
        BY ConstantsAssumption
      <4> QED
        BY <3>2, <4>1 DEF BeginStaffCall, StaffTyped, StaffCall
    <3>3. ASSUME staff' = [staff EXCEPT ![s] = NoCall] PROVE StaffTyped'
      <4>1. \A t \in Staff : staff'[t] = IF t = s THEN NoCall ELSE staff[t]
        BY <3>3 DEF StaffTyped
      <4>2. staff' \in [Staff -> StaffCall]
        BY <3>1, <3>3 DEF StaffTyped
      <4> QED
        BY <3>1, <4>1, <4>2 DEF StaffTyped
    <3>4. ASSUME SettlePaymentManually(s) \/ RejectPayment(s) PROVE StaffTyped'
      BY <3>3, <3>4 DEF SettlePaymentManually, RejectPayment
    <3>5. StaffTyped'
      BY <2>3, <3>2, <3>4 DEF StaffStep
    <3> QED
      BY <2>3, <3>5 DEF StaffStep, BeginStaffCall, SettlePaymentManually, RejectPayment
  <2>4. ASSUME NEW h \in Hashes, ResolveUnmatchedTransfer(h) 
        PROVE  /\ OutcomesTyped'
               /\ UNCHANGED <<clock, settings, changes, chain, req, staff, sweep, crashes>>
    BY <2>4 DEF ResolveUnmatchedTransfer, OutcomesTyped
  <2>5. ASSUME NEW new \in Settings, UpdateSettings(new)
        PROVE  /\ SurroundingsTyped'
               /\ UNCHANGED <<unmatched, req, staff, sweep, handled>>
    BY <2>5 DEF UpdateSettings, SurroundingsTyped
  <2>6. ASSUME NEW w \in Workers, SweepStep(w)
        PROVE  /\ SweepsTyped' /\ OutcomesTyped'
               /\ UNCHANGED <<clock, settings, changes, chain, req, staff, crashes>>
    <3>1. SweepsTyped' /\ OutcomesTyped'
      BY <2>6, SweepStepTyped
    <3> QED
      BY <2>6, <3>1
      DEF SweepStep, BeginSweep, FetchTransfers, TakeTransfer, MatchTransfer,
          ClaimTransfer, ClaimLost, RecordUnmatchedTransfer, ReadConfirming, ReadStale,
          CreditConfirmedPayment, ExpireStalePayment
  <2>7. ASSUME NEW w \in Workers, CrashSweep(w)
        PROVE  /\ SweepsTyped' /\ SurroundingsTyped'
               /\ UNCHANGED <<unmatched, req, staff, handled>>
    <3>1. NoSweep \in Sweep /\ NoSweep.pc = "idle"
      BY DEF NoSweep, Sweep
    <3> QED
      BY <2>7, <3>1 DEF CrashSweep, SweepsTyped, SurroundingsTyped
  <2>8. ASSUME NEW h \in Hashes, NEW a \in Addresses, NEW amount \in Amounts,
               MakeTransfer(h, a, amount)
        PROVE  /\ SurroundingsTyped'
               /\ UNCHANGED <<unmatched, req, staff, sweep, handled>>
    <3>1. amount \in Nat
      BY ConstantsAssumption
    <3> QED
      BY <2>8, <3>1 DEF MakeTransfer, SurroundingsTyped, Transfer
  <2>9. CASE Tick
    BY <2>9 DEF Tick, RequestsTyped, StaffTyped, SweepsTyped, SurroundingsTyped, OutcomesTyped
  <2>10. CASE UNCHANGED vars
    BY <2>10 DEF vars, RequestsTyped, StaffTyped, SweepsTyped, SurroundingsTyped, OutcomesTyped
  <2> QED
    BY <2>1, <2>2, <2>3, <2>4, <2>5, <2>6, <2>7, <2>8, <2>9, <2>10
    DEF Next, RequestsTyped, StaffTyped, SweepsTyped, SurroundingsTyped, OutcomesTyped
<1> QED
  BY <1>1, <1>2 DEF TypeOK

\* Rows keep their shapes, and what a sweep is confirming stays confirmable.
LEMMA NextRowsConsistent ==
  ASSUME TypeOK, RowsConsistent, [Next]_vars
  PROVE  RowsConsistent'
<1> USE DEF TypeOK
<1>1. TablesStep
  BY NextTablesStep
<1>2. ASSUME NEW p \in PaymentId
      PROVE  /\ pay'[p].status \in {"NONE", "PENDING"} => pay'[p].ref = None
             /\ pay'[p].status = "PROCESSING" => pay'[p].ref \in Hashes
  <2>1. CASE UNCHANGED pay
    BY <2>1 DEF RowsConsistent
  <2>2. ASSUME NEW o \in PaymentId, NEW row \in Payment, RowStep(o, row)
        PROVE  /\ pay'[p].status \in {"NONE", "PENDING"} => pay'[p].ref = None
               /\ pay'[p].status = "PROCESSING" => pay'[p].ref \in Hashes
    <3>1. pay'[p] = IF p = o THEN row ELSE pay[p]
      BY <2>2 DEF RowStep, PaymentsTyped
    <3> QED
      BY <2>2, <3>1 DEF RowStep, RowsConsistent
  <2> QED
    BY <1>1, <2>1, <2>2 DEF TablesStep
<1>3. ASSUME NEW p \in PaymentId, pay[p].status \in {"PROCESSING", "SUCCEEDED"},
             pay[p].ref \in Hashes
      PROVE  pay'[p].status \in {"PROCESSING", "SUCCEEDED"} /\ pay'[p].ref \in Hashes
  <2>1. CASE UNCHANGED pay
    BY <1>3, <2>1
  <2>2. ASSUME NEW o \in PaymentId, NEW row \in Payment, RowStep(o, row)
        PROVE  pay'[p].status \in {"PROCESSING", "SUCCEEDED"} /\ pay'[p].ref \in Hashes
    <3>1. pay'[p] = IF p = o THEN row ELSE pay[p]
      BY <2>2 DEF RowStep, PaymentsTyped
    <3> QED
      BY <1>3, <2>2, <3>1 DEF RowStep
  <2> QED
    BY <1>1, <2>1, <2>2 DEF TablesStep
<1>4. ASSUME NEW v \in Workers, sweep'[v].pc = "confirming", NEW p \in sweep'[v].rows
      PROVE  /\ p \in PaymentId
             /\ pay[p].status \in {"PROCESSING", "SUCCEEDED"} /\ pay[p].ref \in Hashes
  <2>0. sweep \in [Workers -> Sweep]
    BY DEF SweepsTyped
  <2>1. CASE sweep'[v] = sweep[v]
    BY <1>4, <2>0, <2>1 DEF RowsConsistent, Sweep
  <2>2. CASE ReadConfirming(v)
    BY <1>4, <2>0, <2>2 DEF ReadConfirming, RowsConsistent
  <2>3. ASSUME NEW o \in PaymentId, CreditConfirmedPayment(v, o)
        PROVE  sweep[v].pc = "confirming" /\ p \in sweep[v].rows
    BY <1>4, <2>0, <2>3 DEF CreditConfirmedPayment, Sweep
  <2>4. CASE \/ BeginSweep(v) \/ (\E served \in SUBSET Hashes : FetchTransfers(v, served))
             \/ (\E h \in Hashes : TakeTransfer(v, h))
             \/ MatchTransfer(v) \/ ClaimTransfer(v) \/ ClaimLost(v)
             \/ RecordUnmatchedTransfer(v) \/ ReadStale(v)
             \/ (\E o \in PaymentId : ExpireStalePayment(v, o)) \/ CrashSweep(v)
    <3>1. ASSUME NEW rows, StaleLeft(v, rows) PROVE sweep'[v].pc \in {"idle", "stale"}
      <4>1. sweep'[v] = IF rows = {} THEN NoSweep
                        ELSE [sweep[v] EXCEPT !.pc = "stale", !.rows = rows]
        BY <2>0, <3>1 DEF StaleLeft
      <4> QED
        BY <2>0, <4>1 DEF NoSweep, Sweep
    <3>2. ASSUME ReadStale(v) \/ (\E o \in PaymentId : ExpireStalePayment(v, o))
          PROVE  sweep'[v].pc # "confirming"
      BY <3>1, <3>2 DEF ReadStale, ExpireStalePayment
    <3>3. ASSUME BeginSweep(v) \/ CrashSweep(v) PROVE sweep'[v].pc # "confirming"
      <4>1. CASE BeginSweep(v)
        BY <2>0, <4>1 DEF BeginSweep, NoSweep
      <4>2. CASE CrashSweep(v)
        <5>1. sweep'[v] = NoSweep
          BY <2>0, <4>2 DEF CrashSweep
        <5> QED
          BY <5>1 DEF NoSweep
      <4> QED
        BY <3>3, <4>1, <4>2
    <3>5. ASSUME \/ \E served \in SUBSET Hashes : FetchTransfers(v, served)
                 \/ \E h \in Hashes : TakeTransfer(v, h)
                 \/ MatchTransfer(v)
          PROVE  sweep'[v].pc # "confirming"
      <4>1. sweep[v].pc \in {"fetch", "transfers", "match"}
        BY <3>5 DEF FetchTransfers, TakeTransfer, MatchTransfer
      <4>2. CASE \E served \in SUBSET Hashes : FetchTransfers(v, served)
        BY <2>0, <4>2 DEF FetchTransfers, Sweep
      <4>3. CASE \E h \in Hashes : TakeTransfer(v, h)
        BY <2>0, <4>1, <4>3 DEF TakeTransfer, Sweep
      <4>4. CASE MatchTransfer(v)
        BY <2>0, <4>4 DEF MatchTransfer, Sweep
      <4> QED
        BY <3>5, <4>2, <4>3, <4>4
    <3>4. ASSUME ClaimTransfer(v) \/ ClaimLost(v) \/ RecordUnmatchedTransfer(v)
          PROVE  sweep'[v].pc # "confirming"
      BY <2>0, <3>4 DEF ClaimTransfer, ClaimLost, RecordUnmatchedTransfer, TransferDone, Sweep
    <3> QED
      BY <1>4, <2>4, <3>2, <3>3, <3>4, <3>5
  <2>5. ASSUME NEW w \in Workers, w # v, SweepStep(w) \/ CrashSweep(w)
        PROVE  sweep'[v] = sweep[v]
    BY <2>0, <2>5
    DEF SweepStep, BeginSweep, FetchTransfers, TakeTransfer, MatchTransfer, ClaimTransfer,
        ClaimLost, TransferDone, RecordUnmatchedTransfer, ReadConfirming, ReadStale,
        CreditConfirmedPayment, ExpireStalePayment, StaleLeft, CrashSweep
  <2>6. CASE UNCHANGED sweep
    BY <2>1, <2>6
  <2>7. CASE SweepStep(v) \/ CrashSweep(v)
    BY <2>0, <2>2, <2>3, <2>4, <2>7 DEF SweepStep, RowsConsistent, Sweep
  <2>8. \/ \E w \in Workers : SweepStep(w) \/ CrashSweep(w)
        \/ UNCHANGED sweep
    BY DEF Next, vars, CreateIntent, BeginIntent, ReadQuote, ReadLive, ReadSettings,
        InsertWire, InsertBase, ReadTaken, Probe, CancelPayment, MarkPaymentSent,
        StaffStep, BeginStaffCall, SettlePaymentManually, RejectPayment,
        ResolveUnmatchedTransfer, UpdateSettings, MakeTransfer, Tick
  <2> QED
    BY <2>1, <2>5, <2>6, <2>7, <2>8
<1> QED
  BY <1>2, <1>3, <1>4 DEF RowsConsistent

\* The inductive invariant the theorems below share.
IInv == TypeOK /\ RowsConsistent

\* There is no payment at first.
LEMMA InitIInv == Init => IInv
<1> SUFFICES ASSUME Init PROVE IInv
  OBVIOUS
<1>1. TypeOK
  BY InitTypeOK
<1>2. RowsConsistent
  BY DEF Init, RowsConsistent, NoRow, NoSweep
<1> QED
  BY <1>1, <1>2 DEF IInv

\* Every step keeps the types and the consistency of the rows,
LEMMA NextIInv == IInv /\ [Next]_vars => IInv'
  BY NextTyped, NextRowsConsistent DEF IInv

\* which hold throughout.
LEMMA SpecIInv == Spec => []IInv
  BY InitIInv, NextIInv, PTL DEF Spec

\* Every variable stays in its domain, whatever the numbers of customers, keys,
\* sweeps, transfers and settlers.
THEOREM TypeCorrect == Spec => []TypeOK
  BY SpecIInv, PTL DEF IInv

\* A waiting payment carries no transfer and a confirming one keeps its own.
THEOREM RowsStayConsistent == Spec => []RowsConsistent
  BY SpecIInv, PTL DEF IInv

-----------------------------------------------------------------------------
(* Crediting *)

\* creditQuote runs once for each payment that succeeds and for no other.
THEOREM CreditsAreExact == Spec => []CreditedExactlyOnce
<1>1. Init => CreditedExactlyOnce
  BY DEF Init, CreditedExactlyOnce, NoRow
<1>2. IInv /\ CreditedExactlyOnce /\ [Next]_vars => CreditedExactlyOnce'
  <2> SUFFICES ASSUME IInv, CreditedExactlyOnce, [Next]_vars
               PROVE  CreditedExactlyOnce'
    OBVIOUS
  <2>1. TablesStep /\ PaymentsTyped /\ CreditTyped
    BY NextTablesStep DEF IInv, TypeOK
  <2>2. CASE UNCHANGED <<pay, quote, order, credits>>
    BY <2>2 DEF CreditedExactlyOnce
  <2>3. ASSUME NEW p \in PaymentId, NEW row \in Payment, RowStep(p, row)
        PROVE  CreditedExactlyOnce'
    <3>1. \A o \in PaymentId : pay'[o] = IF o = p THEN row ELSE pay[o]
      BY <2>1, <2>3 DEF RowStep, PaymentsTyped
    <3>2. CASE row.status = "SUCCEEDED" /\ pay[p].status # "SUCCEEDED"
      <4>1. CreditQuote(p) /\ credits[p] = 0
        BY <2>3, <3>2 DEF RowStep, CreditedExactlyOnce
      <4>2. \A o \in PaymentId : credits'[o] = IF o = p THEN 1 ELSE credits[o]
        BY <2>1, <4>1 DEF CreditQuote, CreditTyped
      <4> QED
        BY <3>1, <3>2, <4>2 DEF CreditedExactlyOnce
    <3>3. CASE ~(row.status = "SUCCEEDED" /\ pay[p].status # "SUCCEEDED")
      <4>1. UNCHANGED credits /\ (row.status = "SUCCEEDED" <=> pay[p].status = "SUCCEEDED")
        BY <2>3, <3>3 DEF RowStep, NoCredit
      <4> QED
        BY <3>1, <4>1 DEF CreditedExactlyOnce
    <3> QED
      BY <3>2, <3>3
  <2> QED
    BY <2>1, <2>2, <2>3 DEF TablesStep
<1> QED
  BY <1>1, <1>2, SpecIInv, PTL DEF Spec

\* No transfer hash and no bank reference ever stands on two payments.
THEOREM ReferencesAreExclusive == Spec => []ReferenceOnOnePayment
<1>1. Init => ReferenceOnOnePayment
  BY DEF Init, ReferenceOnOnePayment, NoRow
<1>2. IInv /\ ReferenceOnOnePayment /\ [Next]_vars => ReferenceOnOnePayment'
  <2> SUFFICES ASSUME IInv, ReferenceOnOnePayment, [Next]_vars
               PROVE  ReferenceOnOnePayment'
    OBVIOUS
  <2>1. TablesStep /\ PaymentsTyped
    BY NextTablesStep DEF IInv, TypeOK
  <2>2. CASE UNCHANGED <<pay, quote, order, credits>>
    BY <2>2 DEF ReferenceOnOnePayment
  <2>3. ASSUME NEW p \in PaymentId, NEW row \in Payment, RowStep(p, row)
        PROVE  ReferenceOnOnePayment'
    <3>1. \A o \in PaymentId : pay'[o] = IF o = p THEN row ELSE pay[o]
      BY <2>1, <2>3 DEF RowStep, PaymentsTyped
    <3>2. row.ref = None \/ row.ref = pay[p].ref \/ ~ClaimedByOther(p, row.ref)
      BY <2>3 DEF RowStep
    <3> QED
      BY <3>1, <3>2 DEF ReferenceOnOnePayment, ClaimedByOther
  <2> QED
    BY <2>1, <2>2, <2>3 DEF TablesStep
<1> QED
  BY <1>1, <1>2, SpecIInv, PTL DEF Spec

\* A quote is paid exactly when a payment for it succeeded, with its order at
\* PAID or beyond.
THEOREM PaidWithSettlement == Spec => []PaidExactlyWhenSettled
<1>1. Init => PaidExactlyWhenSettled
  BY DEF Init, PaidExactlyWhenSettled, NoRow
<1>2. IInv /\ PaidExactlyWhenSettled /\ [Next]_vars => PaidExactlyWhenSettled'
  <2> SUFFICES ASSUME IInv, PaidExactlyWhenSettled, [Next]_vars, NEW q \in Quotes
               PROVE  /\ quote'[q] = "PAID" <=>
                           \E p \in PaymentId :
                             pay'[p].quote = q /\ pay'[p].status = "SUCCEEDED"
                      /\ quote'[q] = "PAID" /\ order'[q] # None =>
                           OrderRank(order'[q]) >= OrderRank("PAID")
    BY DEF PaidExactlyWhenSettled
  <2>1. TablesStep /\ PaymentsTyped /\ CreditTyped
    BY NextTablesStep DEF IInv, TypeOK
  <2>2. CASE UNCHANGED <<pay, quote, order, credits>>
    BY <2>2 DEF PaidExactlyWhenSettled
  <2>3. ASSUME NEW p \in PaymentId, NEW row \in Payment, RowStep(p, row)
        PROVE  /\ quote'[q] = "PAID" <=>
                    \E o \in PaymentId :
                      pay'[o].quote = q /\ pay'[o].status = "SUCCEEDED"
               /\ quote'[q] = "PAID" /\ order'[q] # None =>
                    OrderRank(order'[q]) >= OrderRank("PAID")
    <3>1. \A o \in PaymentId : pay'[o] = IF o = p THEN row ELSE pay[o]
      BY <2>1, <2>3 DEF RowStep, PaymentsTyped
    <3>2. CASE row.status = "SUCCEEDED" /\ pay[p].status # "SUCCEEDED"
      <4>1. CreditQuote(p) /\ row.quote = pay[p].quote
        BY <2>3, <3>2 DEF RowStep
      <4>2. /\ quote'[q] = IF q = row.quote THEN "PAID" ELSE quote[q]
            /\ order'[q] = IF q = row.quote THEN AdvancedToPaid(order[q]) ELSE order[q]
        BY <2>1, <4>1 DEF CreditQuote, CreditTyped
      <4>3. order[q] \in OrderStatus \cup {None}
        BY <2>1 DEF CreditTyped
      <4>4. AdvancedToPaid(order[q]) # None =>
              OrderRank(AdvancedToPaid(order[q])) >= OrderRank("PAID")
        BY <4>3 DEF AdvancedToPaid, OrderRank, OrderStatus
      <4> QED
        BY <3>1, <3>2, <4>2, <4>4 DEF PaidExactlyWhenSettled
    <3>3. CASE ~(row.status = "SUCCEEDED" /\ pay[p].status # "SUCCEEDED")
      <4>1. /\ UNCHANGED <<quote, order>>
            /\ row.status = "SUCCEEDED" <=> pay[p].status = "SUCCEEDED"
            /\ row.status = "SUCCEEDED" => row.quote = pay[p].quote
        BY <2>3, <3>3 DEF RowStep, NoCredit
      <4> QED
        BY <3>1, <4>1 DEF PaidExactlyWhenSettled
    <3> QED
      BY <3>2, <3>3
  <2> QED
    BY <2>1, <2>2, <2>3 DEF TablesStep
<1> QED
  BY <1>1, <1>2, SpecIInv, PTL DEF Spec

\* A claimed reference stays claimed: no step takes one off its payment.
LEMMA ClaimedStays ==
  ASSUME IInv, [Next]_vars, NEW h \in Hashes, Claimed(h)
  PROVE  Claimed(h)'
<1>1. PICK p \in PaymentId : pay[p].ref = h
  BY DEF Claimed
<1>2. TablesStep /\ PaymentsTyped /\ h # None
  BY NextTablesStep, ConstantsAssumption DEF IInv, TypeOK
<1>3. CASE UNCHANGED pay
  BY <1>1, <1>3 DEF Claimed
<1>4. ASSUME NEW o \in PaymentId, NEW row \in Payment, RowStep(o, row)
      PROVE  pay'[p].ref = h
  <2>1. pay'[p] = IF p = o THEN row ELSE pay[p]
    BY <1>2, <1>4 DEF RowStep, PaymentsTyped
  <2>2. pay[p].status \notin {"NONE", "PENDING"}
    BY <1>1, <1>2 DEF IInv, RowsConsistent
  <2> QED
    BY <1>1, <1>4, <2>1, <2>2 DEF RowStep
<1> QED
  BY <1>1, <1>2, <1>3, <1>4 DEF TablesStep, Claimed

\* A transfer the sweep has answered for is on a payment or in the queue.
THEOREM NoTransferIsDropped == Spec => []NoTransferDropped
<1>1. Init => NoTransferDropped
  BY DEF Init, NoTransferDropped
<1>2. IInv /\ NoTransferDropped /\ [Next]_vars => NoTransferDropped'
  <2> SUFFICES ASSUME IInv, NoTransferDropped, [Next]_vars, NEW h \in handled'
               PROVE  Claimed(h)' \/ unmatched'[h] # "none"
    BY DEF NoTransferDropped
  <2>0. OutcomesTyped /\ OutcomesTyped' /\ SweepsTyped /\ PaymentsTyped
    BY NextTyped DEF IInv, TypeOK
  <2>1. h \in Hashes
    BY <2>0 DEF OutcomesTyped
  <2>2. unmatched[h] # "none" => unmatched'[h] # "none"
    <3>1. \A g \in Hashes : ResolveUnmatchedTransfer(g) => unmatched'[h] # "none" \/ unmatched[h] = "none"
      BY <2>0, <2>1 DEF ResolveUnmatchedTransfer, OutcomesTyped
    <3>2. \A w \in Workers : RecordUnmatchedTransfer(w) => unmatched'[h] # "none" \/ unmatched[h] = "none"
      BY <2>0, <2>1 DEF RecordUnmatchedTransfer, OutcomesTyped
    <3>3. \/ UNCHANGED unmatched
          \/ \E g \in Hashes : ResolveUnmatchedTransfer(g)
          \/ \E w \in Workers : RecordUnmatchedTransfer(w)
      <4>1. ASSUME NEW w \in Workers, SweepStep(w)
            PROVE  UNCHANGED unmatched \/ RecordUnmatchedTransfer(w)
        BY <4>1 DEF SweepStep, BeginSweep, FetchTransfers, TakeTransfer, MatchTransfer,
          ClaimTransfer, ClaimLost, ReadConfirming, ReadStale, CreditConfirmedPayment,
          ExpireStalePayment
      <4>2. ASSUME NEW r \in Requests, CreateIntent(r) PROVE UNCHANGED unmatched
        BY <4>2 DEF CreateIntent, BeginIntent, ReadQuote, ReadLive, ReadSettings,
          InsertWire, InsertBase, ReadTaken, Probe
      <4>3. ASSUME NEW s \in Staff, StaffStep(s) PROVE UNCHANGED unmatched
        BY <4>3 DEF StaffStep, BeginStaffCall, SettlePaymentManually, RejectPayment
      <4> QED
        BY <4>1, <4>2, <4>3
        DEF Next, vars, CancelPayment, MarkPaymentSent, UpdateSettings, CrashSweep,
            MakeTransfer, Tick
    <3> QED
      BY <3>1, <3>2, <3>3
  <2>3. CASE h \in handled
    BY <2>1, <2>2, <2>3, ClaimedStays DEF NoTransferDropped
  <2>4. ASSUME NEW w \in Workers, SweepStep(w), h \notin handled
        PROVE  Claimed(h) \/ Claimed(h)' \/ unmatched'[h] # "none"
    <3>1. ASSUME NEW g \in Hashes, TakeTransfer(w, g) PROVE Claimed(h)
      BY <2>4, <3>1 DEF TakeTransfer
    <3>2. ASSUME ClaimTransfer(w) PROVE Claimed(h)'
      <4>1. h = sweep[w].hash /\ sweep[w].pick \in PaymentId
        BY <2>0, <2>4, <3>2 DEF ClaimTransfer, TransferDone, SweepsTyped, Sweep
      <4>2. pay'[sweep[w].pick].ref = h
        BY <2>0, <3>2, <4>1 DEF ClaimTransfer, PaymentsTyped, Payment
      <4> QED
        BY <4>1, <4>2 DEF Claimed
    <3>3. ASSUME ClaimLost(w) PROVE Claimed(h)
      BY <2>4, <3>3 DEF ClaimLost, TransferDone
    <3>4. ASSUME RecordUnmatchedTransfer(w) PROVE unmatched'[h] # "none"
      BY <2>0, <2>1, <2>4, <3>4 DEF RecordUnmatchedTransfer, TransferDone, OutcomesTyped
    <3> QED
      BY <2>4, <3>1, <3>2, <3>3, <3>4
      DEF SweepStep, BeginSweep, FetchTransfers, MatchTransfer, ReadConfirming, ReadStale,
          CreditConfirmedPayment, ExpireStalePayment
  <2>5. h \in handled \/ \E w \in Workers : SweepStep(w)
    BY DEF Next, vars, CreateIntent, BeginIntent, ReadQuote, ReadLive, ReadSettings,
          InsertWire, InsertBase, ReadTaken, Probe, CancelPayment, MarkPaymentSent,
          StaffStep, BeginStaffCall, SettlePaymentManually, RejectPayment,
          ResolveUnmatchedTransfer, UpdateSettings, CrashSweep, MakeTransfer, Tick
  <2> QED
    BY <2>1, <2>3, <2>4, <2>5, ClaimedStays
<1> QED
  BY <1>1, <1>2, SpecIInv, PTL DEF Spec

-----------------------------------------------------------------------------
(* The tables implement the ledger *)

\* A table without payments is an empty ledger.
LEMMA InitLedger == Init => Ledger!Init
  BY DEF Init, Ledger!Init, LedgerState, NoRow

\* A row step is one decision of the ledger, or none.
LEMMA RowStepIsDecision ==
  ASSUME IInv, NEW p \in PaymentId, NEW row \in Payment, RowStep(p, row)
  PROVE  [Ledger!Next]_(Ledger!ledger)
<1> DEFINE state == [o \in PaymentId |-> LedgerState(pay[o].status)]
           owed == [o \in PaymentId |-> pay[o].quote]
           money == [o \in PaymentId |-> pay[o].ref]
           paid == {q \in Quotes : quote[q] = "PAID"}
<1>0. PaymentsTyped /\ CreditTyped /\ RowsConsistent
  BY DEF IInv, TypeOK
<1>1. \A o \in PaymentId : pay'[o] = IF o = p THEN row ELSE pay[o]
  BY <1>0 DEF RowStep, PaymentsTyped
<1>2. /\ state' = [state EXCEPT ![p] = LedgerState(row.status)]
      /\ owed' = [owed EXCEPT ![p] = row.quote]
      /\ money' = [money EXCEPT ![p] = row.ref]
  BY <1>1
<1>3. CASE row.status = "SUCCEEDED" /\ pay[p].status # "SUCCEEDED"
  <2>1. CreditQuote(p) /\ pay[p].status \in {"PENDING", "PROCESSING"} /\ row.quote = pay[p].quote
    BY <1>3 DEF RowStep
  <2>2. pay[p].quote \in Quotes /\ owed[p] = pay[p].quote
    BY <1>0, <2>1 DEF PaymentsTyped, Payment
  <2>3. paid' = paid \cup {owed[p]} /\ owed' = owed
    <3>1. quote' = [quote EXCEPT ![pay[p].quote] = "PAID"]
      BY <2>1 DEF CreditQuote
    <3>2. \A q \in Quotes : quote'[q] = "PAID" <=> quote[q] = "PAID" \/ q = pay[p].quote
      BY <1>0, <3>1 DEF CreditTyped
    <3>3. paid' = paid \cup {pay[p].quote}
      BY <2>2, <3>2
    <3>4. owed' = owed
      BY <1>2, <2>1
    <3> QED
      BY <2>2, <3>3, <3>4
  <2>4. state[p] = LedgerState(pay[p].status) /\ LedgerState(row.status) = "credited"
    BY <1>3 DEF LedgerState
  <2>5. CASE pay[p].status = "PROCESSING"
    <3>1. money' = money /\ state[p] = "confirming"
      BY <1>2, <1>3, <2>4, <2>5 DEF RowStep, LedgerState
    <3>2. Ledger!Confirm(p)
      BY <1>2, <2>3, <2>4, <3>1 DEF Ledger!Confirm, Ledger!PayDebt
    <3> QED
      BY <3>2 DEF Ledger!Next
  <2>6. CASE pay[p].status = "PENDING" /\ row.ref = None
    <3>1. money' = money /\ state[p] = "open"
      BY <1>0, <1>2, <2>4, <2>6 DEF RowsConsistent, LedgerState
    <3>2. Ledger!Vouch(p)
      BY <1>2, <2>3, <2>4, <3>1 DEF Ledger!Vouch, Ledger!PayDebt
    <3> QED
      BY <3>2 DEF Ledger!Next
  <2>7. CASE pay[p].status = "PENDING" /\ row.ref # None
    <3>1. row.ref \in References /\ ~ClaimedByOther(p, row.ref) /\ pay[p].ref = None
      BY <1>0, <1>3, <2>7 DEF RowStep, RowsConsistent, Payment
    <3>2. \A o \in PaymentId : money[o] # row.ref
      BY <2>7, <3>1 DEF ClaimedByOther
    <3>3. state[p] = "open"
      BY <2>4, <2>7 DEF LedgerState
    <3>4. Ledger!Take(p, row.ref, "credited")
      BY <1>2, <2>3, <2>4, <3>2, <3>3 DEF Ledger!Take, Ledger!PayDebt, Ledger!Free
    <3> QED
      BY <3>1, <3>4 DEF Ledger!Next
  <2> QED
    BY <2>1, <2>5, <2>6, <2>7
<1>4. CASE ~(row.status = "SUCCEEDED" /\ pay[p].status # "SUCCEEDED")
  <2>1. paid' = paid
    BY <1>4 DEF RowStep, NoCredit
  <2>2. CASE pay[p].status = "NONE"
    <3>1. row.quote \in Quotes /\ state[p] = "none" /\ LedgerState(row.status) = "open"
      BY <2>2 DEF RowStep, LedgerState, Payment
    <3>2. money' = money
      BY <1>0, <1>2, <2>2 DEF RowStep, RowsConsistent
    <3>3. Ledger!Open(p, row.quote)
      BY <1>2, <2>1, <3>1, <3>2 DEF Ledger!Open
    <3> QED
      BY <3>1, <3>3 DEF Ledger!Next
  <2>3. CASE pay[p].status # "NONE" /\ row.status = pay[p].status /\ row.ref = pay[p].ref
    <3>1. row.quote = pay[p].quote
      BY <2>3 DEF RowStep
    <3>2. state' = state /\ owed' = owed /\ money' = money
      BY <1>2, <2>3, <3>1
    <3> QED
      BY <2>1, <3>2 DEF Ledger!ledger
  <2>4. CASE pay[p].status = "PENDING" /\ row.status \in {"CANCELLED", "FAILED"}
             /\ row.ref = pay[p].ref
    <3>1. row.quote = pay[p].quote /\ state[p] = "open" /\ LedgerState(row.status) = "closed"
      BY <2>4 DEF RowStep, LedgerState
    <3>2. owed' = owed /\ money' = money
      BY <1>2, <2>4, <3>1
    <3>3. Ledger!Close(p)
      BY <1>2, <2>1, <3>1, <3>2 DEF Ledger!Close
    <3> QED
      BY <3>3 DEF Ledger!Next
  <2>5. CASE /\ pay[p].status = "PENDING" /\ row.ref \in Hashes
             /\ row.status \in {"PROCESSING", "UNDERPAID", "OVERPAID"}
             /\ ~ClaimedByOther(p, row.ref)
    <3>1. /\ row.ref \in References /\ row.ref # None /\ pay[p].ref = None
          /\ row.quote = pay[p].quote
      BY <1>0, <2>5, ConstantsAssumption DEF RowStep, RowsConsistent
    <3>2. /\ state[p] = "open"
          /\ LedgerState(row.status) \in {"confirming", "mismatched"}
      BY <2>5 DEF LedgerState
    <3>3. \A o \in PaymentId : money[o] # row.ref
      BY <2>5, <3>1 DEF ClaimedByOther
    <3>4. Ledger!Take(p, row.ref, LedgerState(row.status))
      BY <1>2, <2>1, <3>1, <3>2, <3>3 DEF Ledger!Take, Ledger!Free
    <3> QED
      BY <3>1, <3>2, <3>4 DEF Ledger!Next
  <2> QED
    BY <1>4, <2>2, <2>3, <2>4, <2>5 DEF RowStep
<1> QED
  BY <1>3, <1>4

\* The handlers implement the ledger: seen through the mapping, every step of
\* every interleaving is one of the ledger's decisions or none.
THEOREM ImplementsLedger == Spec => LedgerSpec
<1>1. IInv /\ [Next]_vars => [Ledger!Next]_(Ledger!ledger)
  <2> SUFFICES ASSUME IInv, [Next]_vars PROVE [Ledger!Next]_(Ledger!ledger)
    OBVIOUS
  <2>1. TablesStep
    BY NextTablesStep DEF IInv
  <2>2. CASE UNCHANGED <<pay, quote, order, credits>>
    BY <2>2 DEF Ledger!ledger
  <2> QED
    BY <2>1, <2>2, RowStepIsDecision DEF TablesStep
<1> QED
  BY <1>1, InitLedger, SpecIInv, PTL DEF Spec, LedgerSpec, Ledger!Spec

-----------------------------------------------------------------------------
(* Only an earned transfer credits *)

\* The transfer on p is for its amount, to its address and in time.
Earned(p) ==
  /\ pay[p].provider = "USDT" /\ pay[p].ref \in Hashes /\ OnChain(pay[p].ref)
  /\ LET transfer == chain[pay[p].ref] IN
       /\ transfer.to = pay[p].addr /\ transfer.amount = pay[p].expected
       /\ transfer.at <= pay[p].expires

Deep(p) == clock >= chain[pay[p].ref].at + pay[p].depth

\* A confirming payment has earned its transfer, one the poller credited has
\* also seen it confirm.
Deserved(p) ==
  /\ pay[p].status = "PROCESSING" => Earned(p)
  /\ pay[p].status = "SUCCEEDED" /\ ~pay[p].byHand => Earned(p) /\ Deep(p)

\* What a sweep holds is on the chain, no older than it thinks, and the payment
\* it picked watches the address the transfer was sent to.
Informed(w) ==
  /\ sweep[w].now <= clock
  /\ sweep[w].pc = "fetch" => sweep[w].addr # None
  /\ \A h \in sweep[w].todo : OnChain(h)
  /\ sweep[w].pc \in {"match", "claim", "record"} => OnChain(sweep[w].hash)
  /\ sweep[w].pc = "claim" /\ sweep[w].pick # None =>
       /\ pay[sweep[w].pick].status # "NONE"
       /\ pay[sweep[w].pick].provider = "USDT"
       /\ pay[sweep[w].pick].addr = chain[sweep[w].hash].to

EarnedInv ==
  /\ \A p \in PaymentId : Deserved(p)
  /\ \A w \in Workers : Informed(w)
  /\ \A h \in Hashes : chain[h].at <= clock

\* What a payment locked when it was opened.
Locked(row) == <<row.quote, row.provider, row.addr, row.expected, row.expires, row.depth>>

\* The step gives p no standing it did not have.
Kept(p) ==
  /\ pay[p].status # "NONE" => Locked(pay'[p]) = Locked(pay[p])
  /\ \/ pay'[p].status = "PROCESSING"
     \/ pay'[p].status = "SUCCEEDED" /\ ~pay'[p].byHand
     => /\ pay'[p].status = pay[p].status /\ pay'[p].byHand = pay[p].byHand
        /\ pay'[p].ref = pay[p].ref

\* A payment that is opened gives no other a standing.
LEMMA KeptByInsert ==
  ASSUME PaymentsTyped, NEW r, NEW row \in Payment, row.status = "PENDING",
         InsertRow(r, row)
  PROVE  \A p \in PaymentId : Kept(p)
BY DEF InsertRow, Kept, PaymentsTyped

\* No request, customer or settler makes a payment confirm, or credits one for
\* its transfer.
LEMMA KeptByPeople ==
  ASSUME IInv,
         \/ \E r \in Requests : CreateIntent(r)
         \/ \E p \in PaymentId : CancelPayment(p) \/ MarkPaymentSent(p)
         \/ \E s \in Staff : StaffStep(s)
  PROVE  \A p \in PaymentId : Kept(p)
<1> USE DEF IInv, TypeOK
<1>1. CASE UNCHANGED pay
  BY <1>1 DEF Kept
<1>2. ASSUME NEW o \in PaymentId, CancelPayment(o) \/ MarkPaymentSent(o)
      PROVE  \A p \in PaymentId : Kept(p)
  BY <1>2 DEF CancelPayment, MarkPaymentSent, Kept, Locked, PaymentsTyped, Payment
<1>3. ASSUME NEW s \in Staff, SettlePaymentManually(s), pay' # pay
      PROVE  \A p \in PaymentId : Kept(p)
  <2>1. staff[s].payment \in PaymentId
    BY <1>3 DEF SettlePaymentManually, StaffTyped, StaffCall
  <2>2. pay' = [pay EXCEPT ![staff[s].payment].status = "SUCCEEDED",
                           ![staff[s].payment].ref = staff[s].ref,
                           ![staff[s].payment].byHand = TRUE]
    BY <1>3 DEF SettlePaymentManually
  <2>3. ASSUME NEW p \in PaymentId PROVE Kept(p)
    <3>1. CASE p = staff[s].payment
      <4>1. pay'[p].byHand /\ pay'[p].status = "SUCCEEDED" /\ Locked(pay'[p]) = Locked(pay[p])
        BY <2>1, <2>2, <3>1 DEF Locked, PaymentsTyped, Payment
      <4> QED
        BY <4>1 DEF Kept
    <3>2. CASE p # staff[s].payment
      BY <2>1, <2>2, <3>2 DEF Kept, PaymentsTyped
    <3> QED
      BY <3>1, <3>2
  <2> QED
    BY <2>3
<1>4. ASSUME NEW s \in Staff, RejectPayment(s), pay' # pay
      PROVE  \A p \in PaymentId : Kept(p)
  <2>1. staff[s].payment \in PaymentId
    BY <1>4 DEF RejectPayment, StaffTyped, StaffCall
  <2>2. pay' = [pay EXCEPT ![staff[s].payment].status = "CANCELLED"]
    BY <1>4 DEF RejectPayment
  <2> QED
    BY <2>1, <2>2 DEF Kept, Locked, PaymentsTyped, Payment
<1>5. ASSUME NEW r \in Requests, CreateIntent(r), pay' # pay
      PROVE  \A p \in PaymentId : Kept(p)
  <2>0. req[r] \in Request /\ (req[r].quote \in Quotes => Total[req[r].quote] \in Nat)
    BY ConstantsAssumption DEF RequestsTyped
  <2>2. req[r].pc # "new" /\ req[r].quote \in Quotes
    BY <1>5, <2>0 DEF CreateIntent, BeginIntent, ReadQuote, ReadLive, ReadSettings,
         InsertWire, InsertBase, ReadTaken, Probe, RequestsTyped, Request
  <2>3. Total[req[r].quote] \in Nat /\ Total[req[r].quote] + req[r].nudge \in Nat
    BY <2>0, <2>2 DEF Request
  <2>4. CASE InsertWire(r)
    BY <1>5, <2>2, <2>4, NewRowsTyped, KeptByInsert DEF InsertWire
  <2>5. CASE InsertBase(r)
    BY <1>5, <2>2, <2>3, <2>5, NewRowsTyped, KeptByInsert DEF InsertBase
  <2>6. CASE Probe(r)
    BY <1>5, <2>2, <2>3, <2>6, NewRowsTyped, KeptByInsert DEF Probe
  <2> QED
    BY <1>5, <2>4, <2>5, <2>6
    DEF CreateIntent, BeginIntent, ReadQuote, ReadLive, ReadSettings, ReadTaken
<1> QED
  BY <1>1, <1>2, <1>3, <1>4, <1>5 DEF StaffStep, BeginStaffCall

\* Transfers stay as they were made, and time only passes.
LEMMA ChainStays ==
  ASSUME IInv, EarnedInv, [Next]_vars
  PROVE  /\ clock' >= clock
         /\ \A h \in Hashes : OnChain(h) => chain'[h] = chain[h]
         /\ \A h \in Hashes : chain'[h].at <= clock'
<1>0. clock \in Nat /\ chain \in [Hashes -> Transfer]
  BY DEF IInv, TypeOK, SurroundingsTyped
<1>1. ASSUME UNCHANGED <<clock, chain>>
      PROVE  /\ clock' >= clock
             /\ \A h \in Hashes : OnChain(h) => chain'[h] = chain[h]
             /\ \A h \in Hashes : chain'[h].at <= clock'
  BY <1>0, <1>1 DEF EarnedInv
<1>2. CASE Tick
  <2>1. \A h \in Hashes : chain[h].at \in Nat
    BY <1>0 DEF Transfer
  <2> QED
    BY <1>0, <1>2, <2>1 DEF Tick, EarnedInv
<1>3. ASSUME NEW g \in Hashes, NEW a \in Addresses, NEW amount \in Amounts,
             MakeTransfer(g, a, amount)
      PROVE  /\ clock' >= clock
             /\ \A h \in Hashes : OnChain(h) => chain'[h] = chain[h]
             /\ \A h \in Hashes : chain'[h].at <= clock'
  <2>1. /\ UNCHANGED clock /\ ~OnChain(g)
        /\ chain' = [chain EXCEPT ![g] = [to |-> a, amount |-> amount, at |-> clock]]
    BY <1>3 DEF MakeTransfer
  <2>2. \A h \in Hashes : chain'[h] = IF h = g THEN [to |-> a, amount |-> amount, at |-> clock]
                                             ELSE chain[h]
    BY <1>0, <2>1
  <2> QED
    BY <1>0, <2>1, <2>2 DEF EarnedInv
<1> QED
  <2>1. UNCHANGED <<clock, chain>> \/ Tick
        \/ \E h \in Hashes, a \in Addresses, amount \in Amounts : MakeTransfer(h, a, amount)
    <3>1. ASSUME NEW w \in Workers, SweepStep(w) \/ CrashSweep(w)
          PROVE  UNCHANGED <<clock, chain>>
      BY <3>1 DEF SweepStep, CrashSweep, BeginSweep, FetchTransfers, TakeTransfer,
        MatchTransfer, ClaimTransfer, ClaimLost, RecordUnmatchedTransfer, ReadConfirming,
        ReadStale, CreditConfirmedPayment, ExpireStalePayment
    <3>2. ASSUME NEW r \in Requests, CreateIntent(r) PROVE UNCHANGED <<clock, chain>>
      BY <3>2 DEF CreateIntent, BeginIntent, ReadQuote, ReadLive, ReadSettings,
        InsertWire, InsertBase, ReadTaken, Probe
    <3>3. ASSUME NEW s \in Staff, StaffStep(s) PROVE UNCHANGED <<clock, chain>>
      BY <3>3 DEF StaffStep, BeginStaffCall, SettlePaymentManually, RejectPayment
    <3> QED
      BY <3>1, <3>2, <3>3 DEF Next, vars, CancelPayment, MarkPaymentSent,
        ResolveUnmatchedTransfer, UpdateSettings
  <2> QED
    BY <1>1, <1>2, <1>3, <2>1

\* A payment given no new standing deserves what it had.
LEMMA KeptDeserves ==
  ASSUME IInv, EarnedInv, [Next]_vars, NEW p \in PaymentId, Kept(p)
  PROVE  Deserved(p)'
<1>0. pay[p] \in Payment /\ clock \in Nat /\ chain \in [Hashes -> Transfer] /\ clock' \in Nat
  BY NextTyped DEF IInv, TypeOK, PaymentsTyped, SurroundingsTyped
<1>1. SUFFICES ASSUME pay'[p].status \in {"PROCESSING", "SUCCEEDED"},
                      pay'[p].status = "SUCCEEDED" => ~pay'[p].byHand
               PROVE  Earned(p)' /\ (pay'[p].status = "SUCCEEDED" => Deep(p)')
  BY DEF Deserved
<1>2. /\ pay'[p].status = pay[p].status /\ pay'[p].byHand = pay[p].byHand
      /\ pay'[p].ref = pay[p].ref /\ Locked(pay'[p]) = Locked(pay[p])
  BY <1>1 DEF Kept
<1>3. Earned(p) /\ (pay[p].status = "SUCCEEDED" => Deep(p))
  BY <1>1, <1>2 DEF EarnedInv, Deserved
<1>4. pay[p].ref \in Hashes /\ chain'[pay[p].ref] = chain[pay[p].ref] /\ clock' >= clock
  BY <1>3, ChainStays DEF Earned
<1>5. Earned(p)'
  BY <1>2, <1>3, <1>4 DEF Earned, Locked, OnChain
<1>6. pay[p].status = "SUCCEEDED" => Deep(p)'
  BY <1>0, <1>2, <1>3, <1>4 DEF Deep, Locked, Transfer, Payment
<1> QED
  BY <1>2, <1>5, <1>6

\* A claim credits only what was earned.
LEMMA ClaimDeserves ==
  ASSUME IInv, EarnedInv, NEW w \in Workers, ClaimTransfer(w), NEW p \in PaymentId
  PROVE  Deserved(p)' /\ Locked(pay'[p]) = Locked(pay[p])
<1> DEFINE o == sweep[w].pick
           h == sweep[w].hash
           status == SettledStatus(o, h, sweep[w].now)
<1>0. /\ pay \in [PaymentId -> Payment] /\ o \in PaymentId /\ h \in Hashes
      /\ sweep[w].now \in Nat /\ clock \in Nat /\ chain[h] \in Transfer
  BY DEF IInv, TypeOK, PaymentsTyped, SweepsTyped, Sweep, ClaimTransfer, SurroundingsTyped
<1>1. /\ pay' = [pay EXCEPT ![o].status = status, ![o].ref = h,
                            ![o].confirmations = Confirmations(sweep[w].now, chain[h].at)]
      /\ UNCHANGED <<clock, chain>>
  BY DEF ClaimTransfer
<1>2. CASE p # o
  BY <1>0, <1>1, <1>2 DEF EarnedInv, Deserved, Earned, Deep, OnChain, Locked
<1>3. CASE p = o
  <2>1. /\ pay'[p].status = status /\ pay'[p].ref = h
        /\ Locked(pay'[p]) = Locked(pay[p]) /\ chain' = chain /\ clock' = clock
    BY <1>0, <1>1, <1>3 DEF Locked, Payment
  <2>2. /\ pay[p].provider = "USDT" /\ pay[p].addr = chain[h].to /\ OnChain(h)
        /\ sweep[w].now <= clock /\ chain[h].at <= clock
    BY <1>0, <1>3 DEF EarnedInv, Informed, ClaimTransfer
  <2>3. /\ chain[h].at \in Nat /\ chain[h].amount \in Nat
        /\ pay[p].expected \in Nat /\ pay[p].expires \in Nat /\ pay[p].depth \in Nat
    BY <1>0, <1>3 DEF Transfer, Payment
  <2>4. status \in {"PROCESSING", "SUCCEEDED"} =>
          chain[h].amount = pay[p].expected /\ chain[h].at <= pay[p].expires
    BY <1>3, <2>3 DEF SettledStatus
  <2>5. status = "SUCCEEDED" => Confirmations(sweep[w].now, chain[h].at) >= pay[p].depth
    BY <1>0, <1>3, <2>3 DEF SettledStatus, Confirmations
  <2>6. status = "SUCCEEDED" => clock >= chain[h].at + pay[p].depth
    BY <1>0, <2>2, <2>3, <2>5 DEF Confirmations
  <2> HIDE DEF status
  <2> QED
    BY <1>0, <2>1, <2>2, <2>4, <2>6 DEF Deserved, Earned, Deep, OnChain, Locked
<1> QED
  BY <1>2, <1>3

\* Confirming credits only what was earned, once it is deep enough.
LEMMA ConfirmationDeserves ==
  ASSUME IInv, EarnedInv, NEW w \in Workers, NEW o \in PaymentId,
         CreditConfirmedPayment(w, o), NEW p \in PaymentId
  PROVE  Deserved(p)' /\ Locked(pay'[p]) = Locked(pay[p])
<1> DEFINE h == pay[o].ref
           depth == Confirmations(sweep[w].now, chain[h].at)
<1>0. /\ pay \in [PaymentId -> Payment] /\ sweep[w].now \in Nat /\ clock \in Nat
      /\ pay[o].ref \in Hashes /\ chain[h] \in Transfer
  BY DEF IInv, TypeOK, PaymentsTyped, SweepsTyped, Sweep, SurroundingsTyped,
         RowsConsistent, CreditConfirmedPayment
<1>1. UNCHANGED <<clock, chain>> /\ sweep[w].now <= clock /\ chain[h].at <= clock
  BY <1>0 DEF CreditConfirmedPayment, EarnedInv, Informed
<1>2. CASE p # o \/ UNCHANGED pay
  <2>1. pay'[p] = pay[p]
    BY <1>0, <1>2 DEF CreditConfirmedPayment
  <2> QED
    BY <1>0, <1>1, <2>1 DEF EarnedInv, Deserved, Earned, Deep, OnChain
<1>3. CASE p = o /\ depth >= pay[o].depth /\ pay[o].status = "PROCESSING"
  <2>1. pay' = [pay EXCEPT ![p].status = "SUCCEEDED", ![p].confirmations = depth]
    BY <1>3 DEF CreditConfirmedPayment
  <2>2. /\ Locked(pay'[p]) = Locked(pay[p]) /\ pay'[p].ref = h
        /\ pay'[p].status = "SUCCEEDED"
    BY <1>0, <1>3, <2>1 DEF Locked, Payment
  <2>3. Earned(p)
    BY <1>3 DEF EarnedInv, Deserved
  <2>4. clock >= chain[h].at + pay[p].depth
    BY <1>0, <1>1, <1>3 DEF Confirmations, Transfer, Payment
  <2> QED
    BY <1>1, <1>3, <2>2, <2>3, <2>4 DEF Deserved, Earned, Deep, OnChain, Locked
<1>4. CASE p = o /\ pay' = [pay EXCEPT ![o].confirmations = depth]
  <2>1. /\ Locked(pay'[p]) = Locked(pay[p]) /\ pay'[p].ref = pay[p].ref
        /\ pay'[p].status = pay[p].status /\ pay'[p].byHand = pay[p].byHand
    BY <1>0, <1>4 DEF Locked, Payment
  <2> QED
    BY <1>1, <2>1 DEF EarnedInv, Deserved, Earned, Deep, OnChain, Locked
<1> QED
  BY <1>2, <1>3, <1>4 DEF CreditConfirmedPayment

\* Expiry gives no standing, and the rest of a sweep touches no payment.
LEMMA KeptBySweep ==
  ASSUME IInv, NEW w \in Workers, SweepStep(w), ~ClaimTransfer(w),
         \A o \in PaymentId : ~CreditConfirmedPayment(w, o)
  PROVE  \A p \in PaymentId : Kept(p)
<1>0. pay \in [PaymentId -> Payment]
  BY DEF IInv, TypeOK, PaymentsTyped
<1>1. ASSUME NEW o \in PaymentId, ExpireStalePayment(w, o), pay' # pay
      PROVE  \A p \in PaymentId : Kept(p)
  <2>1. pay' = [pay EXCEPT ![o].status = "FAILED"]
    BY <1>1 DEF ExpireStalePayment
  <2> QED
    BY <1>0, <2>1 DEF Kept, Locked, Payment
<1>2. CASE UNCHANGED pay
  BY <1>2 DEF Kept
<1> QED
  BY <1>1, <1>2
  DEF SweepStep, BeginSweep, FetchTransfers, TakeTransfer, MatchTransfer, ClaimLost,
      RecordUnmatchedTransfer, ReadConfirming, ReadStale

\* Every step keeps what payments deserve and what they locked.
LEMMA NextDeserves ==
  ASSUME IInv, EarnedInv, [Next]_vars, NEW p \in PaymentId
  PROVE  /\ Deserved(p)'
         /\ pay[p].status # "NONE" =>
              pay'[p].status # "NONE" /\ Locked(pay'[p]) = Locked(pay[p])
<1>1. pay[p].status # "NONE" => pay'[p].status # "NONE"
  <2>1. TablesStep /\ PaymentsTyped
    BY NextTablesStep DEF IInv, TypeOK
  <2>2. ASSUME NEW o \in PaymentId, NEW row \in Payment, RowStep(o, row)
        PROVE  pay[p].status # "NONE" => pay'[p].status # "NONE"
    BY <2>1, <2>2 DEF RowStep, PaymentsTyped
  <2> QED
    BY <2>1, <2>2 DEF TablesStep
<1>2. CASE Kept(p)
  BY <1>1, <1>2, KeptDeserves DEF Kept
<1>3. ASSUME NEW w \in Workers, SweepStep(w)
      PROVE  Deserved(p)' /\ (pay[p].status # "NONE" => Locked(pay'[p]) = Locked(pay[p]))
  BY <1>2, <1>3, ClaimDeserves, ConfirmationDeserves, KeptBySweep
<1>4. CASE UNCHANGED pay
  BY <1>2, <1>4 DEF Kept
<1> QED
  BY <1>1, <1>2, <1>3, <1>4, KeptByPeople
  DEF Next, vars, ResolveUnmatchedTransfer, UpdateSettings, CrashSweep, MakeTransfer, Tick

\* Sweeps stay informed.
LEMMA SweepStepInforms ==
  ASSUME IInv, EarnedInv, NEW w \in Workers, SweepStep(w) \/ CrashSweep(w),
         NEW v \in Workers, sweep'[v] # sweep[v]
  PROVE  /\ v = w /\ sweep'[v].now <= clock
         /\ sweep'[v].pc = "fetch" => sweep'[v].addr # None
         /\ \A h \in sweep'[v].todo : OnChain(h)
         /\ sweep'[v].pc \in {"match", "claim", "record"} => OnChain(sweep'[v].hash)
         /\ sweep'[v].pc = "claim" /\ sweep'[v].pick # None =>
              /\ pay[sweep'[v].pick].status # "NONE"
              /\ pay[sweep'[v].pick].provider = "USDT"
              /\ pay[sweep'[v].pick].addr = chain[sweep'[v].hash].to
<1> DEFINE Goal == /\ sweep'[w].now <= clock
                   /\ sweep'[w].pc = "fetch" => sweep'[w].addr # None
                   /\ \A h \in sweep'[w].todo : OnChain(h)
                   /\ sweep'[w].pc \in {"match", "claim", "record"} => OnChain(sweep'[w].hash)
                   /\ sweep'[w].pc = "claim" /\ sweep'[w].pick # None =>
                        /\ pay[sweep'[w].pick].status # "NONE"
                        /\ pay[sweep'[w].pick].provider = "USDT"
                        /\ pay[sweep'[w].pick].addr = chain[sweep'[w].hash].to
<1>0. /\ sweep \in [Workers -> Sweep] /\ clock \in Nat /\ sweep[w] \in Sweep
      /\ chain \in [Hashes -> Transfer]
  BY DEF IInv, TypeOK, SweepsTyped, SurroundingsTyped
<1>a. Informed(w)
  BY DEF EarnedInv
<1>1. CASE BeginSweep(w)
  <2>1. sweep'[w] = [NoSweep EXCEPT !.pc = "fetch", !.now = clock, !.addr = settings.addr]
        /\ settings.addr # None
    BY <1>0, <1>1 DEF BeginSweep
  <2>2. Goal
    BY <1>0, <2>1 DEF NoSweep
  <2> QED
    BY <1>0, <1>1, <2>2 DEF BeginSweep
<1>2. ASSUME NEW served \in SUBSET Hashes, FetchTransfers(w, served) PROVE v = w /\ Goal
  <2>1. sweep'[w] = [sweep[w] EXCEPT !.pc = "transfers", !.addr = None, !.todo = served]
        /\ \A h \in served : OnChain(h)
    BY <1>0, <1>a, <1>2 DEF FetchTransfers, Informed, OnChain
  <2>2. Goal
    BY <1>0, <1>a, <2>1 DEF Informed, Sweep
  <2> QED
    BY <1>0, <1>2, <2>2 DEF FetchTransfers
<1>3. ASSUME NEW h \in Hashes, TakeTransfer(w, h) PROVE v = w /\ Goal
  <2>1. \/ sweep'[w] = [sweep[w] EXCEPT !.todo = @ \ {h}]
        \/ sweep'[w] = [sweep[w] EXCEPT !.pc = "match", !.hash = h]
    BY <1>0, <1>3 DEF TakeTransfer
  <2>2. OnChain(h) /\ sweep[w].pc = "transfers"
    BY <1>a, <1>3 DEF TakeTransfer, Informed
  <2>3. CASE sweep'[w] = [sweep[w] EXCEPT !.todo = @ \ {h}]
    <3>1. Goal
      BY <1>0, <1>a, <2>2, <2>3 DEF Informed, Sweep
    <3> QED
      BY <1>0, <1>3, <3>1 DEF TakeTransfer
  <2>4. CASE sweep'[w] = [sweep[w] EXCEPT !.pc = "match", !.hash = h]
    <3>1. /\ sweep'[w].pc = "match" /\ sweep'[w].hash = h
          /\ sweep'[w].now = sweep[w].now /\ sweep'[w].todo = sweep[w].todo
      BY <1>0, <2>4 DEF Sweep
    <3>2. Goal
      BY <1>a, <2>2, <3>1 DEF Informed
    <3> QED
      BY <1>0, <1>3, <3>2 DEF TakeTransfer
  <2> QED
    BY <2>1, <2>3, <2>4
<1>4. CASE MatchTransfer(w)
  <2>1. PICK p \in PaymentId \cup {None} :
          /\ sweep'[w] = [sweep[w] EXCEPT !.pc = "claim", !.pick = p]
          /\ p # None => p \in Candidates(sweep[w].hash)
    BY <1>0, <1>4 DEF MatchTransfer, BestCandidate, Candidates
  <2>2. p # None => /\ pay[p].status # "NONE" /\ pay[p].provider = "USDT"
                    /\ pay[p].addr = chain[sweep[w].hash].to
    BY <2>1 DEF Candidates, LiveStatuses, OpenStatuses
  <2>3. Goal
    BY <1>0, <1>a, <1>4, <2>1, <2>2 DEF Informed, Sweep, MatchTransfer
  <2> QED
    BY <1>0, <1>4, <2>3 DEF MatchTransfer
<1>5. ASSUME TransferDone(w) PROVE v = w /\ Goal
  <2>1. sweep'[w] = [sweep[w] EXCEPT !.pc = "transfers", !.hash = None, !.pick = None,
                                     !.todo = @ \ {sweep[w].hash}]
    BY <1>0, <1>5 DEF TransferDone
  <2>2. Goal
    BY <1>0, <1>a, <2>1 DEF Informed, Sweep
  <2> QED
    BY <1>0, <1>5, <2>2 DEF TransferDone
<1>6. ASSUME ClaimLost(w), sweep' = [sweep EXCEPT ![w].pc = "record"] PROVE v = w /\ Goal
  BY <1>0, <1>a, <1>6 DEF ClaimLost, Informed, Sweep
<1>7. CASE ReadConfirming(w)
  <2>1. Goal
    BY <1>0, <1>a, <1>7 DEF ReadConfirming, Informed, Sweep
  <2> QED
    BY <1>0, <1>7, <2>1 DEF ReadConfirming
<1>8. ASSUME NEW p \in PaymentId, CreditConfirmedPayment(w, p) PROVE v = w /\ Goal
  <2>1. sweep'[w] = [sweep[w] EXCEPT !.rows = @ \ {p}] /\ sweep[w].pc = "confirming"
    BY <1>0, <1>8 DEF CreditConfirmedPayment
  <2>2. Goal
    BY <1>0, <1>a, <2>1 DEF Informed, Sweep
  <2> QED
    BY <1>0, <1>8, <2>2 DEF CreditConfirmedPayment
<1>9. ASSUME sweep' = [sweep EXCEPT ![w] = NoSweep] PROVE v = w /\ Goal
  <2>1. sweep'[w].pc = "idle" /\ sweep'[w].now = 0 /\ sweep'[w].todo = {}
    <3>1. sweep'[w] = NoSweep
      BY <1>0, <1>9
    <3> QED
      BY <3>1 DEF NoSweep
  <2>2. Goal
    BY <1>0, <2>1
  <2> QED
    BY <1>0, <1>9, <2>2
<1>10. ASSUME NEW rows \in SUBSET PaymentId, StaleLeft(w, rows) PROVE v = w /\ Goal
  <2>1. CASE rows = {}
    BY <1>9, <1>10, <2>1 DEF StaleLeft
  <2>2. CASE rows # {}
    <3>1. sweep'[w] = [sweep[w] EXCEPT !.pc = "stale", !.rows = rows]
      BY <1>0, <1>10, <2>2 DEF StaleLeft
    <3>2. Goal
      BY <1>0, <1>a, <3>1 DEF Informed, Sweep
    <3> QED
      BY <1>0, <1>10, <3>2 DEF StaleLeft
  <2> QED
    BY <2>1, <2>2
<1>11. CASE ReadStale(w)
  BY <1>10, <1>11 DEF ReadStale
<1>12. ASSUME NEW p \in PaymentId, ExpireStalePayment(w, p) PROVE v = w /\ Goal
  BY <1>0, <1>10, <1>12 DEF ExpireStalePayment, Sweep
<1>13. v = w /\ Goal
  <2> HIDE DEF Goal
  <2>1. CASE ClaimLost(w)
    BY <1>5, <1>6, <2>1 DEF ClaimLost
  <2>2. CASE ClaimTransfer(w) \/ RecordUnmatchedTransfer(w)
    BY <1>5, <2>2 DEF ClaimTransfer, RecordUnmatchedTransfer
  <2>3. CASE CrashSweep(w)
    BY <1>9, <2>3 DEF CrashSweep
  <2>4. CASE BeginSweep(w) \/ MatchTransfer(w) \/ ReadConfirming(w) \/ ReadStale(w)
    BY <1>1, <1>4, <1>7, <1>11, <2>4 DEF Goal
  <2> QED
    BY <1>2, <1>3, <1>8, <1>12, <2>1, <2>2, <2>3, <2>4 DEF SweepStep
<1> QED
  BY <1>13

\* Every step keeps that what is credited was earned.
LEMMA NextEarnedInv == IInv /\ EarnedInv /\ [Next]_vars => EarnedInv'
<1> SUFFICES ASSUME IInv, EarnedInv, [Next]_vars PROVE EarnedInv'
  OBVIOUS
<1>1. (\A p \in PaymentId : Deserved(p))'
  BY NextDeserves
<1>2. (\A h \in Hashes : chain[h].at <= clock)'
  BY ChainStays
<1>3. ASSUME NEW v \in Workers PROVE Informed(v)'
  <2>0. /\ sweep \in [Workers -> Sweep] /\ clock \in Nat /\ clock' \in Nat
        /\ IInv' /\ sweep[v] \in Sweep /\ sweep'[v] \in Sweep
    BY NextIInv DEF IInv, TypeOK, SweepsTyped, SurroundingsTyped
  <2>1. /\ sweep'[v].now <= clock
        /\ sweep'[v].pc = "fetch" => sweep'[v].addr # None
        /\ \A h \in sweep'[v].todo : OnChain(h)
        /\ sweep'[v].pc \in {"match", "claim", "record"} => OnChain(sweep'[v].hash)
        /\ sweep'[v].pc = "claim" /\ sweep'[v].pick # None =>
             /\ pay[sweep'[v].pick].status # "NONE"
             /\ pay[sweep'[v].pick].provider = "USDT"
             /\ pay[sweep'[v].pick].addr = chain[sweep'[v].hash].to
    <3>1. CASE sweep'[v] = sweep[v]
      BY <3>1 DEF EarnedInv, Informed
    <3>2. CASE sweep'[v] # sweep[v]
      <4>1. \E w \in Workers : SweepStep(w) \/ CrashSweep(w)
        BY <3>2 DEF Next, vars, CreateIntent, BeginIntent, ReadQuote, ReadLive,
          ReadSettings, InsertWire, InsertBase, ReadTaken, Probe, CancelPayment,
          MarkPaymentSent, StaffStep, BeginStaffCall, SettlePaymentManually,
          RejectPayment, ResolveUnmatchedTransfer, UpdateSettings, MakeTransfer, Tick
      <4> QED
        BY <3>2, <4>1, SweepStepInforms
    <3> QED
      BY <3>1, <3>2
  <2>2. sweep'[v].now <= clock'
    BY <2>0, <2>1, ChainStays DEF Sweep
  <2>3. \A h \in sweep'[v].todo : OnChain(h)'
    BY <2>0, <2>1, ChainStays DEF OnChain, Sweep
  <2>4. sweep'[v].pc \in {"match", "claim", "record"} =>
          /\ sweep'[v].hash \in Hashes /\ OnChain(sweep[v].hash)'
          /\ chain'[sweep'[v].hash] = chain[sweep'[v].hash]
    <3>1. sweep'[v].pc \in {"match", "claim", "record"} => sweep'[v].hash # None
      BY <2>0 DEF IInv, TypeOK, SweepsTyped
    <3>2. sweep'[v].hash \in Hashes \cup {None}
      BY <2>0 DEF Sweep
    <3> QED
      BY <2>1, <3>1, <3>2, ChainStays DEF OnChain
  <2>5. ASSUME sweep'[v].pc = "claim", sweep'[v].pick # None
        PROVE  /\ pay'[sweep'[v].pick].status # "NONE"
               /\ pay'[sweep'[v].pick].provider = "USDT"
               /\ pay'[sweep'[v].pick].addr = chain'[sweep'[v].hash].to
    <3>1. sweep'[v].pick \in PaymentId
      BY <2>0, <2>5 DEF Sweep
    <3> QED
      BY <2>1, <2>4, <2>5, <3>1, NextDeserves DEF Locked
  <2>6. sweep'[v].pc \in {"match", "claim", "record"} => OnChain(sweep[v].hash)'
    BY <2>4
  <2> QED
    BY <2>1, <2>2, <2>3, <2>5, <2>6 DEF Informed
<1> QED
  BY <1>1, <1>2, <1>3 DEF EarnedInv

\* The poller credits a payment only with a transfer it has earned: its amount,
\* its address, in time, and as deep as the row demands.
THEOREM ChainCreditsAreEarned == Spec => []ChainCreditEarned
<1>1. Init => EarnedInv
  BY DEF Init, EarnedInv, Deserved, Informed, NoRow, NoSweep, NoTransfer
<1>2. IInv /\ EarnedInv => ChainCreditEarned
  BY DEF EarnedInv, Deserved, Earned, Deep, ChainCreditEarned
<1> QED
  BY <1>1, <1>2, NextEarnedInv, SpecIInv, PTL DEF Spec

-----------------------------------------------------------------------------
(* An amount identifies a payment *)

\* A row is inserted only by a request, and a USDT row only at an amount no
\* live payment watches.
LEMMA InsertChecksAmount ==
  ASSUME IInv, EarnedInv, [Next]_vars, NEW p \in PaymentId,
         pay[p].status = "NONE", pay'[p].status # "NONE", pay'[p].provider = "USDT"
  PROVE  ~AmountWatched(pay'[p].addr, pay'[p].expected)
<1>0. pay \in [PaymentId -> Payment] /\ TypeOK
  BY DEF IInv, TypeOK, PaymentsTyped
<1>1. ASSUME NEW r \in Requests, NEW row \in Payment, InsertRow(r, row)
      PROVE  pay'[p] = row
  BY <1>0, <1>1 DEF InsertRow
<1>2. ASSUME NEW r \in Requests, CreateIntent(r)
      PROVE  ~AmountWatched(pay'[p].addr, pay'[p].expected)
  <2>0. /\ req[r] \in Request /\ (req[r].quote \in Quotes => Total[req[r].quote] \in Nat)
        /\ RequestsTyped
    BY <1>0, ConstantsAssumption DEF TypeOK, RequestsTyped
  <2>1. pay' # pay
    OBVIOUS
  <2>2. req[r].pc # "new" /\ req[r].quote \in Quotes
    BY <1>2, <2>0, <2>1 DEF CreateIntent, BeginIntent, ReadQuote, ReadLive, ReadSettings,
         InsertWire, InsertBase, ReadTaken, Probe, RequestsTyped, Request
  <2>3. Total[req[r].quote] \in Nat /\ Total[req[r].quote] + req[r].nudge \in Nat
    BY <2>0, <2>2 DEF Request
  <2>4. ASSUME NEW amount \in Nat, InsertRow(r, NewUsdtRow(r, amount)),
               ~InsertFails(r, amount)
        PROVE  ~AmountWatched(pay'[p].addr, pay'[p].expected)
    <3>1. pay'[p] = NewUsdtRow(r, amount)
      BY <1>1, <2>0, <2>2, <2>4, NewRowsTyped
    <3>2. NewUsdtRow(r, amount).addr = req[r].addr /\ NewUsdtRow(r, amount).expected = amount
      BY DEF NewUsdtRow, NoRow
    <3> QED
      BY <2>4, <3>1, <3>2 DEF InsertFails
  <2>5. CASE InsertWire(r)
    <3>1. NewWireRow(r).provider = "WIRE"
      BY DEF NewWireRow, NoRow
    <3> QED
      BY <1>1, <2>0, <2>1, <2>2, <2>5, <3>1, NewRowsTyped DEF InsertWire
  <2>6. CASE InsertBase(r)
    BY <2>1, <2>3, <2>4, <2>6 DEF InsertBase
  <2>7. CASE Probe(r)
    BY <2>1, <2>3, <2>4, <2>7 DEF Probe
  <2> QED
    BY <1>2, <2>1, <2>5, <2>6, <2>7
    DEF CreateIntent, BeginIntent, ReadQuote, ReadLive, ReadSettings, ReadTaken
<1>3. ASSUME NEW w \in Workers, SweepStep(w) PROVE FALSE
  <2>1. CASE ClaimTransfer(w)
    BY <1>0, <2>1 DEF ClaimTransfer, Claimable, LiveStatuses, OpenStatuses
  <2>2. ASSUME NEW o \in PaymentId, CreditConfirmedPayment(w, o) PROVE FALSE
    BY <1>0, <2>2 DEF CreditConfirmedPayment, IInv, RowsConsistent
  <2>3. ASSUME NEW o \in PaymentId, ExpireStalePayment(w, o) PROVE FALSE
    BY <1>0, <2>3 DEF ExpireStalePayment, OpenStatuses
  <2> QED
    BY <1>3, <2>1, <2>2, <2>3
    DEF SweepStep, BeginSweep, FetchTransfers, TakeTransfer, MatchTransfer, ClaimLost,
        RecordUnmatchedTransfer, ReadConfirming, ReadStale
<1>4. ASSUME NEW s \in Staff, StaffStep(s) PROVE FALSE
  BY <1>0, <1>4 DEF StaffStep, BeginStaffCall, SettlePaymentManually, SettlesByHand,
                    RejectPayment, OpenStatuses
<1>5. ASSUME NEW o \in PaymentId, CancelPayment(o) \/ MarkPaymentSent(o) PROVE FALSE
  BY <1>0, <1>5 DEF CancelPayment, MarkPaymentSent, OpenStatuses
<1> QED
  BY <1>2, <1>3, <1>4, <1>5
  DEF Next, vars, ResolveUnmatchedTransfer, UpdateSettings, CrashSweep, MakeTransfer, Tick

\* No two live payments ever watch one amount at one address.
THEOREM AmountsIdentify == Spec => []AmountIdentifiesPayment
<1>1. Init => EarnedInv /\ AmountIdentifiesPayment
  BY DEF Init, EarnedInv, Deserved, Informed, NoRow, NoSweep, NoTransfer,
         AmountIdentifiesPayment, LiveStatuses, OpenStatuses
<1>2. IInv /\ EarnedInv /\ AmountIdentifiesPayment /\ [Next]_vars
        => AmountIdentifiesPayment'
  <2> SUFFICES ASSUME IInv, EarnedInv, AmountIdentifiesPayment, [Next]_vars,
                      NEW p \in PaymentId, NEW o \in PaymentId,
                      pay'[p].provider = "USDT", pay'[p].status \in LiveStatuses,
                      pay'[o].provider = "USDT", pay'[o].status \in LiveStatuses,
                      pay'[p].addr = pay'[o].addr,
                      pay'[p].expected = pay'[o].expected, p # o
               PROVE  FALSE
    BY DEF AmountIdentifiesPayment, LiveStatuses, OpenStatuses
  <2>1. TablesStep /\ pay \in [PaymentId -> Payment]
    BY NextTablesStep DEF IInv, TypeOK, PaymentsTyped
  <2>2. ASSUME NEW x \in PaymentId, pay'[x].status \in LiveStatuses
        PROVE  \/ pay[x].status \in LiveStatuses
               \/ pay[x].status = "NONE" /\ pay'[x] # pay[x]
    <3>1. ASSUME NEW y \in PaymentId, NEW row \in Payment, RowStep(y, row)
          PROVE  pay[x].status \in LiveStatuses \cup {"NONE"}
      <4>1. pay'[x] = IF x = y THEN row ELSE pay[x]
        BY <2>1, <3>1 DEF RowStep
      <4> QED
        BY <2>2, <3>1, <4>1 DEF RowStep, LiveStatuses, OpenStatuses
    <3>2. CASE UNCHANGED pay
      BY <2>2, <3>2
    <3>3. pay[x].status \in LiveStatuses \cup {"NONE"}
      BY <2>1, <2>2, <3>1, <3>2 DEF TablesStep
    <3>4. pay[x].status = "NONE" => pay'[x] # pay[x]
      BY <2>2 DEF LiveStatuses, OpenStatuses
    <3> QED
      BY <3>3, <3>4
  <2>3. pay'[p] = pay[p] \/ pay'[o] = pay[o]
    BY <2>1 DEF TablesStep, RowStep
  <2>4. ASSUME NEW x \in PaymentId, NEW y \in PaymentId, pay[x].status = "NONE",
               pay'[x].status # "NONE", pay'[x].provider = "USDT",
               pay'[y] = pay[y], pay'[y].status \in LiveStatuses,
               pay'[y].provider = "USDT", pay'[y].addr = pay'[x].addr,
               pay'[y].expected = pay'[x].expected
        PROVE  FALSE
    BY <2>4, InsertChecksAmount DEF AmountWatched
  <2>5. CASE pay[p].status \in LiveStatuses /\ pay[o].status \in LiveStatuses
    <3>1. Locked(pay'[p]) = Locked(pay[p]) /\ Locked(pay'[o]) = Locked(pay[o])
      BY <2>5, NextDeserves DEF LiveStatuses, OpenStatuses
    <3> QED
      BY <2>5, <3>1 DEF Locked, AmountIdentifiesPayment
  <2>6. CASE pay[p].status = "NONE" /\ pay'[p] # pay[p]
    BY <2>3, <2>4, <2>6 DEF LiveStatuses, OpenStatuses
  <2>7. CASE pay[o].status = "NONE" /\ pay'[o] # pay[o]
    BY <2>3, <2>4, <2>7 DEF LiveStatuses, OpenStatuses
  <2> QED
    BY <2>2, <2>5, <2>6, <2>7
<1> QED
  BY <1>1, <1>2, NextEarnedInv, SpecIInv, PTL DEF Spec
=============================================================================
