# Marty Global: a verification development

TLA+ models of the backend under `src/backend`, the TLC runs that check them on
small instances, and TLAPS proofs about them. The program is a portal through
which customers order company filings and mail services: a customer submits an
order, staff review and quote it, the customer pays in USDT or by wire, a
background sweep of the Tron chain credits what arrives, and staff deliver
records line by line, work the customer's post and answer the help chat; whoever
administers grants access and may delete almost anything, with a way back. Almost every rule of that story lives in Prisma calls made
one after the other by concurrent HTTP requests and job workers; what can go
wrong is what happens **between** two of those calls, and that is what is
modelled here.

Paths below are relative to `src/backend/src/` unless they start with `src/`.

## Inventory

The backend is one Express process plus BullMQ workers over PostgreSQL (Prisma),
Redis (queues, rate limits) and Socket.IO. Nothing coordinates requests but the
database: row locks, unique indexes and conditional updates (`updateMany` with
the old state in `where`).

| Component | State it keeps | Operations | Hard part | What makes it correct |
|---|---|---|---|---|
| `modules/payments` | `Payment`, `Quote.status`, `Order.status`, `UnmatchedTransfer` | createIntent, cancelPayment, markPaymentSent, applyTransfer, recordUnmatchedTransfer, creditConfirmedPayments, expireStalePayments, settlePaymentManually, rejectPayment | overlapping sweeps, settlers against sweeps, retried intents, sweeps that die | each payment credited once, by money that is really its own; no transfer lost; quote, order and payment agree |
| `jobs/processors/payments.processor.ts`, `config/tron.ts` | `ChainSyncCursor` | pollUsdtTransfers: settings, cursor, fetch, settle each, write cursor | late indexing, overlap, failure half way, page cap, address rotation | every transfer is answered for, cursor passes none |
| `modules/admin/payments`, `admin/payment-settings` | queue of unmatched transfers, `PaymentSettings` | resolveUnmatchedTransfer, updateSettings | settings change under a sweep | open payments keep their terms |
| `modules/orders`, `admin/orders` | `Order` (status, assignee), `OrderActivity` | createOrder, advanceOrderStatus, updateOrder | reviewers, quotes and credits move one row | moves are checked where they are made; approved implies priced |
| `modules/admin/quotes` | `Quote` | createQuote, cancelQuote | look-ups outside the transaction, retries | paid stays paid, one live offer |
| `modules/conversations` | `Conversation` of an order | getOrderConversation, sendMessage, ensureConversation, syncAssignee | create-or-get and claim races | thread and order in one hand |
| `modules/admin/delivery`, `modules/results` | `OrderItem`, `ServiceResult` and values, `ServiceRequest` | getItemResult, saveResult, updateOrderItemStatus, updateResultStatus, updateRequest | gates decided before the transaction | completed implies a visible, dated record |
| `modules/notifications`, `admin/settings` (the switch) | `Notification` rows, `email` queue, `NotificationSettings` | queueEmail, deliverEmail, markFailed, updateNotificationSettings | at-least-once jobs, stalled jobs, the off switch | the row says what became of the mail; none is lost, none goes out twice but for a fault |
| `modules/support`, `guest`, `admin/support`, `sockets` | help threads with owner and newest message, guest visitors, handoff jobs, in-memory presence | createConversation, startChat, sendMessage (all three), ensureAssigned, updateConversation, deliverOfflineHandoff, purgeExpired | one job per thread, messages that cross it, routing against reassignment | who waits is answered or told; a thread without an owner has a reason |
| `modules/mailroom`, `admin/mailroom` | `MailRoom`, `MailItem`, `MailRequest`, `MailActionLog` | uploadScan, getItem, createRequest, recordDownload, fileContents, processRequest, resolveRequest, provisioning | every check is a round trip before its write | complete means done, handled means logged, flagged means there is something to do |
| `modules/admin/trash` | `deletedAt` on every table, `TrashEntry` with its cascade | trashRows, restoreEntries, purgeNow, purgeEntries, purgeExpired | closure computed, then written group by group | restore undoes exactly what a delete did |
| `modules/admin/team`, `admin/roles`, `lib/permissions.ts` | `StaffProfile`, `StaffRole`, overrides, the `user` row's role and ban | createTeamMember, updateTeamMember, createRole, updateRole, removal and restore | last-administrator rule, recomputed grants | grants follow role and overrides; somebody can administer |
| `lib/idempotency.ts`, `lib/money.ts` | none | withIdempotency, decimal arithmetic | insert races, rounding | retry answers with the first row; totals add up |
| `admin/catalog`, `admin/fields`, `admin/result-fields`, `modules/services` | service catalogue, form and result schemas | edits by staff | schema edited under open forms | |
| the rest: `auth`, `profile`, `admin/customers`, `admin/settings`, `admin/leads`, `contact`, `uploads`, `documents`, `billing`, `audit`, dashboards, reports, `guards`, frontend | single rows, sessions (better-auth), object-store keys, read-only views | | | out of scope, see below |

Interactions. `createIntent` reads the quote that `createQuote` made and
`cancelQuote` may withdraw. A credit, from the sweep or a settler, writes payment, quote and
order in one transaction (`creditQuote`, which calls `advanceOrderStatus`);
`createQuote` calls `advanceOrderStatus` too. `updateOrder` moves the same row
by compare-and-set and reads the quotes and lines its gates ask for;
`saveResult` and `updateOrderItemStatus` move those lines. `updateOrder` hands
the order's thread on (`syncAssignee`), a reply claims both. Sweeps read
`PaymentSettings`, which `updateSettings` changes under them. All of them queue
notifications and audit entries after they commit: the notification then lives
on its own, as a row and a job (`Notifications`). A support message arms a
handoff job and asks the router for an owner; deactivating an agent takes them
out of its choice. Deleting a row of any table, a member of staff included, is
`trashRows`; a member's or a role's entry also revokes access.

## Modules

| Module | Models |
|---|---|
| `Payments` | payments, credited and settled, round trip by round trip |
| `PaymentLedger` | what `Payments` promises: a payment's life as single decisions |
| `ChainSweep` | which transfers the sweep sees: cursor, overlap, window |
| `Delivery` | order lines and the records they return |
| `OrderPipeline` | the order, its quotes, thread and reviewers; EXTENDS `Delivery` |
| `Notifications` | outbound e-mail: rows, jobs, executions, the switch |
| `Access` | staff accounts, job roles, the grants stored for both |
| `Trash` | delete, restore, purge and the nightly sweep over related rows |
| `Support` | help threads, their owners and the handoff job |
| `Mailroom` | envelopes, what is asked for them, and the log |
| `PaymentsProofs`, `ChainSweepProofs`, `OrderPipelineProofs`, `NotificationsProofs`, `AccessProofs`, `TrashProofs`, `SupportProofs`, `MailroomProofs` | theorems and their proofs; those about `Delivery` are in `OrderPipelineProofs` |
| `MC...` | model values and symmetry for TLC; the `.cfg` files give the instances |

In every module **one action is one database round trip** of one request or
worker, with the guard the code has between that round trip and the one before.
What a call has read is kept in a record per caller (`req`, `staff`, `sweep`,
`calls`, `call`, `jobs`, `slot`) and is used later, stale or not. A transaction whose first
statement takes the lock the others need is one step from that statement on; a
transaction that reads first and writes afterwards is two steps, since
PostgreSQL runs it at READ COMMITTED. A statement that waits for a row lock is a
step that is not enabled while another transaction holds the row. Audit entries,
activity feeds and logs are left out, and so are the notifications the other
modules queue: nothing reads them back. History variables (`credits`, `handled`,
`sends`, `unknown`, `accident`, `overlapped`, `drifted`, `spoilt`, `told`,
`mishaps`, `excused`) are read by no guard; they say which accidents a property
excepts, so that each exception is a named step of the model and not a silence.

**Payments.** `pay` is the `Payment` table in order of creation, `quote` and
`order` the two statuses a credit changes, `chain` what is on Tron, `unmatched`
the reconciliation queue. `CreateIntent(r)` is `createIntent` in seven steps
(key, quote, resumable payment, settings, base insert, claimed band, nudging);
the partial unique index of migration `20260728060000` is `AmountWatched`, the unique
columns `KeyUsed` and `Claimed`. A sweep is `BeginSweep`, `FetchTransfers`, then
`TakeTransfer`, `MatchTransfer`, `ClaimTransfer` / `ClaimLost`,
`RecordUnmatchedTransfer` for each transfer, oldest first, then the confirming
and the expiring loops; it may die anywhere (`CrashSweep`). Settlers check in
one step and write in another (`BeginStaffCall`, `SettlePaymentManually`,
`RejectPayment`). Amounts are raw token units, one tick is one block. Which
fetched transfers a sweep gets is nondeterministic here; `ChainSweep` says which.
`cancelQuote` is not in this module (a quote is PENDING or PAID): what it does to
a credited quote is in `OrderPipeline`.

**PaymentLedger.** Five decisions (`Open`, `Take`, `Vouch`, `Confirm`, `Close`) on four
functions: state, debt, money and the set of paid debts. `LedgerSpec` in
`Payments` is the refinement mapping.

**ChainSweep.** `settings`, `cursor`, the TronGrid index (`served`), and the
sweep as settings, cursor, fetch, settle, write. `settleTransfer` is one step
that answers for a transfer. `FailSweep` is any throw or crash. `LoseCursor` is
the accident `src/backend/prisma/schema.prisma:2190` speaks of.

**Delivery.** `items`, `records` (with values, title and the number of times
`deliveredAt` was stamped), and one-shot staff requests `jobs`. `saveResult` is
`LoadSave` (row, values, gate), `WriteValues` (upserts and deletes, with their
row locks, and the title) and `CommitSave`. One schema, given by the constants
`Fields`, `Required` and `Primary`, stands for the registry. What a delivery
does to a mail room (provisioning) is not here.

**OrderPipeline.** `order`, `thread`, `quotes` and reusable callers `calls`,
each of which makes one request at a time: `createQuote`, `cancelQuote`,
`updateOrder`, a message, or a credit as the payment transaction makes it. The lines come
from `Delivery`, whose actions interleave unchanged. Rows in the trash
(`deletedAt`) are left out. `Resends` lets a request send fields it does not
change, which the compare-and-set does not pin.

**Notifications.** `row` is the table, `job` the queue's one job per mail (its id
is the row's), `slot` the worker's executions. `ReadSwitch`, `StoreRow` and
`EnqueueEmail` are `queueEmail`; `LoadRow` to `RecordSent` are `deliverEmail`,
and `Throw` may take the place of any of them. `Holds` is BullMQ's lock: an
execution that has lost it goes on but can no longer complete or fail its job
(`Stall`, `CrashExecution`). `SwitchOff`, `SuppressPending` and `DrainEmailQueue`
are one clean-up, of which one runs at a time; the read of `before` is merged
with the write that follows it, and draining is one step. Back-off is any time.
The four `accident`s are the places where the code lets a job go:
`EnqueueLost`, a job stalled past `MaxStalls`, `MarkLost`, and a drain that takes
the job of a row stored before it.

**Access.** `profiles`, `users` and `roles` are the three tables a staff member
is spread over; a ban and a deleted user row are one flag, names and passwords
are data. `ensureSystemStaffRoles` provisions the built-in roles with the grants
`Seeded` and changes nothing after the first boot; the founder is the account of
the environment, with the profile that `prisma/seed-admin-demo.ts` gives it, for
only accounts with a profile are counted as administrators. An administrator who
has been deactivated still passes `requireAdmin`, whatever `team.service.ts:570`
says of the role alone, and may switch themself on. Guards that
only read are one step; the entry a delete files is merged with its last write.
`Grids` are the sets a form may submit, sane or not; `Area` says which keys are
scopes of which. `overlapped` becomes true once two requests are in flight
together, `drifted` when a restore gives back an auth role that the job role has
since lost: the claims that the code makes of single requests are stated up to
these two, `StoredGrantsSane` and `SavedAsSubmitted` without them.

**Trash.** `rows` says of each row whether it is live, deleted or gone; `Kind`
and `Owners` give the tables and foreign keys, `DependentsOf`, `SetsNull` and
`Restricts` translate the registry and the schema. `BeginTrash`, `Walk`,
`ReadGroup`, `StampGroup` and `FileEntry` are `trashRows` for one row (a
selection is several requests), `ClearGroup` and `EndRestore` are
`restoreEntries`, `NextEntry`, `Destroy`, `DropEntry` and `Defer` are
`purgeEntries`, begun by hand or by `PurgeExpired`. None of it is in a
transaction. A query that can find nothing is not a step. `Fail` is any throw or
crash; `spoilt` marks the rows that two processes had in hand at once or one
that died: what the code does to those is in the table below. Purging is on:
switched off, the sweep does nothing. What deleting a member of staff does
besides is in `Access`.

**Support.** `thread` is `Conversation` with the newest message the customer can
see, by `sentAt`; `job` the one handoff job its id allows. `BeginMessage`,
`CommitMessage`, `Arm`, `ReadOwner`, `PickAssignee` and `Route` are a customer's
or a visitor's `sendMessage` with `ensureAssigned`; `InsertThread` opens a thread
with the owner chosen before; `BeginReply` and `BeginUpdate` are the staff side.
Presence is in memory and changes by itself, so the router sees any subset of
the agents online. A customer who has muted the channel counts as told. Internal
notes, read marks, attachments and previews are left out, and trashing a thread
is left to `Trash`; `GoQuiet` and `PurgeExpired` are the retention of guest
threads.

**Mailroom.** `items`, `requests`, the log rows written for each (`logged`,
`downloads`), and `calls`, each of which checks in one step and writes by id in
another. The checks of room, scope and address, which no property is about, are
part of the read; files of an item stand behind `scanReady`, which a unique key
guards. Rooms, items and requests are trashed in `Trash`.

## Runs

Every passing run checks invariants or action properties on all reachable states
of its instance; times are with two workers.

| Run | Instance | Shows |
|---|---|---|
| `race` | 2 sweeps, 1 of which may die, 2 transfers, 1 window (0.5 M states) | no transfer is dropped; every step is a ledger decision, so a payment is credited once |
| `byhand` | 2 requests with 2 keys, USDT and wire, amounts 10 and 11, 1 settler, 1 sweep, 1 settings change (3.7 M) | credits by hand and by the poller exclude each other; amount and reference each identify one payment; quote, order and payment agree |
| `window` | 1 window, transfers of 9, 10 or 11, four blocks, 1 crash, 1 settings change (0.4 M) | only an exact, timely, deep transfer credits; a confirming payment is credited in the end, an unpaid window closes |
| `cursor` | 2 sweeps kept running, 2 transfers indexed a tick late, a failure, a lost row or the switch | the cursor passes only what was answered for; a completed sweep has caught up; every transfer is answered for in the end |
| `lines` | 3 staff requests on 2 lines, 2 requests about the order, 1 quote (0.6 M) | a completed line shows its record, dated; an approved order has a quote; a paid quote has moved its order |
| `hands` | 2 requests, one an administrator's, 2 staff, resent fields (1.2 M) | a reviewer's write is what it was checked for |
| `withdrawn` | violated, see Findings | a paid quote is cancelled |
| `mail` | 1 mail, 2 executions, 3 attempts, a stall, 2 switchings off | what the row says of the delivery is true, a second copy needs a fault, an owed mail is settled |
| `access` | 2 accounts, the built-in super-admin with every key and a made role, an area and its scope, one request after the other | grants stay sane and follow the role, a held role stays out of the trash, an administrator is left |
| `trash` | a customer, a payment, a bank account; 1 request, the sweep, 1 failure, batch 1 | what is deleted can be put back, exactly; only trash is destroyed; deadlines are acted on |
| `chat` | a visitor's thread, 2 requests, 2 agents one of whom is a supervisor, 3 messages, 1 fault | who waits is armed and in the end answered or told; a thread without an owner has a reason; routing keeps owners |
| `mailroom` | 1 envelope, 2 requests on it, 3 calls at once (1.1 M) | a flagged item has a reason, a completed request was carried out, what left is logged |

**Why the bounds are enough.** Each bound is a constant named in the modules
(`MaxTime`, `MaxChanges`, `MaxEvents`, `MaxCrashes`, `MaxFaults`, `MaxAttempts`,
`MaxStalls`, `MaxFlips`, `MaxFails`, `MaxMessages`, `Jobs`) or a set
of model values. Two of everything that competes is what the races need: the
conflicts here are over one row or one unique index, where a third contender
meets the state the first two leave. In `window`, `MaxTime = 3` with `Ttl = 1`
and `Depths = {1}` leaves a block before, at and after the expiry and one to
confirm in; its `Amounts` are the exact amount and one unit on either side, which
is also the nudge that `byhand` needs to put two windows side by side. In
`ChainSweep`, `Overlap = 1` and `IndexLag = 1` is the tightest overlap that still
covers the lag, `ColdWindow = 9` exceeds `MaxTime` (no run sleeps through the
cold-start window) and `MaxRows` exceeds the number of transfers (the page cap is
never met): both are conditions of the result, not accidents. `mail` has an
attempt to spare after a stalled and a failed one, and the switch goes off before
and after a row is owed. `access` has one request at a time: of requests that have
overlapped three of its properties say nothing, and the theorems of
`AccessProofs` give all five for any number of requests. In `trash` the
payment hangs off both other rows, by a cascading and by a nulling key, so that
one delete nests in another's closure, and `Batch = 1` with two due entries is a
full batch. Three messages of `chat` are one for the job to find, one that
crosses it and one that answers; its thread is a guest's, and the theorems of
`SupportProofs` cover a customer's, whose messages read the owner first.
`mailroom` has as many calls as there can be parties to one envelope: two
requests being settled while its contents are filed.
For the properties listed under Proofs no bound matters: the theorems hold for
every value of the constants. Symmetry is used for sets whose members the actions
treat alike, never with liveness.

`CHECK_DEADLOCK FALSE` is set where the system may stop: automatic verification
switched off for good (`byhand`, `window`, `cursor`), every mail settled
(`mail`), every row purged (`trash`), every message written (`chat`), every
request row used and the envelope handled (`mailroom`).

**Fairness.** `FairSpec` never assumes anything of customers or staff, nor that a
failure stays away; failures and crashes are bounded, since nothing can be
promised of workers that always die.

- `Payments`, `ChainSweep`: time passes, each sweep worker keeps taking steps, and
  TronGrid eventually serves what is on the chain. The first two are the
  repeatable BullMQ job (`jobs/queues.ts:187`, `scheduleUsdtPoll`) and its worker,
  which starts the next run whatever became of the last (`jobs/workers.ts:104`).
  The liveness properties assume, in their formulas, that automatic verification
  is on from some point on, or on again and again.
- `Notifications`: the worker takes waiting jobs and its executions go on
  (`jobs/workers.ts:47`), a call of `queueEmail` ends, and BullMQ notices a lost
  lock.
- `Trash`: the repeatable purge runs every night (`jobs/queues.ts:231`) and what has
  begun goes on.
- `Support`: requests go on once begun, and the worker takes due jobs
  (`jobs/workers.ts:126`).

## Proofs

All theorems are of the form `Spec => ...` and use the named assumptions on the
constants (`ConstantsAssumption`, `SweepAssumption`, `DeliveryAssumption`,
`PipelineAssumption`, `NotificationsAssumption`, `AccessAssumption`,
`TrashAssumption`, `SupportAssumption`, `MailroomAssumption`): what the code fixes
(a hash may be used as a reference, depth, rate life and attempts are positive, a
locked set is sane, a foreign key names a row) and that null is not a value. Types are proved in every proof module, which
is why the runs spend no property on them except where there is none. Two theorems of
`ChainSweepProofs` and two of `OrderPipelineProofs` need more and say so in their
statement, as assumptions on constants (`LagIsCovered`, `ByTheTable`, `OneQuote`)
or as a state predicate that the behaviour keeps to (`Spec /\ []WindowsReach`,
`Spec /\ []OffersStandAlone`); without them the code does not keep the property.

- `PaymentsProofs`. The inductive invariant is `TypeOK /\ RowsConsistent`. Types
  alone are not inductive: a sweep credits rows it read earlier, so one must
  know that such a row still confirms a transfer of the chain or has been
  credited, which is the second half of `RowsConsistent`. The lemma
  `NextTablesStep` then says what any step, whoever takes it, does to
  payment, quote, order and credits together; `CreditsAreExact`,
  `ReferencesAreExclusive`, `PaidWithSettlement` and `AmountsIdentify` are each
  inductive relative to it. `NoTransferIsDropped` adds that rows never lose
  their reference and the queue never forgets. `ChainCreditsAreEarned` adds what
  a sweep knows between match and claim, and that no chain entry, expected
  amount, address or depth changes once written. `ImplementsLedger` shows that
  the initial state maps to the ledger's and that each step maps to one of the
  five decisions or to a stutter.
- `ChainSweepProofs`. `CursorIsSafe` and `CompletedSweepsCatchUp` hold of any
  number of sweeps, failures, lost cursors, transfers and settings updates if the
  overlap covers TronGrid's lag (`LagIsCovered`) and, at every moment,
  `WindowsReach`: one deposit address has been issued, what TronGrid serves for
  a window being fetched fits the pages, and a sweep that starts without a cursor
  finds what is older than its window answered for. The last is true of a system
  younger than the window, and later if the sweeps before the row was lost had
  come that far, so that a late cold start is safe too. The cursor may move back, since a slow sweep
  overwrites a fast one, so what makes it safe is not that it grows but
  `SweepKnows`: whatever a sweep may still write is either what it read or a
  timestamp behind which each transfer is answered for or in its hands; what is
  neither has not been served at the fetch (`MissedIsRecent`).
- `OrderPipelineProofs`. Of `Delivery` by itself, the inductive invariant
  `DeliveryInv` adds to the two safety properties that a save in flight has a
  record, and, if it saw it delivered, that the record is dated: `CommitSave`
  decides on what `LoadSave` read. `LinesAreDelivered`: the composition implements
  its component, so these theorems carry over. `OrderInv` adds, for
  requests in flight, that a change of status was allowed from the status seen
  (`CallIsChecked`) and that an approval past its gate has a quote.
  `ReviewersMoveFromWhatTheySaw` follows from it and the compare-and-set.
  `PaymentsMoveTheirOrder` is of any number of quotes and requests, no
  administrator and no field sent unchanged (`ByTheTable`), as long as no quote
  is sent while another is due (`OffersStandAlone`, the purpose of the check of
  `quotes.service.ts:363`): elsewhere the code does not keep it, as the table of
  interleavings below says. `PaidInv` says what each request relies on when it
  writes: a send that saw the order short of `PAID` that no quote is paid, a
  credit that it alone holds a quote that is due and that an order it saw paid
  still is (`ClaimsStand` and `OthersClaims` are what the other steps leave of
  that); no reviewer's write can take the order back, since the table has no
  transition from `PAID` to before it (`PastIsKept`). Of an order with one quote,
  `OfferInv` (a quote being sent is not there yet, one being withdrawn or credited
  is) makes the premise true: `PaymentMovesItsOrder`.
- `NotificationsProofs`. `Held` ties executions to jobs (an active job is held by
  at most the execution that took it, or by one that died), `ClaimsAreOld` says
  that a claim in hand is not newer than the row: `ClaimsExclude` follows, since
  the compare-and-set on `attempts` is then what makes two claims differ, even
  across a stall. `OwedKeepsJob` needs `Fresh`, which says what an untouched mail
  looks like; `SentOnce` and `UnsentIsTrue` count acceptances against rows and
  executions.
- `AccessProofs`. `OverridesRoundTrip` is about the pure functions: overrides
  computed from any grid against any role give that grid back, so that a form
  saved unchanged changes nothing. `GrantsSane` is inductive with what requests
  carry (`GrantsInv`): whatever they have read was sane when it was stored, and
  each write sanitises once more, so that overlapping edits cannot break it.
  `GridIsStored` uses the round trip for the step that saves a member. The other
  three properties hold until two requests overlap, which nothing in the code
  prevents and which the history `overlapped` records. Until then
  (`SerialInv`) at most one request is under way (`OneAtATime`) and what it has
  read is what the tables hold (`ReadsStand`), except for what it has written
  itself: a role's edit has written the role but not yet its holders, the only
  step at which `Current` fails of a member, who is still on its list.
  `GrantsAreCurrent` and `RolesHeldAreLive` follow. `AdminInv` needs besides
  that profile and account agree about their role (`RolesAgree`), that the other
  administrators a request counted are still there (`OthersCounted`), and
  `AccountsInv`, which ties profiles and entries to accounts; a restore of a
  member whose role has changed meanwhile breaks the agreement, hence `drifted`.
- `TrashProofs`. Everything but liveness, for any rows, kinds and foreign keys,
  any number of requests and any batch. A request relies on rows it has in
  hand, and `Observed` says that two who have a row in common have only spoilt
  ones: so what another does is done to other rows, or to spoilt ones
  (`OthersStand`), and the argument is about the acting request alone. What it
  relies on is `Deleting` (its root is live until its turn comes, what it read is
  live, what it stamped is deleted and nobody's), `Bringing` (the entry claims
  exactly what is left to clear and what was cleared) and `Clearing` (its entries
  are filed until the row is gone). `ClaimsHold` and `ClaimedOnce` are
  `EntriesAreExact` with restores under way; `Accounted` is `DeletedHasWayBack` with
  the ways a request's step can end. That a purge leaves only rows below its root
  behind needs `EntriesBelow`. The closures are least sets over the foreign keys:
  all that is used of them is that they contain their root and are closed
  (`RemovedAndBelow`), so cycles of keys do no harm.
- `SupportProofs`. `ShapeOf` says which step of a request knows what, `JobShapes`
  that a decision belongs to an active job; `WaitingIsArmedInv` follows from them
  because a job's id is free as soon as it ends. `OwnerlessIsExcusedInv` needs
  `Births`: a thread that is not inserted is known to the one request that opens
  it. `RoutingKeeps` is the compare-and-set of `ensureAssigned`.
- `MailroomProofs`. `KnowsItsRows` is what a call still holds of what it read when
  it writes, from the facts that items stay filed and requests keep their item
  and type (`Grows`): ids, types and owners do not go stale, statuses do. The
  three invariants then survive every stale write; `LeavingIsLogged` needs that
  the log is only of requests that are there (`LogIsOfRows`).

Model-checked only: `ConfirmingIsCredited`, `WindowCloses`, `EveryTransferAnswered`,
`OwedIsSettled`, `DueIsSettled` and `WaitingEnds`, since liveness under fairness, like
everything with ENABLED, is out of the prover's reach. Each invariant and each
action property that a run checks is the statement of a theorem.

## Findings

- **A paid quote can be cancelled** (`withdrawn`).
  `modules/admin/quotes/quotes.service.ts:625` updates by id after a check of its
  own read; `quotes.service.ts:595` says a paid quote can never be cancelled.

Other sentences of the source that the interleavings in these models do not
bear out, met while modelling and kept here for the team; no run is spent on them:

| Source | Says | Interleaving |
|---|---|---|
| `payments.service.ts:506` | "One live payment per quote." | two requests with different keys both read no live payment |
| `payments.service.ts:439` | a retried request resolves to the same payment | two requests with one key overlap; the loser's key collision is retried as an amount collision |
| `payments.service.ts:1614` | keep the progress bar honest | a sweep with an older clock writes after another has credited |
| `schema.prisma:2228` | a queued transfer is an already-seen answer | `payments.service.ts:1182` looks a hash up among payments only: the overlap window matches it to a window opened later, even when it was settled by hand from the queue |
| `payment-settings.service.ts:186` | open payments are untouched by a change of address | `payments.processor.ts:153` fetches the current address only; what is sent to the one they show is not seen |
| `payments.processor.ts:80` | "Never move the cursor backwards" | two sweeps overlap and the older writes last (the overlap makes it harmless) |
| `config/tron.ts:155` | a burst leaves nothing unseen | more rows than the pages hold, newest first |
| `schema.prisma:2190` | losing the row costs no credit | no sweep ran for longer than the cold-start window |
| `admin/delivery/delivery.service.ts:360` | delivering with a required field blank writes nothing | a save that clears the field commits after the gate |
| `delivery.service.ts:482` | the title cannot drift | the rows are read before the record is locked |
| `delivery.service.ts:506` | deliveredAt is stamped once | two overlapping saves, or a delivery after archiving |
| `delivery.service.ts:617` | P2002 means the reference collided | two first openings collide on the line |
| `orders.service.ts:464` | orders only move forward | a reviewer's move lands between read and write of advanceOrderStatus |
| `quotes.service.ts:363` | one payable quote | two sends both find none outstanding |
| `quotes.service.ts:529` | a retry gets its quote, no 409 | the retry misses its key, then meets its own quote |
| `admin/orders/orders.service.ts:989` | the loser writes nothing | a field sent unchanged is written but not pinned |
| `admin/orders/orders.service.ts:888` | no completion while a line is open | a line is reopened after the gate |
| `admin/orders/orders.service.ts:1026` | order and thread never disagree | a first message during a reassignment |
| `conversations.service.ts:45` | only an unassigned order is claimed by a reply | the assignee is read before the transaction |
| `schema.prisma:309`, `settings.notifications.ts:195` | SUPPRESSED is terminal; a job in flight declines | an execution that read the switch before it went off claims the suppressed row (`notifications.service.ts:173` excludes SENT only) and sends it |
| `team.service.ts:679` | the last active admin cannot be removed | two administrators demote each other, each counted as the other's successor |
| `team.service.ts:608` | auth role and job role never disagree | a role loses its auth role while a member who holds it is in the trash; the restore gives the old one back |
| `lib/staff-permissions.ts:58` | every member picks the role's new grants up | a save that read the role before the edit commits after it, with the old grants |
| `trash.registry.ts:912` | a role that is held is not deleted | a member is given the role between the count and the stamp |
| `trash.service.ts:320` | a failure never leaves rows deleted without a way back | it falls between the stamps and the entry (line 333) |
| `trash.service.ts:219` | a row deleted by a concurrent request is not claimed | two deletes read one child before either stamps it, and both entries claim it |
| `trash.service.ts:211` | children first | the list is in order of discovery: a customer's orders are stamped before the quotes of those orders |
| `trash.service.ts:665` | the database takes the children with it | children whose key is SetNull stay, deleted, with no entry |
| `trash.service.ts:669` | nothing may stop the sweep | the entry it means to put off has been restored: the update finds no row and throws |
| `trash.service.ts:702` | only what is in the bin is destroyed | a restore clears the row between the sweep's read and its delete |
| `trash.registry.ts:390` | a credited payment is never removed from the ledger | the guard is asked of roots only: its customer's delete takes it along, and the purge destroys it |
| `support.assignment.ts:187` | null means the thread has nobody | nobody is online when it looks, and a supervisor has assigned it meanwhile |
| `support.assignment.ts:178` | an unrouted thread is picked up by the next message | the message read an owner who is gone when it commits |
| `admin/support/support.service.ts:715` | a resubmitted assignee is not a write | the assignee read is stale by the time of the update, which moves the thread back |
| `support.notifications.ts:46` | what happened during the delay decides | a message that meets a job which has decided, but still holds its id, arms none |
| `mailroom/mailroom.service.ts:545` | one open request per item | a double tap |
| `mailroom/mailroom.service.ts:584` | a request to forward or shred has a flagged item | opening the envelope sets the item to unread under it |
| `mailroom/mailroom.service.ts:648` | a download is logged once | two downloads both find none |
| `admin/mailroom/mailroom.service.ts:648` | no scan request outlives the opening | one filed after `fileContents` read its list stays open: nothing can settle it, and the item takes no other request |
| `admin/mailroom/mailroom.service.ts:557` | handled post is not opened | it is forwarded between the check and the transaction, and comes back unread |
| `admin/mailroom/mailroom.service.ts:1023` | a completed request is not resolved again | two operators; the log has it twice |
| `admin/mailroom/mailroom.service.ts:940` | a double click cannot break the queue | `processRequest` crosses a resolution and reopens the completed request |
| `admin/mailroom/mailroom.service.ts:614` | fresh contents are flagged as new mail | a customer's view that read the item before marks them viewed |

## Not modelled

Listed per component in `PROJECT.json` with the reason. Out of scope for good:
formatting and parsing of TronGrid rows, e-mail and document rendering, signed
URLs, sessions (better-auth), rate limits, read-only lists, dashboards, reports
and exports, single-row edits (catalogue, form fields, locations, carriers,
profile), seed scripts, the React frontend: together most of the lines of the
repository, with no state shared between steps. Within the modelled components:
quote line items and totals, notes and attachments, exports, activity feeds,
reminders, the in-app feed, internal notes of support, soft-deleted orders,
quotes and payments under the payment and order flows (`Trash` has the deletion
itself), edits to the result registry during a save, provisioning of mail rooms,
service requests.

## Plan

1. Done: `Payments` with `PaymentLedger`, `ChainSweep`, `Delivery`,
   `OrderPipeline`, and their proofs.
2. Done: `Notifications`, `Access`, `Support` and `Mailroom` with proofs, `Trash`.
3. Done: theorems of `ChainSweep` for late cold starts, and of `OrderPipeline` for
   several quotes.
4. Provisioning inside `saveResult`, and `ServiceRequests` (`updateRequest`,
   `createRequest`), composed with `Delivery` and `Mailroom`.
5. Done: proofs about `Trash` and about requests to `Access` one after the other.
6. `Idempotency` (`withIdempotency` as an abstract specification that
   `createQuote` implements) and `Money` (rounding and conversion against a
   reference definition over bounded inputs).
