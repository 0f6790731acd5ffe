--------------------------- MODULE Notifications ---------------------------
(***************************************************************************)
(* Outbound e-mail: the notification rows, the queue jobs that send them   *)
(* and the switch that stands them down.  queueEmail, deliverEmail and     *)
(* markFailed of backend/src/modules/notifications/notifications.service.ts, *)
(* the queue and worker of backend/src/jobs, and                           *)
(* updateNotificationSettings of                                           *)
(* backend/src/modules/admin/settings/settings.notifications.ts.           *)
(*                                                                         *)
(* One action is one round trip to PostgreSQL, Redis or SES.               *)
(***************************************************************************)
EXTENDS Naturals, FiniteSets

CONSTANTS
  Mails,        \* the notification rows that may be written
  Slots,        \* the worker's concurrent executions
  NoMail,
  NoSlot,
  MaxAttempts,  \* JobsOptions.attempts
  MaxStalls,    \* BullMQ: how often a job may stall and run again
  MaxFlips      \* bound: switchings off

ASSUME NotificationsAssumption ==
  /\ NoMail \notin Mails
  /\ NoSlot \notin Slots
  /\ IsFiniteSet(Slots)
  /\ MaxAttempts \in Nat \ {0}
  /\ MaxStalls \in Nat
  /\ MaxFlips \in Nat

VARIABLES
  enabled,  \* NotificationSettings.emailEnabled
  admin,    \* where the write that switches e-mail off has got to
  flips,    \* the switchings off so far
  row,      \* the notification table
  producer, \* where the call of queueEmail for a mail has got to
  job,      \* the queue's job for a mail
  slot,     \* the executions of deliverEmail
  sends,    \* history: how often SES accepted the mail
  unknown,  \* history: acceptances no execution lived to record
  accident  \* history: what may cost a mail its job

vars == <<enabled, admin, flips, row, producer, job, slot, sends, unknown, accident>>

NotificationStatus == {"NONE", "PENDING", "SENT", "FAILED", "SUPPRESSED"}

Notification == [status : NotificationStatus, attempts : Nat]

\* `exhausted`: out of attempts, with the `failed` event not handled yet.
JobState == {"none", "waiting", "active", "exhausted", "failed", "completed"}

Job == [state : JobState, owner : Slots \cup {NoSlot}, made : Nat, stalls : Nat]

ProducerState == {"new", "enabled", "disabled", "stored", "done"}

Execution ==
  [pc : {"idle", "taken", "loaded", "declined", "allowed", "claimed", "accepted"},
   mail : Mails \cup {NoMail}, attempts : Nat]

Idle == [pc |-> "idle", mail |-> NoMail, attempts |-> 0]

\* The row the execution works on.
Row(s) == row[slot[s].mail]

\* BullMQ takes an execution's outcome only while it holds the job's lock.
Holds(s) == job[slot[s].mail].owner = s

-----------------------------------------------------------------------------
(* queueEmail *)

ReadSwitch(m) ==
  /\ producer[m] = "new"
  /\ producer' = [producer EXCEPT ![m] = IF enabled THEN "enabled" ELSE "disabled"]
  /\ UNCHANGED <<enabled, admin, flips, row, job, slot, sends, unknown, accident>>

\* The ledger records what was owed; only the job is skipped.
StoreRow(m) ==
  /\ producer[m] \in {"enabled", "disabled"}
  /\ row' = [row EXCEPT ![m].status =
               IF producer[m] = "enabled" THEN "PENDING" ELSE "SUPPRESSED"]
  /\ producer' = [producer EXCEPT ![m] =
                    IF producer[m] = "enabled" THEN "stored" ELSE "done"]
  /\ UNCHANGED <<enabled, admin, flips, job, slot, sends, unknown, accident>>

EnqueueEmail(m) ==
  /\ producer[m] = "stored"
  /\ producer' = [producer EXCEPT ![m] = "done"]
  /\ job' = [job EXCEPT ![m].state = "waiting"]
  /\ UNCHANGED <<enabled, admin, flips, row, slot, sends, unknown, accident>>

\* The process dies, or Redis refuses the job: the row stays as it is.
EnqueueLost(m) ==
  /\ producer[m] = "stored"
  /\ producer' = [producer EXCEPT ![m] = "done"]
  /\ accident' = [accident EXCEPT ![m] = @ \cup {"unqueued"}]
  /\ UNCHANGED <<enabled, admin, flips, row, job, slot, sends, unknown>>

-----------------------------------------------------------------------------
(* deliverEmail *)

\* Mutant: a job another execution holds is taken as well.
TakeUnlocked(s, m) ==
  /\ slot[s].pc = "idle"
  /\ job[m].state \in {"waiting", "active"}
  /\ job' = [job EXCEPT ![m].state = "active", ![m].owner = s]
  /\ slot' = [slot EXCEPT ![s] = [Idle EXCEPT !.pc = "taken", !.mail = m]]
  /\ UNCHANGED <<enabled, admin, flips, row, producer, sends, unknown, accident>>

\* The delay between two attempts is any time.
TakeJob(s, m) ==
  /\ slot[s].pc = "idle"
  /\ job[m].state = "waiting"
  /\ job' = [job EXCEPT ![m] = [@ EXCEPT !.state = "active", !.owner = s]]
  /\ slot' = [slot EXCEPT ![s] = [Idle EXCEPT !.pc = "taken", !.mail = m]]
  /\ UNCHANGED <<enabled, admin, flips, row, producer, sends, unknown, accident>>

\* The handler returned: the job is completed and kept as a duplicate's stop.
Complete(s) ==
  /\ job' = IF Holds(s)
              THEN [job EXCEPT ![slot[s].mail].state = "completed",
                               ![slot[s].mail].owner = NoSlot]
              ELSE job
  /\ slot' = [slot EXCEPT ![s] = Idle]

AlreadySent(s) ==
  /\ slot[s].pc = "taken"
  /\ Row(s).status = "SENT"
  /\ Complete(s)
  /\ UNCHANGED <<enabled, admin, flips, row, producer, sends, unknown, accident>>

LoadRow(s) ==
  /\ slot[s].pc = "taken"
  /\ Row(s).status # "SENT"
  /\ slot' = [slot EXCEPT ![s] = [@ EXCEPT !.pc = "loaded", !.attempts = Row(s).attempts]]
  /\ UNCHANGED <<enabled, admin, flips, row, producer, job, sends, unknown, accident>>

CheckSwitch(s) ==
  /\ slot[s].pc = "loaded"
  /\ slot' = [slot EXCEPT ![s].pc = IF enabled THEN "allowed" ELSE "declined"]
  /\ UNCHANGED <<enabled, admin, flips, row, producer, job, sends, unknown, accident>>

\* Mutant: a declined job leaves its row as it is.
DeclineSilently(s) ==
  /\ slot[s].pc = "declined"
  /\ Complete(s)
  /\ UNCHANGED <<enabled, admin, flips, row, producer, sends, unknown, accident>>

\* Returning normally: a declined job is not retried.
Decline(s) ==
  /\ slot[s].pc = "declined"
  /\ row' = [row EXCEPT ![slot[s].mail].status =
               IF @ = "PENDING" THEN "SUPPRESSED" ELSE @]
  /\ Complete(s)
  /\ UNCHANGED <<enabled, admin, flips, producer, sends, unknown, accident>>

\* Mutant: the status check alone.
Unsent(s) == Row(s).status # "SENT"

Claimable(s) ==
  /\ Row(s).status # "SENT"
  /\ Row(s).attempts = slot[s].attempts

ClaimRow(s) ==
  /\ slot[s].pc = "allowed"
  /\ Claimable(s)
  /\ row' = [row EXCEPT ![slot[s].mail].attempts = @ + 1]
  /\ slot' = [slot EXCEPT ![s].pc = "claimed"]
  /\ UNCHANGED <<enabled, admin, flips, producer, job, sends, unknown, accident>>

ClaimLost(s) ==
  /\ slot[s].pc = "allowed"
  /\ ~Claimable(s)
  /\ Complete(s)
  /\ UNCHANGED <<enabled, admin, flips, row, producer, sends, unknown, accident>>

SendEmail(s) ==
  /\ slot[s].pc = "claimed"
  /\ sends' = [sends EXCEPT ![slot[s].mail] = @ + 1]
  /\ slot' = [slot EXCEPT ![s].pc = "accepted"]
  /\ UNCHANGED <<enabled, admin, flips, row, producer, job, unknown, accident>>

RecordSent(s) ==
  /\ slot[s].pc = "accepted"
  /\ row' = [row EXCEPT ![slot[s].mail].status = "SENT"]
  /\ Complete(s)
  /\ UNCHANGED <<enabled, admin, flips, producer, sends, unknown, accident>>

\* An acceptance whose execution ends here is known to nobody.
Forget(s) ==
  unknown' = IF slot[s].pc = "accepted"
               THEN [unknown EXCEPT ![slot[s].mail] = @ + 1]
               ELSE unknown

\* Mutant: the last failure is not told from the others, and is not marked.
ThrowUnmarked(s) ==
  /\ slot[s].pc # "idle"
  /\ Forget(s)
  /\ LET m == slot[s].mail IN
       job' = IF Holds(s)
                THEN [job EXCEPT
                        ![m].state =
                          IF job[m].made + 1 >= MaxAttempts THEN "failed" ELSE "waiting",
                        ![m].owner = NoSlot,
                        ![m].made = @ + 1]
                ELSE job
  /\ slot' = [slot EXCEPT ![s] = Idle]
  /\ UNCHANGED <<enabled, admin, flips, row, producer, sends, accident>>

\* Any round trip may throw, the provider's first of all.  The job is retried
\* until its attempts are spent.
Throw(s) ==
  /\ slot[s].pc # "idle"
  /\ Forget(s)
  /\ LET m == slot[s].mail IN
       job' = IF Holds(s)
                THEN [job EXCEPT
                        ![m].state =
                          IF job[m].made + 1 >= MaxAttempts THEN "exhausted" ELSE "waiting",
                        ![m].owner = NoSlot,
                        ![m].made = @ + 1]
                ELSE job
  /\ slot' = [slot EXCEPT ![s] = Idle]
  /\ UNCHANGED <<enabled, admin, flips, row, producer, sends, accident>>

-----------------------------------------------------------------------------
(* The queue and its worker *)

\* The process dies with the execution: its job keeps the lock until it stalls.
CrashExecution(s) ==
  /\ slot[s].pc # "idle"
  /\ Forget(s)
  /\ slot' = [slot EXCEPT ![s] = Idle]
  /\ UNCHANGED <<enabled, admin, flips, row, producer, job, sends, accident>>

\* The lock of an active job is not renewed in time.  Its execution may be dead
\* or only slow; the job is run again, or failed for having stalled too often,
\* which the `failed` handler does not take for spent attempts.
Stall(m) ==
  /\ job[m].state = "active"
  /\ job' = [job EXCEPT
               ![m].state = IF job[m].stalls < MaxStalls THEN "waiting" ELSE "failed",
               ![m].owner = NoSlot,
               ![m].stalls = @ + 1]
  /\ accident' = [accident EXCEPT ![m] = @ \cup {"stalled"}]
  /\ UNCHANGED <<enabled, admin, flips, row, producer, slot, sends, unknown>>

\* The `failed` handler of an exhausted job.
MarkFailed(m) ==
  /\ job[m].state = "exhausted"
  /\ job' = [job EXCEPT ![m].state = "failed"]
  /\ row' = [row EXCEPT ![m].status = IF @ = "PENDING" THEN "FAILED" ELSE @]
  /\ UNCHANGED <<enabled, admin, flips, producer, slot, sends, unknown, accident>>

\* It is not awaited, and only logs that it could not write.
MarkLost(m) ==
  /\ job[m].state = "exhausted"
  /\ job' = [job EXCEPT ![m].state = "failed"]
  /\ accident' = [accident EXCEPT ![m] = @ \cup {"unmarked"}]
  /\ UNCHANGED <<enabled, admin, flips, row, producer, slot, sends, unknown>>

-----------------------------------------------------------------------------
(* updateNotificationSettings *)

SwitchOff ==
  /\ admin = "idle"
  /\ enabled
  /\ flips < MaxFlips
  /\ enabled' = FALSE
  /\ flips' = flips + 1
  /\ admin' = "suppressing"
  /\ UNCHANGED <<row, producer, job, slot, sends, unknown, accident>>

\* Mutant: whatever is in the table is suppressed.
SuppressAll ==
  /\ admin = "suppressing"
  /\ row' = [m \in Mails |->
               IF row[m].status # "NONE"
                 THEN [row[m] EXCEPT !.status = "SUPPRESSED"]
                 ELSE row[m]]
  /\ admin' = "draining"
  /\ UNCHANGED <<enabled, flips, producer, job, slot, sends, unknown, accident>>

SuppressPending ==
  /\ admin = "suppressing"
  /\ row' = [m \in Mails |->
               IF row[m].status = "PENDING"
                 THEN [row[m] EXCEPT !.status = "SUPPRESSED"]
                 ELSE row[m]]
  /\ admin' = "draining"
  /\ UNCHANGED <<enabled, flips, producer, job, slot, sends, unknown, accident>>

\* What is waiting or has failed goes; what is active stays.
DrainEmailQueue ==
  /\ admin = "draining"
  /\ job' = [m \in Mails |->
               IF job[m].state \in {"waiting", "failed"}
                 THEN [job[m] EXCEPT !.state = "none"]
                 ELSE job[m]]
  /\ accident' = [m \in Mails |->
                    IF job[m].state = "waiting" /\ row[m].status = "PENDING"
                      THEN accident[m] \cup {"drained"}
                      ELSE accident[m]]
  /\ admin' = "idle"
  /\ UNCHANGED <<enabled, flips, row, producer, slot, sends, unknown>>

\* A failure of Redis does not fail the write.
DrainFailed ==
  /\ admin = "draining"
  /\ admin' = "idle"
  /\ UNCHANGED <<enabled, flips, row, producer, job, slot, sends, unknown, accident>>

\* Another request may switch e-mail on while the first still cleans up.
SwitchOn ==
  /\ ~enabled
  /\ enabled' = TRUE
  /\ UNCHANGED <<admin, flips, row, producer, job, slot, sends, unknown, accident>>

-----------------------------------------------------------------------------
Init ==
  /\ enabled \in BOOLEAN
  /\ admin = "idle"
  /\ flips = 0
  /\ row = [m \in Mails |-> [status |-> "NONE", attempts |-> 0]]
  /\ producer = [m \in Mails |-> "new"]
  /\ job = [m \in Mails |-> [state |-> "none", owner |-> NoSlot, made |-> 0, stalls |-> 0]]
  /\ slot = [s \in Slots |-> Idle]
  /\ sends = [m \in Mails |-> 0]
  /\ unknown = [m \in Mails |-> 0]
  /\ accident = [m \in Mails |-> {}]

Produce(m) == ReadSwitch(m) \/ StoreRow(m) \/ EnqueueEmail(m) \/ EnqueueLost(m)

Deliver(s) ==
  \/ AlreadySent(s) \/ LoadRow(s) \/ CheckSwitch(s) \/ Decline(s)
  \/ ClaimRow(s) \/ ClaimLost(s) \/ SendEmail(s) \/ RecordSent(s) \/ Throw(s)

Settings == SwitchOff \/ SuppressPending \/ DrainEmailQueue \/ DrainFailed \/ SwitchOn

Next ==
  \/ \E m \in Mails : Produce(m) \/ Stall(m) \/ MarkFailed(m) \/ MarkLost(m)
  \/ \E s \in Slots : Deliver(s) \/ CrashExecution(s) \/ \E m \in Mails : TakeJob(s, m)
  \/ Settings

Spec == Init /\ [][Next]_vars

\* Workers keep working, a call of queueEmail ends, a lost lock is noticed.
\* Nothing is assumed of the administrators.
FairSpec ==
  /\ Spec
  /\ \A m \in Mails :
       /\ WF_vars(Produce(m))
       /\ WF_vars(MarkFailed(m) \/ MarkLost(m))
       /\ WF_vars(\E s \in Slots : TakeJob(s, m))
       /\ WF_vars(Stall(m) /\ ~\E s \in Slots : slot[s].mail = m /\ Holds(s))
  /\ \A s \in Slots : WF_vars(Deliver(s))

-----------------------------------------------------------------------------
(* Properties *)

TypeOK ==
  /\ enabled \in BOOLEAN
  /\ admin \in {"idle", "suppressing", "draining"}
  /\ flips \in Nat
  /\ row \in [Mails -> Notification]
  /\ producer \in [Mails -> ProducerState]
  /\ job \in [Mails -> Job]
  /\ slot \in [Slots -> Execution]
  /\ sends \in [Mails -> Nat]
  /\ unknown \in [Mails -> Nat]
  /\ accident \in [Mails -> SUBSET {"unqueued", "stalled", "unmarked", "drained"}]

Accepted(m) == {s \in Slots : slot[s].pc = "accepted" /\ slot[s].mail = m}

\* A row that does not say SENT was not sent: every acceptance is either still
\* being recorded or was forgotten by an execution that died or whose update
\* failed.  No late suppression, failure or retry overwrites a delivery.
UnsentWasNotSent ==
  \A m \in Mails :
    row[m].status # "SENT" => sends[m] = unknown[m] + Cardinality(Accepted(m))

\* A mail goes out twice only after its job stalled or an acceptance was
\* forgotten: neither retries nor the switch make a second copy.
SentOnceUnlessFault ==
  \A m \in Mails :
    sends[m] > 1 => "stalled" \in accident[m] \/ unknown[m] > 0

\* The claim is exclusive: two executions past it hold different attempts, even
\* when one of them runs for a job that was given to the other.
ClaimsAreExclusive ==
  \A s, t \in Slots :
    /\ s # t /\ slot[s].mail = slot[t].mail
    /\ slot[s].pc \in {"claimed", "accepted"}
    /\ slot[t].pc \in {"claimed", "accepted"}
    => slot[s].attempts # slot[t].attempts

\* A mail that is owed has something that will settle it, unless one of four
\* accidents took it away: the queue refused it, its job stalled, its failure
\* could not be written, or the clean-up drained it after storing was under way.
OwedHasJob ==
  \A m \in Mails :
    row[m].status = "PENDING" /\ accident[m] = {} =>
      producer[m] = "stored" \/ job[m].state \in {"waiting", "active", "exhausted"}

\* A mail that is owed gets settled, whatever the administrators do, unless one
\* of those accidents happens to it.
OwedIsSettled ==
  \A m \in Mails :
    row[m].status = "PENDING" ~> row[m].status # "PENDING" \/ accident[m] # {}
=============================================================================
