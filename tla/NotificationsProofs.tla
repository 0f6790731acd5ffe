------------------------ MODULE NotificationsProofs -------------------------
(***************************************************************************)
(* Proofs about the module Notifications, for any mails, executions,       *)
(* attempts and stalls.  The invariants are proved one after the other,    *)
(* each from the ones before it.                                           *)
(***************************************************************************)
EXTENDS Notifications, FiniteSetTheorems, TLAPS

\* An idle execution has no mail.
Assigned == \A s \in Slots : slot[s].pc = "idle" <=> slot[s].mail = NoMail

\* A row keeps its type when its status is written, and a job its own when its
\* state is.
LEMMA StatusTyped ==
  ASSUME NEW r \in Notification, NEW v \in NotificationStatus
  PROVE  [r EXCEPT !.status = v] \in Notification
BY DEF Notification

\* A job whose state changes is a job.
LEMMA StateTyped ==
  ASSUME NEW j \in Job, NEW v \in JobState
  PROVE  [j EXCEPT !.state = v] \in Job
BY DEF Job

(***************************************************************************)
(* Every row, job and execution keeps its type, in every behaviour.        *)
(***************************************************************************)
THEOREM TypeCorrect == Spec => [](TypeOK /\ Assigned)
<1> USE NotificationsAssumption
<1>1. Init => TypeOK /\ Assigned
  BY DEF Init, TypeOK, Notification, NotificationStatus, ProducerState, Job, JobState,
         Execution, Idle, Assigned
<1>2. TypeOK /\ Assigned /\ [Next]_vars => TypeOK' /\ Assigned'
  <2> SUFFICES ASSUME TypeOK, Assigned, [Next]_vars PROVE TypeOK' /\ Assigned'
    OBVIOUS
  <2>1. ASSUME NEW m \in Mails, ReadSwitch(m) PROVE TypeOK' /\ Assigned'
    <3>1. producer' \in [Mails -> ProducerState]
      BY <2>1 DEF ReadSwitch, TypeOK, ProducerState
    <3> QED
      BY <2>1, <3>1 DEF ReadSwitch, TypeOK, Assigned
  <2>2. ASSUME NEW m \in Mails, StoreRow(m) PROVE TypeOK' /\ Assigned'
    <3>1. row' \in [Mails -> Notification]
      BY <2>2 DEF StoreRow, TypeOK, Notification, NotificationStatus
    <3>2. producer' \in [Mails -> ProducerState]
      BY <2>2 DEF StoreRow, TypeOK, ProducerState
    <3> QED
      BY <2>2, <3>1, <3>2 DEF StoreRow, TypeOK, Assigned
  <2>3. ASSUME NEW m \in Mails, EnqueueEmail(m) PROVE TypeOK' /\ Assigned'
    <3>1. producer' \in [Mails -> ProducerState]
      BY <2>3 DEF EnqueueEmail, TypeOK, ProducerState
    <3>2. job' \in [Mails -> Job]
      <4>1. job \in [Mails -> Job] /\ "waiting" \in JobState
        BY DEF TypeOK, JobState
      <4>2. [job[m] EXCEPT !.state = "waiting"] \in Job
        BY <4>1, StateTyped
      <4> QED
        BY <2>3, <4>1, <4>2 DEF EnqueueEmail
    <3> QED
      BY <2>3, <3>1, <3>2 DEF EnqueueEmail, TypeOK, Assigned
  <2>4. ASSUME NEW m \in Mails, EnqueueLost(m) PROVE TypeOK' /\ Assigned'
    <3>1. producer' \in [Mails -> ProducerState]
      BY <2>4 DEF EnqueueLost, TypeOK, ProducerState
    <3>2. accident' \in [Mails -> SUBSET {"unqueued", "stalled", "unmarked", "drained"}]
      BY <2>4 DEF EnqueueLost, TypeOK
    <3> QED
      BY <2>4, <3>1, <3>2 DEF EnqueueLost, TypeOK, Assigned
  <2>5. ASSUME NEW m \in Mails, Stall(m) PROVE TypeOK' /\ Assigned'
    <3>1. job' \in [Mails -> Job]
      BY <2>5 DEF Stall, TypeOK, Job, JobState
    <3>2. accident' \in [Mails -> SUBSET {"unqueued", "stalled", "unmarked", "drained"}]
      BY <2>5 DEF Stall, TypeOK
    <3> QED
      BY <2>5, <3>1, <3>2 DEF Stall, TypeOK, Assigned
  <2>6. ASSUME NEW m \in Mails, MarkFailed(m) PROVE TypeOK' /\ Assigned'
    <3>1. job' \in [Mails -> Job]
      <4>1. job \in [Mails -> Job] /\ "failed" \in JobState
        BY DEF TypeOK, JobState
      <4>2. [job[m] EXCEPT !.state = "failed"] \in Job
        BY <4>1, StateTyped
      <4> QED
        BY <2>6, <4>1, <4>2 DEF MarkFailed
    <3>2. row' \in [Mails -> Notification]
      <4> DEFINE v == IF row[m].status = "PENDING" THEN "FAILED" ELSE row[m].status
      <4>1. row \in [Mails -> Notification] /\ v \in NotificationStatus
        BY DEF TypeOK, Notification, NotificationStatus
      <4>2. row' = [row EXCEPT ![m] = [row[m] EXCEPT !.status = v]]
        BY <2>6, <4>1 DEF MarkFailed
      <4>3. [row[m] EXCEPT !.status = v] \in Notification
        BY <4>1, StatusTyped
      <4> QED
        BY <4>1, <4>2, <4>3
    <3> QED
      BY <2>6, <3>1, <3>2 DEF MarkFailed, TypeOK, Assigned
  <2>7. ASSUME NEW m \in Mails, MarkLost(m) PROVE TypeOK' /\ Assigned'
    <3>1. job' \in [Mails -> Job]
      BY <2>7 DEF MarkLost, TypeOK, Job, JobState
    <3>2. accident' \in [Mails -> SUBSET {"unqueued", "stalled", "unmarked", "drained"}]
      BY <2>7 DEF MarkLost, TypeOK
    <3> QED
      BY <2>7, <3>1, <3>2 DEF MarkLost, TypeOK, Assigned
  <2>8. ASSUME NEW s \in Slots, AlreadySent(s) PROVE TypeOK' /\ Assigned'
    <3>1. slot[s].mail \in Mails
      BY <2>8 DEF AlreadySent, TypeOK, Assigned, Execution
    <3>2. job' \in [Mails -> Job]
      BY <2>8, <3>1 DEF AlreadySent, Row, Complete, Holds, TypeOK, Job, JobState
    <3>3. slot' \in [Slots -> Execution] /\ Assigned'
      BY <2>8, <3>1 DEF AlreadySent, Row, Complete, Holds, TypeOK, Execution, Idle, Assigned, Notification
    <3> QED
      BY <2>8, <3>1, <3>2, <3>3 DEF AlreadySent, TypeOK
  <2>9. ASSUME NEW s \in Slots, LoadRow(s) PROVE TypeOK' /\ Assigned'
    <3>1. slot[s].mail \in Mails
      BY <2>9 DEF LoadRow, TypeOK, Assigned, Execution
    <3>2. slot' \in [Slots -> Execution] /\ Assigned'
      BY <2>9, <3>1 DEF LoadRow, Row, TypeOK, Execution, Idle, Assigned, Notification
    <3> QED
      BY <2>9, <3>1, <3>2 DEF LoadRow, TypeOK
  <2>10. ASSUME NEW s \in Slots, CheckSwitch(s) PROVE TypeOK' /\ Assigned'
    <3>1. slot[s].mail \in Mails
      BY <2>10 DEF CheckSwitch, TypeOK, Assigned, Execution
    <3>2. slot' \in [Slots -> Execution] /\ Assigned'
      BY <2>10, <3>1 DEF CheckSwitch, TypeOK, Execution, Idle, Assigned, Notification
    <3> QED
      BY <2>10, <3>1, <3>2 DEF CheckSwitch, TypeOK
  <2>11. ASSUME NEW s \in Slots, Decline(s) PROVE TypeOK' /\ Assigned'
    <3>1. slot[s].mail \in Mails
      BY <2>11 DEF Decline, TypeOK, Assigned, Execution
    <3>2. row' \in [Mails -> Notification]
      <4> DEFINE r == row[slot[s].mail]
                 v == IF r.status = "PENDING" THEN "SUPPRESSED" ELSE r.status
      <4>1. row \in [Mails -> Notification] /\ r \in Notification /\ v \in NotificationStatus
        BY <3>1 DEF TypeOK, Notification, NotificationStatus
      <4>2. row' = [row EXCEPT ![slot[s].mail] = [r EXCEPT !.status = v]]
        BY <2>11, <4>1 DEF Decline
      <4>3. [r EXCEPT !.status = v] \in Notification
        BY <4>1, StatusTyped
      <4> QED
        BY <4>1, <4>2, <4>3
    <3>3. job' \in [Mails -> Job]
      BY <2>11, <3>1 DEF Decline, Complete, Holds, TypeOK, Job, JobState
    <3>4. slot' \in [Slots -> Execution] /\ Assigned'
      BY <2>11, <3>1 DEF Decline, Complete, Holds, TypeOK, Execution, Idle, Assigned, Notification
    <3> QED
      BY <2>11, <3>1, <3>2, <3>3, <3>4 DEF Decline, TypeOK
  <2>12. ASSUME NEW s \in Slots, ClaimRow(s) PROVE TypeOK' /\ Assigned'
    <3>1. slot[s].mail \in Mails
      BY <2>12 DEF ClaimRow, TypeOK, Assigned, Execution
    <3>2. row' \in [Mails -> Notification]
      BY <2>12, <3>1 DEF ClaimRow, Claimable, Row, TypeOK, Notification, NotificationStatus
    <3>3. slot' \in [Slots -> Execution] /\ Assigned'
      BY <2>12, <3>1 DEF ClaimRow, Claimable, Row, TypeOK, Execution, Idle, Assigned, Notification
    <3> QED
      BY <2>12, <3>1, <3>2, <3>3 DEF ClaimRow, TypeOK
  <2>13. ASSUME NEW s \in Slots, ClaimLost(s) PROVE TypeOK' /\ Assigned'
    <3>1. slot[s].mail \in Mails
      BY <2>13 DEF ClaimLost, TypeOK, Assigned, Execution
    <3>2. job' \in [Mails -> Job]
      BY <2>13, <3>1 DEF ClaimLost, Claimable, Row, Complete, Holds, TypeOK, Job, JobState
    <3>3. slot' \in [Slots -> Execution] /\ Assigned'
      BY <2>13, <3>1 DEF ClaimLost, Claimable, Row, Complete, Holds, TypeOK, Execution, Idle, Assigned, Notification
    <3> QED
      BY <2>13, <3>1, <3>2, <3>3 DEF ClaimLost, TypeOK
  <2>14. ASSUME NEW s \in Slots, SendEmail(s) PROVE TypeOK' /\ Assigned'
    <3>1. slot[s].mail \in Mails
      BY <2>14 DEF SendEmail, TypeOK, Assigned, Execution
    <3>2. sends' \in [Mails -> Nat]
      BY <2>14, <3>1 DEF SendEmail, TypeOK
    <3>3. slot' \in [Slots -> Execution] /\ Assigned'
      BY <2>14, <3>1 DEF SendEmail, TypeOK, Execution, Idle, Assigned, Notification
    <3> QED
      BY <2>14, <3>1, <3>2, <3>3 DEF SendEmail, TypeOK
  <2>15. ASSUME NEW s \in Slots, RecordSent(s) PROVE TypeOK' /\ Assigned'
    <3>1. slot[s].mail \in Mails
      BY <2>15 DEF RecordSent, TypeOK, Assigned, Execution
    <3>2. row' \in [Mails -> Notification]
      <4>1. row \in [Mails -> Notification] /\ "SENT" \in NotificationStatus
        BY DEF TypeOK, NotificationStatus
      <4>2. row' = [row EXCEPT ![slot[s].mail] = [row[slot[s].mail] EXCEPT !.status = "SENT"]]
        BY <2>15, <4>1 DEF RecordSent
      <4>3. [row[slot[s].mail] EXCEPT !.status = "SENT"] \in Notification
        BY <3>1, <4>1, StatusTyped
      <4> QED
        BY <4>1, <4>2, <4>3
    <3>3. job' \in [Mails -> Job]
      BY <2>15, <3>1 DEF RecordSent, Complete, Holds, TypeOK, Job, JobState
    <3>4. slot' \in [Slots -> Execution] /\ Assigned'
      BY <2>15, <3>1 DEF RecordSent, Complete, Holds, TypeOK, Execution, Idle, Assigned, Notification
    <3> QED
      BY <2>15, <3>1, <3>2, <3>3, <3>4 DEF RecordSent, TypeOK
  <2>16. ASSUME NEW s \in Slots, Throw(s) PROVE TypeOK' /\ Assigned'
    <3>1. slot[s].mail \in Mails
      BY <2>16 DEF Throw, TypeOK, Assigned, Execution
    <3>2. job' \in [Mails -> Job]
      BY <2>16, <3>1 DEF Throw, Forget, Holds, TypeOK, Job, JobState
    <3>3. slot' \in [Slots -> Execution] /\ Assigned'
      BY <2>16, <3>1 DEF Throw, Forget, Holds, TypeOK, Execution, Idle, Assigned, Notification
    <3>4. unknown' \in [Mails -> Nat]
      BY <2>16, <3>1 DEF Throw, Forget, Holds, TypeOK
    <3> QED
      BY <2>16, <3>1, <3>2, <3>3, <3>4 DEF Throw, TypeOK
  <2>17. ASSUME NEW s \in Slots, CrashExecution(s) PROVE TypeOK' /\ Assigned'
    <3>1. slot[s].mail \in Mails
      BY <2>17 DEF CrashExecution, TypeOK, Assigned, Execution
    <3>2. slot' \in [Slots -> Execution] /\ Assigned'
      BY <2>17, <3>1 DEF CrashExecution, Forget, TypeOK, Execution, Idle, Assigned, Notification
    <3>3. unknown' \in [Mails -> Nat]
      BY <2>17, <3>1 DEF CrashExecution, Forget, TypeOK
    <3> QED
      BY <2>17, <3>1, <3>2, <3>3 DEF CrashExecution, TypeOK
  <2>18. ASSUME NEW s \in Slots, NEW m \in Mails, TakeJob(s, m) PROVE TypeOK' /\ Assigned'
    <3>1. job' \in [Mails -> Job]
      <4>1. job[m] \in Job
        BY DEF TypeOK
      <4>2. [job[m] EXCEPT !.state = "active", !.owner = s] \in Job
        BY <4>1 DEF Job, JobState
      <4> QED
        BY <2>18, <4>2 DEF TakeJob, TypeOK
    <3>2. slot' \in [Slots -> Execution] /\ Assigned'
      BY <2>18 DEF TakeJob, TypeOK, Execution, Idle, Assigned, Notification
    <3> QED
      BY <2>18, <3>1, <3>2 DEF TakeJob, TypeOK
  <2>19. CASE SwitchOff
    <3>1. enabled' \in BOOLEAN /\ admin' \in {"idle", "suppressing", "draining"}
      BY <2>19 DEF SwitchOff
    <3>2. flips' \in Nat
      BY <2>19 DEF SwitchOff, TypeOK
    <3> QED
      BY <2>19, <3>1, <3>2 DEF SwitchOff, TypeOK, Assigned
  <2>20. CASE SuppressPending
    <3>1. row' \in [Mails -> Notification]
      BY <2>20, StatusTyped DEF SuppressPending, TypeOK, NotificationStatus
    <3> QED
      BY <2>20, <3>1 DEF SuppressPending, TypeOK, Assigned
  <2>21. CASE DrainEmailQueue
    <3>1. job' \in [Mails -> Job]
      BY <2>21, StateTyped DEF DrainEmailQueue, TypeOK, JobState
    <3>2. accident' \in [Mails -> SUBSET {"unqueued", "stalled", "unmarked", "drained"}]
      BY <2>21 DEF DrainEmailQueue, TypeOK
    <3> QED
      BY <2>21, <3>1, <3>2 DEF DrainEmailQueue, TypeOK, Assigned
  <2>22. CASE DrainFailed
    BY <2>22 DEF DrainFailed, TypeOK, Assigned
  <2>23. CASE SwitchOn
    BY <2>23 DEF SwitchOn, TypeOK, Assigned
  <2>24. CASE UNCHANGED vars
    BY <2>24 DEF vars, TypeOK, Assigned
  <2> QED
    BY <2>1, <2>2, <2>3, <2>4, <2>5, <2>6, <2>7, <2>8, <2>9, <2>10, <2>11, <2>12, <2>13, <2>14, <2>15, <2>16, <2>17, <2>18, <2>19, <2>20, <2>21, <2>22, <2>23, <2>24 DEF Next, Produce, Deliver, Settings
<1> QED
  BY <1>1, <1>2, PTL DEF Spec

-----------------------------------------------------------------------------
(* Who holds a job *)

\* Nothing runs for a mail before queueEmail is done with it.
Unstarted ==
  \A m \in Mails :
    /\ producer[m] # "done" =>
         job[m].state = "none" /\ \A s \in Slots : slot[s].mail # m
    /\ producer[m] \in {"new", "enabled", "disabled"} => row[m].status = "NONE"

\* An execution of a job that never stalled holds its lock.
Locked ==
  \A s \in Slots : \A m \in Mails :
    slot[s].mail = m /\ "stalled" \notin accident[m] =>
      job[m].state = "active" /\ job[m].owner = s

Held == Unstarted /\ Locked

(***************************************************************************)
(* Without a stall a job runs once at a time.                              *)
(***************************************************************************)
THEOREM HeldAlways == Spec => []Held
<1> USE NotificationsAssumption
<1>1. Init => Held
  BY DEF Init, Held, Unstarted, Locked, Idle
<1>2. TypeOK /\ Assigned /\ Held /\ [Next]_vars => Held'
  <2> SUFFICES ASSUME TypeOK, Assigned, Held, [Next]_vars PROVE Held'
    OBVIOUS
  <2> USE DEF TypeOK, Notification, Job, Execution, Assigned, Held, Unstarted, Locked, Idle
  <2>1. ASSUME NEW m \in Mails, ReadSwitch(m) PROVE Held'
    BY <2>1 DEF ReadSwitch
  <2>2. ASSUME NEW m \in Mails, StoreRow(m) PROVE Held'
    BY <2>2 DEF StoreRow
  <2>3. ASSUME NEW m \in Mails, EnqueueEmail(m) PROVE Held'
    BY <2>3 DEF EnqueueEmail
  <2>4. ASSUME NEW m \in Mails, EnqueueLost(m) PROVE Held'
    BY <2>4 DEF EnqueueLost
  <2>5. ASSUME NEW m \in Mails, Stall(m) PROVE Held'
    BY <2>5 DEF Stall
  <2>6. ASSUME NEW m \in Mails, MarkFailed(m) PROVE Held'
    BY <2>6 DEF MarkFailed
  <2>7. ASSUME NEW m \in Mails, MarkLost(m) PROVE Held'
    BY <2>7 DEF MarkLost
  <2>8. ASSUME NEW s \in Slots, AlreadySent(s) PROVE Held'
    BY <2>8 DEF AlreadySent, Row, Complete, Holds
  <2>9. ASSUME NEW s \in Slots, LoadRow(s) PROVE Held'
    BY <2>9 DEF LoadRow, Row
  <2>10. ASSUME NEW s \in Slots, CheckSwitch(s) PROVE Held'
    BY <2>10 DEF CheckSwitch
  <2>11. ASSUME NEW s \in Slots, Decline(s) PROVE Held'
    BY <2>11 DEF Decline, Complete, Holds
  <2>12. ASSUME NEW s \in Slots, ClaimRow(s) PROVE Held'
    BY <2>12 DEF ClaimRow, Claimable, Row
  <2>13. ASSUME NEW s \in Slots, ClaimLost(s) PROVE Held'
    BY <2>13 DEF ClaimLost, Claimable, Row, Complete, Holds
  <2>14. ASSUME NEW s \in Slots, SendEmail(s) PROVE Held'
    BY <2>14 DEF SendEmail
  <2>15. ASSUME NEW s \in Slots, RecordSent(s) PROVE Held'
    BY <2>15 DEF RecordSent, Complete, Holds
  <2>16. ASSUME NEW s \in Slots, Throw(s) PROVE Held'
    <3>1. /\ slot' = [slot EXCEPT ![s] = Idle]
          /\ row' = row /\ producer' = producer /\ accident' = accident
      BY <2>16 DEF Throw
    <3>2. \A n \in Mails \ {slot[s].mail} : job'[n] = job[n]
      BY <2>16 DEF Throw
    <3>3. \A t \in Slots : slot'[t].mail \in Mails => t # s /\ slot'[t] = slot[t]
      BY <3>1
    <3>4. \A t \in Slots \ {s} : slot[t].mail = slot[s].mail /\ slot[s].mail \in Mails
                                 => "stalled" \in accident[slot[s].mail]
      OBVIOUS
    <3>5. Unstarted'
      BY <3>1, <3>2, <3>3
    <3>6. Locked'
      BY <3>1, <3>2, <3>3, <3>4
    <3> QED
      BY <3>5, <3>6
  <2>17. ASSUME NEW s \in Slots, CrashExecution(s) PROVE Held'
    BY <2>17 DEF CrashExecution, Forget
  <2>18. ASSUME NEW s \in Slots, NEW m \in Mails, TakeJob(s, m) PROVE Held'
    BY <2>18 DEF TakeJob
  <2>19. CASE SwitchOff
    BY <2>19 DEF SwitchOff
  <2>20. CASE SuppressPending
    BY <2>20 DEF SuppressPending
  <2>21. CASE DrainEmailQueue
    BY <2>21 DEF DrainEmailQueue
  <2>22. CASE DrainFailed
    BY <2>22 DEF DrainFailed
  <2>23. CASE SwitchOn
    BY <2>23 DEF SwitchOn
  <2>24. CASE UNCHANGED vars
    BY <2>24 DEF vars
  <2> QED
    BY <2>1, <2>2, <2>3, <2>4, <2>5, <2>6, <2>7, <2>8, <2>9, <2>10, <2>11, <2>12, <2>13, <2>14, <2>15, <2>16, <2>17, <2>18, <2>19, <2>20, <2>21, <2>22, <2>23, <2>24 DEF Next, Produce, Deliver, Settings
<1> QED
  BY <1>1, <1>2, TypeCorrect, PTL DEF Spec

-----------------------------------------------------------------------------
(* The claim *)

\* A claim was made on fewer attempts than the row has since.
ClaimsAreOld ==
  \A s \in Slots : \A m \in Mails :
    slot[s].mail = m /\ slot[s].pc \in {"claimed", "accepted"} =>
      slot[s].attempts < row[m].attempts

(***************************************************************************)
(* ClaimsAreExclusive: the compare-and-set on `attempts` in deliverEmail   *)
(* lets no two executions past it on the same value.                       *)
(***************************************************************************)
THEOREM ClaimsExclude == Spec => []ClaimsAreExclusive
<1> USE NotificationsAssumption
<1>1. Init => ClaimsAreOld /\ ClaimsAreExclusive
  BY DEF Init, ClaimsAreOld, ClaimsAreExclusive, Idle
<1>2. TypeOK /\ Assigned /\ ClaimsAreOld /\ ClaimsAreExclusive /\ [Next]_vars
        => ClaimsAreOld' /\ ClaimsAreExclusive'
  <2> SUFFICES ASSUME TypeOK, Assigned, ClaimsAreOld, ClaimsAreExclusive, [Next]_vars
               PROVE  ClaimsAreOld' /\ ClaimsAreExclusive'
    OBVIOUS
  <2> USE DEF TypeOK, Notification, Execution, Assigned, ClaimsAreOld, ClaimsAreExclusive, Idle
  <2>1. ASSUME NEW m \in Mails, ReadSwitch(m) PROVE ClaimsAreOld' /\ ClaimsAreExclusive'
    BY <2>1 DEF ReadSwitch
  <2>2. ASSUME NEW m \in Mails, StoreRow(m) PROVE ClaimsAreOld' /\ ClaimsAreExclusive'
    BY <2>2 DEF StoreRow
  <2>3. ASSUME NEW m \in Mails, EnqueueEmail(m) PROVE ClaimsAreOld' /\ ClaimsAreExclusive'
    BY <2>3 DEF EnqueueEmail
  <2>4. ASSUME NEW m \in Mails, EnqueueLost(m) PROVE ClaimsAreOld' /\ ClaimsAreExclusive'
    BY <2>4 DEF EnqueueLost
  <2>5. ASSUME NEW m \in Mails, Stall(m) PROVE ClaimsAreOld' /\ ClaimsAreExclusive'
    BY <2>5 DEF Stall
  <2>6. ASSUME NEW m \in Mails, MarkFailed(m) PROVE ClaimsAreOld' /\ ClaimsAreExclusive'
    BY <2>6 DEF MarkFailed
  <2>7. ASSUME NEW m \in Mails, MarkLost(m) PROVE ClaimsAreOld' /\ ClaimsAreExclusive'
    BY <2>7 DEF MarkLost
  <2>8. ASSUME NEW s \in Slots, AlreadySent(s) PROVE ClaimsAreOld' /\ ClaimsAreExclusive'
    BY <2>8 DEF AlreadySent, Row, Complete, Holds
  <2>9. ASSUME NEW s \in Slots, LoadRow(s) PROVE ClaimsAreOld' /\ ClaimsAreExclusive'
    BY <2>9 DEF LoadRow, Row
  <2>10. ASSUME NEW s \in Slots, CheckSwitch(s) PROVE ClaimsAreOld' /\ ClaimsAreExclusive'
    BY <2>10 DEF CheckSwitch
  <2>11. ASSUME NEW s \in Slots, Decline(s) PROVE ClaimsAreOld' /\ ClaimsAreExclusive'
    BY <2>11 DEF Decline, Complete, Holds
  <2>12. ASSUME NEW s \in Slots, ClaimRow(s) PROVE ClaimsAreOld' /\ ClaimsAreExclusive'
    BY <2>12 DEF ClaimRow, Claimable, Row
  <2>13. ASSUME NEW s \in Slots, ClaimLost(s) PROVE ClaimsAreOld' /\ ClaimsAreExclusive'
    BY <2>13 DEF ClaimLost, Claimable, Row, Complete, Holds
  <2>14. ASSUME NEW s \in Slots, SendEmail(s) PROVE ClaimsAreOld' /\ ClaimsAreExclusive'
    BY <2>14 DEF SendEmail
  <2>15. ASSUME NEW s \in Slots, RecordSent(s) PROVE ClaimsAreOld' /\ ClaimsAreExclusive'
    BY <2>15 DEF RecordSent, Complete, Holds
  <2>16. ASSUME NEW s \in Slots, Throw(s) PROVE ClaimsAreOld' /\ ClaimsAreExclusive'
    BY <2>16 DEF Throw, Forget, Holds
  <2>17. ASSUME NEW s \in Slots, CrashExecution(s) PROVE ClaimsAreOld' /\ ClaimsAreExclusive'
    BY <2>17 DEF CrashExecution, Forget
  <2>18. ASSUME NEW s \in Slots, NEW m \in Mails, TakeJob(s, m) PROVE ClaimsAreOld' /\ ClaimsAreExclusive'
    BY <2>18 DEF TakeJob
  <2>19. CASE SwitchOff
    BY <2>19 DEF SwitchOff
  <2>20. CASE SuppressPending
    BY <2>20 DEF SuppressPending
  <2>21. CASE DrainEmailQueue
    BY <2>21 DEF DrainEmailQueue
  <2>22. CASE DrainFailed
    BY <2>22 DEF DrainFailed
  <2>23. CASE SwitchOn
    BY <2>23 DEF SwitchOn
  <2>24. CASE UNCHANGED vars
    BY <2>24 DEF vars
  <2> QED
    BY <2>1, <2>2, <2>3, <2>4, <2>5, <2>6, <2>7, <2>8, <2>9, <2>10, <2>11, <2>12, <2>13, <2>14, <2>15, <2>16, <2>17, <2>18, <2>19, <2>20, <2>21, <2>22, <2>23, <2>24 DEF Next, Produce, Deliver, Settings
<1> QED
  BY <1>1, <1>2, TypeCorrect, PTL DEF Spec

-----------------------------------------------------------------------------
(* What is owed *)

\* Without a stall the row is as its execution read it, until the claim.
Fresh ==
  \A s \in Slots : \A m \in Mails :
    slot[s].mail = m /\ "stalled" \notin accident[m] =>
      /\ slot[s].pc # "taken" => row[m].status # "SENT"
      /\ slot[s].pc \in {"loaded", "declined", "allowed"} =>
           slot[s].attempts = row[m].attempts

\* It stays so while executions start, end or stay as they are, no stall is taken
\* back, and a row keeps its attempts and is not marked SENT.
LEMMA FreshKept ==
  ASSUME Fresh,
         \A s \in Slots :
           slot'[s] = slot[s] \/ slot'[s].mail \notin Mails \/ slot'[s].pc = "taken",
         \A m \in Mails : /\ accident[m] \subseteq accident'[m]
                          /\ row'[m].attempts = row[m].attempts
                          /\ row'[m].status = "SENT" => row[m].status = "SENT"
  PROVE  Fresh'
BY DEF Fresh

\* An execution that ends has no mail.
LEMMA SlotEnds ==
  ASSUME TypeOK, NEW s \in Slots, slot' = [slot EXCEPT ![s] = Idle]
  PROVE  \A t \in Slots : slot'[t] = slot[t] \/ slot'[t].mail \notin Mails
BY NotificationsAssumption DEF TypeOK, Idle

\* Executions of one mail that do not share its lock: the job has stalled.
LEMMA NotShared ==
  ASSUME Held, NEW s \in Slots, NEW t \in Slots, s # t, NEW m \in Mails,
         slot[s].mail = m, slot[t].mail = m
  PROVE  "stalled" \in accident[m]
BY DEF Held, Locked

\* What an execution that goes on with its mail leaves to the others.
LEMMA FreshAt ==
  ASSUME TypeOK, Held, Fresh, NEW s \in Slots, NEW m \in Mails, slot[s].mail = m,
         accident' = accident,
         \A t \in Slots \ {s} : slot'[t] = slot[t],
         \A n \in Mails \ {m} : row'[n] = row[n],
         \/ slot'[s].mail \notin Mails
         \/ /\ slot'[s].mail = m
            /\ "stalled" \notin accident[m] => row'[m].status # "SENT"
            /\ slot'[s].pc \in {"loaded", "declined", "allowed"} /\ "stalled" \notin accident[m] =>
                 slot'[s].attempts = row'[m].attempts
  PROVE  Fresh'
<1>1. \A t \in Slots \ {s} : slot[t].mail = m => "stalled" \in accident[m]
  BY NotShared
<1> QED
  BY <1>1 DEF Fresh

(***************************************************************************)
(* Without a stall nothing changes the row between an execution's read and *)
(* its claim.                                                              *)
(***************************************************************************)
THEOREM FreshAlways == Spec => []Fresh
<1>1. Init => Fresh
  BY NotificationsAssumption DEF Init, Fresh, Idle
<1>2. TypeOK /\ Assigned /\ Held /\ Fresh /\ [Next]_vars => Fresh'
  <2> SUFFICES ASSUME TypeOK, Assigned, Held, Fresh, [Next]_vars PROVE Fresh'
    OBVIOUS
  <2>0. /\ row \in [Mails -> Notification]
        /\ accident \in [Mails -> SUBSET {"unqueued", "stalled", "unmarked", "drained"}]
        /\ slot \in [Slots -> Execution]
    BY DEF TypeOK
  <2>1. ASSUME NEW m \in Mails, ReadSwitch(m) PROVE Fresh'
    BY <2>1, FreshKept DEF ReadSwitch
  <2>2. ASSUME NEW m \in Mails, StoreRow(m) PROVE Fresh'
    <3>1. \A n \in Mails : /\ row'[n].attempts = row[n].attempts
                           /\ row'[n].status = "SENT" => row[n].status = "SENT"
      BY <2>0, <2>2 DEF StoreRow, Notification
    <3> QED
      BY <3>1, <2>2, FreshKept DEF StoreRow
  <2>3. ASSUME NEW m \in Mails, EnqueueEmail(m) PROVE Fresh'
    BY <2>3, FreshKept DEF EnqueueEmail
  <2>4. ASSUME NEW m \in Mails, EnqueueLost(m) PROVE Fresh'
    <3>1. \A n \in Mails : accident[n] \subseteq accident'[n]
      BY <2>0, <2>4 DEF EnqueueLost
    <3> QED
      BY <3>1, <2>4, FreshKept DEF EnqueueLost
  <2>5. ASSUME NEW m \in Mails, Stall(m) PROVE Fresh'
    <3>1. \A n \in Mails : accident[n] \subseteq accident'[n]
      BY <2>0, <2>5 DEF Stall
    <3> QED
      BY <3>1, <2>5, FreshKept DEF Stall
  <2>6. ASSUME NEW m \in Mails, MarkFailed(m) PROVE Fresh'
    <3>1. \A n \in Mails : /\ row'[n].attempts = row[n].attempts
                           /\ row'[n].status = "SENT" => row[n].status = "SENT"
      BY <2>0, <2>6 DEF MarkFailed, Notification
    <3> QED
      BY <3>1, <2>6, FreshKept DEF MarkFailed
  <2>7. ASSUME NEW m \in Mails, MarkLost(m) PROVE Fresh'
    <3>1. \A n \in Mails : accident[n] \subseteq accident'[n]
      BY <2>0, <2>7 DEF MarkLost
    <3> QED
      BY <3>1, <2>7, FreshKept DEF MarkLost
  <2>8. ASSUME NEW s \in Slots, AlreadySent(s) PROVE Fresh'
    <3>1. slot' = [slot EXCEPT ![s] = Idle] /\ row' = row /\ accident' = accident
      BY <2>8 DEF AlreadySent, Complete
    <3>2. \A t \in Slots : slot'[t] = slot[t] \/ slot'[t].mail \notin Mails
      BY <3>1, SlotEnds
    <3> QED
      BY <3>1, <3>2, FreshKept
  <2>9. ASSUME NEW s \in Slots, LoadRow(s) PROVE Fresh'
    <3>1. slot[s].mail \in Mails
      BY <2>0, <2>9 DEF LoadRow, Assigned, Execution
    <3>2. /\ slot'[s].mail = slot[s].mail
          /\ slot'[s].attempts = row[slot[s].mail].attempts
          /\ row[slot[s].mail].status # "SENT"
      BY <2>0, <2>9 DEF LoadRow, Row, Execution
    <3>3. row' = row /\ accident' = accident /\ \A t \in Slots \ {s} : slot'[t] = slot[t]
      BY <2>0, <2>9 DEF LoadRow
    <3> QED
      BY <3>1, <3>2, <3>3, FreshAt
  <2>10. ASSUME NEW s \in Slots, CheckSwitch(s) PROVE Fresh'
    <3>1. slot[s].mail \in Mails
      BY <2>0, <2>10 DEF CheckSwitch, Assigned, Execution
    <3>2. slot'[s].mail = slot[s].mail /\ slot'[s].attempts = slot[s].attempts
      BY <2>0, <2>10 DEF CheckSwitch, Execution
    <3>3. row' = row /\ accident' = accident /\ \A t \in Slots \ {s} : slot'[t] = slot[t]
      BY <2>0, <2>10 DEF CheckSwitch
    <3>4. "stalled" \notin accident[slot[s].mail] =>
            /\ row[slot[s].mail].status # "SENT"
            /\ slot[s].attempts = row[slot[s].mail].attempts
      BY <2>10, <3>1 DEF CheckSwitch, Fresh
    <3> QED
      BY <3>1, <3>2, <3>3, <3>4, FreshAt
  <2>11. ASSUME NEW s \in Slots, Decline(s) PROVE Fresh'
    <3>1. slot' = [slot EXCEPT ![s] = Idle] /\ accident' = accident
      BY <2>11 DEF Decline, Complete
    <3>2. \A n \in Mails : /\ row'[n].attempts = row[n].attempts
                           /\ row'[n].status = "SENT" => row[n].status = "SENT"
      BY <2>0, <2>11 DEF Decline, Notification
    <3>3. \A t \in Slots : slot'[t] = slot[t] \/ slot'[t].mail \notin Mails
      BY <3>1, SlotEnds
    <3>4. \A n \in Mails : /\ accident[n] \subseteq accident'[n]
                           /\ row'[n].attempts = row[n].attempts
                           /\ row'[n].status = "SENT" => row[n].status = "SENT"
      BY <3>1, <3>2
    <3> QED
      BY <3>3, <3>4, FreshKept
  <2>12. ASSUME NEW s \in Slots, ClaimRow(s) PROVE Fresh'
    <3>1. slot[s].mail \in Mails
      BY <2>0, <2>12 DEF ClaimRow, Assigned, Execution
    <3>2. slot'[s].mail = slot[s].mail /\ slot'[s].pc = "claimed"
      BY <2>0, <2>12 DEF ClaimRow, Execution
    <3>3. accident' = accident /\ \A t \in Slots \ {s} : slot'[t] = slot[t]
      BY <2>0, <2>12 DEF ClaimRow
    <3>4. /\ row'[slot[s].mail].status = row[slot[s].mail].status
          /\ \A n \in Mails \ {slot[s].mail} : row'[n] = row[n]
      BY <2>0, <2>12, <3>1 DEF ClaimRow, Notification
    <3>5. row[slot[s].mail].status # "SENT"
      BY <2>12 DEF ClaimRow, Claimable, Row
    <3> QED
      BY <3>1, <3>2, <3>3, <3>4, <3>5, FreshAt
  <2>13. ASSUME NEW s \in Slots, ClaimLost(s) PROVE Fresh'
    <3>1. slot' = [slot EXCEPT ![s] = Idle] /\ row' = row /\ accident' = accident
      BY <2>13 DEF ClaimLost, Complete
    <3>2. \A t \in Slots : slot'[t] = slot[t] \/ slot'[t].mail \notin Mails
      BY <3>1, SlotEnds
    <3> QED
      BY <3>1, <3>2, FreshKept
  <2>14. ASSUME NEW s \in Slots, SendEmail(s) PROVE Fresh'
    <3>1. slot[s].mail \in Mails
      BY <2>0, <2>14 DEF SendEmail, Assigned, Execution
    <3>2. slot'[s].mail = slot[s].mail /\ slot'[s].pc = "accepted"
      BY <2>0, <2>14 DEF SendEmail, Execution
    <3>3. row' = row /\ accident' = accident /\ \A t \in Slots \ {s} : slot'[t] = slot[t]
      BY <2>0, <2>14 DEF SendEmail
    <3>4. "stalled" \notin accident[slot[s].mail] => row[slot[s].mail].status # "SENT"
      BY <2>14, <3>1 DEF SendEmail, Fresh
    <3> QED
      BY <3>1, <3>2, <3>3, <3>4, FreshAt
  <2>15. ASSUME NEW s \in Slots, RecordSent(s) PROVE Fresh'
    <3>1. slot[s].mail \in Mails
      BY <2>0, <2>15 DEF RecordSent, Assigned, Execution
    <3>2. slot' = [slot EXCEPT ![s] = Idle] /\ accident' = accident
      BY <2>15 DEF RecordSent, Complete
    <3>3. slot'[s].mail \notin Mails /\ \A t \in Slots \ {s} : slot'[t] = slot[t]
      BY <2>0, <3>2, NotificationsAssumption DEF Idle
    <3>4. \A n \in Mails \ {slot[s].mail} : row'[n] = row[n]
      BY <2>0, <2>15 DEF RecordSent
    <3> QED
      BY <3>1, <3>2, <3>3, <3>4, FreshAt
  <2>16. ASSUME NEW s \in Slots, Throw(s) PROVE Fresh'
    <3>1. slot' = [slot EXCEPT ![s] = Idle] /\ row' = row /\ accident' = accident
      BY <2>16 DEF Throw
    <3>2. \A t \in Slots : slot'[t] = slot[t] \/ slot'[t].mail \notin Mails
      BY <3>1, SlotEnds
    <3> QED
      BY <3>1, <3>2, FreshKept
  <2>17. ASSUME NEW s \in Slots, CrashExecution(s) PROVE Fresh'
    <3>1. slot' = [slot EXCEPT ![s] = Idle] /\ row' = row /\ accident' = accident
      BY <2>17 DEF CrashExecution
    <3>2. \A t \in Slots : slot'[t] = slot[t] \/ slot'[t].mail \notin Mails
      BY <3>1, SlotEnds
    <3> QED
      BY <3>1, <3>2, FreshKept
  <2>18. ASSUME NEW s \in Slots, NEW m \in Mails, TakeJob(s, m) PROVE Fresh'
    <3>1. slot'[s].pc = "taken" /\ \A t \in Slots \ {s} : slot'[t] = slot[t]
      BY <2>0, <2>18 DEF TakeJob, Idle
    <3> QED
      BY <3>1, <2>18, FreshKept DEF TakeJob
  <2>19. CASE SwitchOff
    BY <2>19, FreshKept DEF SwitchOff
  <2>20. CASE SuppressPending
    <3>1. \A n \in Mails : /\ row'[n].attempts = row[n].attempts
                           /\ row'[n].status = "SENT" => row[n].status = "SENT"
      BY <2>0, <2>20 DEF SuppressPending, Notification
    <3> QED
      BY <3>1, <2>20, FreshKept DEF SuppressPending
  <2>21. CASE DrainEmailQueue
    <3>1. \A n \in Mails : accident[n] \subseteq accident'[n]
      BY <2>0, <2>21 DEF DrainEmailQueue
    <3> QED
      BY <3>1, <2>21, FreshKept DEF DrainEmailQueue
  <2>22. CASE DrainFailed
    BY <2>22, FreshKept DEF DrainFailed
  <2>23. CASE SwitchOn
    BY <2>23, FreshKept DEF SwitchOn
  <2>24. CASE UNCHANGED vars
    BY <2>24, FreshKept DEF vars
  <2> QED
    BY <2>1, <2>2, <2>3, <2>4, <2>5, <2>6, <2>7, <2>8, <2>9, <2>10, <2>11, <2>12, <2>13, <2>14,
       <2>15, <2>16, <2>17, <2>18, <2>19, <2>20, <2>21, <2>22, <2>23, <2>24
       DEF Next, Produce, Deliver, Settings
<1> QED
  BY <1>1, <1>2, TypeCorrect, HeldAlways, PTL DEF Spec

(***************************************************************************)
(* OwedHasJob: retries, the switch, its clean-up and the failed handler    *)
(* leave no owed mail without something that settles it, except by one of  *)
(* the four named accidents.                                               *)
(***************************************************************************)
THEOREM OwedKeepsJob == Spec => []OwedHasJob
<1> USE NotificationsAssumption
<1>1. Init => OwedHasJob
  BY DEF Init, OwedHasJob
<1>2. TypeOK /\ Assigned /\ Held /\ Fresh /\ OwedHasJob /\ [Next]_vars => OwedHasJob'
  <2> SUFFICES ASSUME TypeOK, Assigned, Held, Fresh, OwedHasJob, [Next]_vars
               PROVE  OwedHasJob'
    OBVIOUS
  <2> USE DEF TypeOK, Notification, Job, Execution, ProducerState, Assigned, Held, Unstarted,
              Locked, Fresh, OwedHasJob, Idle
  <2>1. ASSUME NEW m \in Mails, ReadSwitch(m) PROVE OwedHasJob'
    BY <2>1 DEF ReadSwitch
  <2>2. ASSUME NEW m \in Mails, StoreRow(m) PROVE OwedHasJob'
    BY <2>2 DEF StoreRow
  <2>3. ASSUME NEW m \in Mails, EnqueueEmail(m) PROVE OwedHasJob'
    BY <2>3 DEF EnqueueEmail
  <2>4. ASSUME NEW m \in Mails, EnqueueLost(m) PROVE OwedHasJob'
    <3>1. accident'[m] # {} /\ \A n \in Mails \ {m} : accident'[n] = accident[n]
      <4>1. "unqueued" \in accident'[m]
        BY <2>4 DEF EnqueueLost
      <4> QED
        BY <4>1, <2>4 DEF EnqueueLost
    <3>2. \A n \in Mails \ {m} : job'[n] = job[n] /\ producer'[n] = producer[n]
      BY <2>4 DEF EnqueueLost
    <3>3. row' = row
      BY <2>4 DEF EnqueueLost
    <3> QED
      BY <3>1, <3>2, <3>3
  <2>5. ASSUME NEW m \in Mails, Stall(m) PROVE OwedHasJob'
    BY <2>5, SMTT(30) DEF Stall
  <2>6. ASSUME NEW m \in Mails, MarkFailed(m) PROVE OwedHasJob'
    BY <2>6 DEF MarkFailed
  <2>7. ASSUME NEW m \in Mails, MarkLost(m) PROVE OwedHasJob'
    <3>1. accident'[m] # {} /\ \A n \in Mails \ {m} : accident'[n] = accident[n]
      <4>1. "unmarked" \in accident'[m]
        BY <2>7 DEF MarkLost
      <4> QED
        BY <4>1, <2>7 DEF MarkLost
    <3>2. \A n \in Mails \ {m} : job'[n] = job[n] /\ producer'[n] = producer[n]
      BY <2>7 DEF MarkLost
    <3>3. row' = row
      BY <2>7 DEF MarkLost
    <3> QED
      BY <3>1, <3>2, <3>3
  <2>8. ASSUME NEW s \in Slots, AlreadySent(s) PROVE OwedHasJob'
    BY <2>8 DEF AlreadySent, Row, Complete, Holds
  <2>9. ASSUME NEW s \in Slots, LoadRow(s) PROVE OwedHasJob'
    BY <2>9 DEF LoadRow, Row
  <2>10. ASSUME NEW s \in Slots, CheckSwitch(s) PROVE OwedHasJob'
    BY <2>10 DEF CheckSwitch
  <2>11. ASSUME NEW s \in Slots, Decline(s) PROVE OwedHasJob'
    BY <2>11 DEF Decline, Complete, Holds
  <2>12. ASSUME NEW s \in Slots, ClaimRow(s) PROVE OwedHasJob'
    BY <2>12 DEF ClaimRow, Claimable, Row
  <2>13. ASSUME NEW s \in Slots, ClaimLost(s) PROVE OwedHasJob'
    <3>1. PICK m \in Mails : slot[s].mail = m
      BY <2>13 DEF ClaimLost
    <3>2. accident[m] = {} => Row(s).status = "SENT" \/ job[m].owner # s
      BY <2>13, <3>1 DEF ClaimLost, Claimable, Row
    <3> QED
      BY <2>13, <3>1, <3>2 DEF ClaimLost, Row, Complete, Holds
  <2>14. ASSUME NEW s \in Slots, SendEmail(s) PROVE OwedHasJob'
    BY <2>14 DEF SendEmail
  <2>15. ASSUME NEW s \in Slots, RecordSent(s) PROVE OwedHasJob'
    BY <2>15 DEF RecordSent, Complete, Holds
  <2>16. ASSUME NEW s \in Slots, Throw(s) PROVE OwedHasJob'
    BY <2>16 DEF Throw, Forget, Holds
  <2>17. ASSUME NEW s \in Slots, CrashExecution(s) PROVE OwedHasJob'
    BY <2>17 DEF CrashExecution, Forget
  <2>18. ASSUME NEW s \in Slots, NEW m \in Mails, TakeJob(s, m) PROVE OwedHasJob'
    BY <2>18 DEF TakeJob
  <2>19. CASE SwitchOff
    BY <2>19 DEF SwitchOff
  <2>20. CASE SuppressPending
    BY <2>20 DEF SuppressPending
  <2>21. CASE DrainEmailQueue
    BY <2>21 DEF DrainEmailQueue
  <2>22. CASE DrainFailed
    BY <2>22 DEF DrainFailed
  <2>23. CASE SwitchOn
    BY <2>23 DEF SwitchOn
  <2>24. CASE UNCHANGED vars
    BY <2>24 DEF vars
  <2> QED
    BY <2>1, <2>2, <2>3, <2>4, <2>5, <2>6, <2>7, <2>8, <2>9, <2>10, <2>11, <2>12, <2>13, <2>14, <2>15, <2>16, <2>17, <2>18, <2>19, <2>20, <2>21, <2>22, <2>23, <2>24 DEF Next, Produce, Deliver, Settings
<1> QED
  BY <1>1, <1>2, TypeCorrect, HeldAlways, FreshAlways, PTL DEF Spec

-----------------------------------------------------------------------------
(* How often it was sent *)

\* Without a stall or a forgotten acceptance there was one at most, and the row
\* or the execution that is about to write it shows it.
Once ==
  \A m \in Mails :
    "stalled" \notin accident[m] /\ unknown[m] = 0 =>
      \/ sends[m] = 0
      \/ /\ sends[m] = 1
         /\ \/ row[m].status = "SENT"
            \/ \E s \in Slots : slot[s].mail = m /\ slot[s].pc = "accepted"

(***************************************************************************)
(* SentOnceUnlessFault: retries and the switch never make a second copy.   *)
(***************************************************************************)
THEOREM SentOnce == Spec => []SentOnceUnlessFault
<1> USE NotificationsAssumption
<1>1. Init => Once
  BY DEF Init, Once
<1>2. TypeOK /\ Assigned /\ Held /\ Fresh /\ Once /\ [Next]_vars => Once'
  <2> SUFFICES ASSUME TypeOK, Assigned, Held, Fresh, Once, [Next]_vars PROVE Once'
    OBVIOUS
  <2> USE DEF TypeOK, Notification, Execution, Assigned, Held, Unstarted, Locked, Fresh, Once, Idle
  <2>1. ASSUME NEW m \in Mails, ReadSwitch(m) PROVE Once'
    BY <2>1 DEF ReadSwitch
  <2>2. ASSUME NEW m \in Mails, StoreRow(m) PROVE Once'
    BY <2>2 DEF StoreRow
  <2>3. ASSUME NEW m \in Mails, EnqueueEmail(m) PROVE Once'
    BY <2>3 DEF EnqueueEmail
  <2>4. ASSUME NEW m \in Mails, EnqueueLost(m) PROVE Once'
    BY <2>4 DEF EnqueueLost
  <2>5. ASSUME NEW m \in Mails, Stall(m) PROVE Once'
    BY <2>5 DEF Stall
  <2>6. ASSUME NEW m \in Mails, MarkFailed(m) PROVE Once'
    BY <2>6 DEF MarkFailed
  <2>7. ASSUME NEW m \in Mails, MarkLost(m) PROVE Once'
    BY <2>7 DEF MarkLost
  <2>8. ASSUME NEW s \in Slots, AlreadySent(s) PROVE Once'
    BY <2>8 DEF AlreadySent, Row, Complete, Holds
  <2>9. ASSUME NEW s \in Slots, LoadRow(s) PROVE Once'
    BY <2>9 DEF LoadRow, Row
  <2>10. ASSUME NEW s \in Slots, CheckSwitch(s) PROVE Once'
    BY <2>10 DEF CheckSwitch
  <2>11. ASSUME NEW s \in Slots, Decline(s) PROVE Once'
    BY <2>11 DEF Decline, Complete, Holds
  <2>12. ASSUME NEW s \in Slots, ClaimRow(s) PROVE Once'
    BY <2>12 DEF ClaimRow, Claimable, Row
  <2>13. ASSUME NEW s \in Slots, ClaimLost(s) PROVE Once'
    BY <2>13 DEF ClaimLost, Claimable, Row, Complete, Holds
  <2>14. ASSUME NEW s \in Slots, SendEmail(s) PROVE Once'
    <3>1. PICK m \in Mails : slot[s].mail = m
      BY <2>14 DEF SendEmail
    <3>2. /\ slot'[s].mail = m /\ slot'[s].pc = "accepted"
          /\ \A t \in Slots \ {s} : slot'[t] = slot[t]
          /\ sends'[m] = sends[m] + 1 /\ \A n \in Mails \ {m} : sends'[n] = sends[n]
      BY <2>14, <3>1 DEF SendEmail
    <3>3. CASE "stalled" \notin accident[m] /\ unknown[m] = 0
      <4>1. \A t \in Slots : slot[t].mail = m => t = s
        BY <2>14, <3>1, <3>3
      <4>2. slot[s].pc = "claimed" /\ row[m].status # "SENT"
        BY <2>14, <3>1, <3>3 DEF SendEmail
      <4>3. sends[m] = 0
        BY <2>14, <3>1, <3>3, <4>1, <4>2
      <4> QED
        BY <2>14, <3>1, <3>2, <4>3 DEF SendEmail
    <3>4. CASE ~("stalled" \notin accident[m] /\ unknown[m] = 0)
      BY <2>14, <3>1, <3>2, <3>4 DEF SendEmail
    <3> QED
      BY <3>3, <3>4
  <2>15. ASSUME NEW s \in Slots, RecordSent(s) PROVE Once'
    BY <2>15 DEF RecordSent, Complete, Holds
  <2>16. ASSUME NEW s \in Slots, Throw(s) PROVE Once'
    BY <2>16 DEF Throw, Forget, Holds
  <2>17. ASSUME NEW s \in Slots, CrashExecution(s) PROVE Once'
    BY <2>17 DEF CrashExecution, Forget
  <2>18. ASSUME NEW s \in Slots, NEW m \in Mails, TakeJob(s, m) PROVE Once'
    BY <2>18 DEF TakeJob
  <2>19. CASE SwitchOff
    BY <2>19 DEF SwitchOff
  <2>20. CASE SuppressPending
    BY <2>20 DEF SuppressPending
  <2>21. CASE DrainEmailQueue
    BY <2>21 DEF DrainEmailQueue
  <2>22. CASE DrainFailed
    BY <2>22 DEF DrainFailed
  <2>23. CASE SwitchOn
    BY <2>23 DEF SwitchOn
  <2>24. CASE UNCHANGED vars
    BY <2>24 DEF vars
  <2> QED
    BY <2>1, <2>2, <2>3, <2>4, <2>5, <2>6, <2>7, <2>8, <2>9, <2>10, <2>11, <2>12, <2>13, <2>14, <2>15, <2>16, <2>17, <2>18, <2>19, <2>20, <2>21, <2>22, <2>23, <2>24 DEF Next, Produce, Deliver, Settings
<1>3. TypeOK /\ Once => SentOnceUnlessFault
  BY DEF TypeOK, Once, SentOnceUnlessFault
<1> QED
  BY <1>1, <1>2, <1>3, TypeCorrect, HeldAlways, FreshAlways, PTL DEF Spec

\* A mail is accepted finitely often.
LEMMA AcceptedFinite == \A m \in Mails : IsFiniteSet(Accepted(m))
  BY NotificationsAssumption, FS_Subset DEF Accepted

(***************************************************************************)
(* UnsentWasNotSent: every acceptance by the provider is on the row, about *)
(* to be written, or was forgotten by an execution that did not live.      *)
(***************************************************************************)
THEOREM UnsentIsTrue == Spec => []UnsentWasNotSent
<1> USE NotificationsAssumption
<1>1. Init => UnsentWasNotSent
  <2> SUFFICES ASSUME Init PROVE UnsentWasNotSent
    OBVIOUS
  <2>1. \A m \in Mails : Accepted(m) = {}
    BY DEF Init, Accepted, Idle
  <2>2. Cardinality({}) = 0
    BY FS_EmptySet
  <2>3. \A m \in Mails : Cardinality(Accepted(m)) = 0
    BY <2>1, <2>2
  <2> QED
    BY <2>3 DEF Init, UnsentWasNotSent
<1>2. TypeOK /\ Assigned /\ Unstarted /\ UnsentWasNotSent /\ [Next]_vars => UnsentWasNotSent'
  <2> SUFFICES ASSUME TypeOK, Assigned, Unstarted, UnsentWasNotSent, [Next]_vars
               PROVE  UnsentWasNotSent'
    OBVIOUS
  <2> USE DEF TypeOK, Notification, Execution, Assigned, Unstarted, UnsentWasNotSent, Idle
  <2>1. ASSUME NEW m \in Mails, ReadSwitch(m) PROVE UnsentWasNotSent'
    <3>1. \A n \in Mails : Accepted(n)' = Accepted(n)
      BY <2>1 DEF ReadSwitch, Accepted
    <3> QED
      BY <2>1, <3>1 DEF ReadSwitch
  <2>2. ASSUME NEW m \in Mails, StoreRow(m) PROVE UnsentWasNotSent'
    <3>1. \A n \in Mails : Accepted(n)' = Accepted(n)
      BY <2>2 DEF StoreRow, Accepted
    <3> QED
      BY <2>2, <3>1 DEF StoreRow
  <2>3. ASSUME NEW m \in Mails, EnqueueEmail(m) PROVE UnsentWasNotSent'
    <3>1. \A n \in Mails : Accepted(n)' = Accepted(n)
      BY <2>3 DEF EnqueueEmail, Accepted
    <3> QED
      BY <2>3, <3>1 DEF EnqueueEmail
  <2>4. ASSUME NEW m \in Mails, EnqueueLost(m) PROVE UnsentWasNotSent'
    <3>1. \A n \in Mails : Accepted(n)' = Accepted(n)
      BY <2>4 DEF EnqueueLost, Accepted
    <3> QED
      BY <2>4, <3>1 DEF EnqueueLost
  <2>5. ASSUME NEW m \in Mails, Stall(m) PROVE UnsentWasNotSent'
    <3>1. \A n \in Mails : Accepted(n)' = Accepted(n)
      BY <2>5 DEF Stall, Accepted
    <3> QED
      BY <2>5, <3>1 DEF Stall
  <2>6. ASSUME NEW m \in Mails, MarkFailed(m) PROVE UnsentWasNotSent'
    <3>1. \A n \in Mails : Accepted(n)' = Accepted(n)
      BY <2>6 DEF MarkFailed, Accepted
    <3> QED
      BY <2>6, <3>1 DEF MarkFailed
  <2>7. ASSUME NEW m \in Mails, MarkLost(m) PROVE UnsentWasNotSent'
    <3>1. \A n \in Mails : Accepted(n)' = Accepted(n)
      BY <2>7 DEF MarkLost, Accepted
    <3> QED
      BY <2>7, <3>1 DEF MarkLost
  <2>8. ASSUME NEW s \in Slots, AlreadySent(s) PROVE UnsentWasNotSent'
    <3>1. \A n \in Mails : Accepted(n)' = Accepted(n)
      BY <2>8 DEF AlreadySent, Row, Complete, Holds, Accepted
    <3> QED
      BY <2>8, <3>1 DEF AlreadySent
  <2>9. ASSUME NEW s \in Slots, LoadRow(s) PROVE UnsentWasNotSent'
    <3>1. \A n \in Mails : Accepted(n)' = Accepted(n)
      BY <2>9 DEF LoadRow, Row, Accepted
    <3> QED
      BY <2>9, <3>1 DEF LoadRow
  <2>10. ASSUME NEW s \in Slots, CheckSwitch(s) PROVE UnsentWasNotSent'
    <3>1. \A n \in Mails : Accepted(n)' = Accepted(n)
      BY <2>10 DEF CheckSwitch, Accepted
    <3> QED
      BY <2>10, <3>1 DEF CheckSwitch
  <2>11. ASSUME NEW s \in Slots, Decline(s) PROVE UnsentWasNotSent'
    <3>1. \A n \in Mails : Accepted(n)' = Accepted(n)
      BY <2>11 DEF Decline, Complete, Holds, Accepted
    <3> QED
      BY <2>11, <3>1 DEF Decline
  <2>12. ASSUME NEW s \in Slots, ClaimRow(s) PROVE UnsentWasNotSent'
    <3>1. \A n \in Mails : Accepted(n)' = Accepted(n)
      BY <2>12 DEF ClaimRow, Claimable, Row, Accepted
    <3> QED
      BY <2>12, <3>1 DEF ClaimRow
  <2>13. ASSUME NEW s \in Slots, ClaimLost(s) PROVE UnsentWasNotSent'
    <3>1. \A n \in Mails : Accepted(n)' = Accepted(n)
      BY <2>13 DEF ClaimLost, Claimable, Row, Complete, Holds, Accepted
    <3> QED
      BY <2>13, <3>1 DEF ClaimLost
  <2>14. ASSUME NEW s \in Slots, SendEmail(s) PROVE UnsentWasNotSent'
    <3>1. PICK m \in Mails : slot[s].mail = m
      BY <2>14 DEF SendEmail, Execution
    <3>2. \A n \in Mails \ {m} : Accepted(n)' = Accepted(n)
      BY <2>14, <3>1 DEF SendEmail, Accepted
    <3>3. Accepted(m)' = Accepted(m) \cup {s} /\ s \notin Accepted(m)
      BY <2>14, <3>1 DEF SendEmail, Accepted
    <3>4. Cardinality(Accepted(m)') = Cardinality(Accepted(m)) + 1
      <4>1. IsFiniteSet(Accepted(m))
        BY AcceptedFinite
      <4>2. Cardinality(Accepted(m) \cup {s}) = Cardinality(Accepted(m)) + 1
        BY <3>3, <4>1, FS_AddElement
      <4> QED
        BY <3>3, <4>2
    <3>5. Cardinality(Accepted(m)) \in Nat
      BY AcceptedFinite, FS_CardinalityType
    <3>6. sends' = [sends EXCEPT ![m] = @ + 1]
      BY <2>14, <3>1 DEF SendEmail
    <3>7. row' = row /\ unknown' = unknown
      BY <2>14 DEF SendEmail
    <3> QED
      BY <3>2, <3>4, <3>5, <3>6, <3>7
  <2>15. ASSUME NEW s \in Slots, RecordSent(s) PROVE UnsentWasNotSent'
    <3>1. PICK m \in Mails : slot[s].mail = m
      BY <2>15 DEF RecordSent, Execution
    <3>2. \A n \in Mails \ {m} : Accepted(n)' = Accepted(n)
      BY <2>15, <3>1 DEF RecordSent, Complete, Accepted
    <3>3. row'[m].status = "SENT" /\ \A n \in Mails \ {m} : row'[n] = row[n]
      BY <2>15, <3>1 DEF RecordSent
    <3>4. sends' = sends /\ unknown' = unknown
      BY <2>15 DEF RecordSent
    <3> QED
      BY <3>2, <3>3, <3>4
  <2>16. ASSUME NEW s \in Slots, Throw(s) PROVE UnsentWasNotSent'
    <3>1. PICK m \in Mails : slot[s].mail = m
      BY <2>16 DEF Throw, Execution
    <3>2. \A n \in Mails \ {m} : Accepted(n)' = Accepted(n)
      BY <2>16, <3>1 DEF Throw, Accepted
    <3>3. row' = row /\ sends' = sends
      BY <2>16 DEF Throw
    <3>4. CASE slot[s].pc = "accepted"
      <4>1. Accepted(m)' = Accepted(m) \ {s} /\ s \in Accepted(m)
        BY <2>16, <3>1, <3>4 DEF Throw, Accepted
      <4>2. Cardinality(Accepted(m)') = Cardinality(Accepted(m)) - 1
        BY <4>1, AcceptedFinite, FS_RemoveElement
      <4>3. Cardinality(Accepted(m)) \in Nat
        BY AcceptedFinite, FS_CardinalityType
      <4>4. unknown' = [unknown EXCEPT ![m] = @ + 1]
        BY <2>16, <3>1, <3>4 DEF Throw, Forget
      <4> QED
        BY <3>2, <3>3, <4>2, <4>3, <4>4, SMTT(30)
    <3>5. CASE slot[s].pc # "accepted"
      <4>1. Accepted(m)' = Accepted(m) /\ unknown' = unknown
        BY <2>16, <3>1, <3>5 DEF Throw, Forget, Accepted
      <4> QED
        BY <3>2, <3>3, <4>1
    <3> QED
      BY <3>4, <3>5
  <2>17. ASSUME NEW s \in Slots, CrashExecution(s) PROVE UnsentWasNotSent'
    <3>1. PICK m \in Mails : slot[s].mail = m
      BY <2>17 DEF CrashExecution, Execution
    <3>2. \A n \in Mails \ {m} : Accepted(n)' = Accepted(n)
      BY <2>17, <3>1 DEF CrashExecution, Accepted
    <3>3. row' = row /\ sends' = sends
      BY <2>17 DEF CrashExecution
    <3>4. CASE slot[s].pc = "accepted"
      <4>1. Accepted(m)' = Accepted(m) \ {s} /\ s \in Accepted(m)
        BY <2>17, <3>1, <3>4 DEF CrashExecution, Accepted
      <4>2. Cardinality(Accepted(m)') = Cardinality(Accepted(m)) - 1
        BY <4>1, AcceptedFinite, FS_RemoveElement
      <4>3. Cardinality(Accepted(m)) \in Nat
        BY AcceptedFinite, FS_CardinalityType
      <4>4. unknown' = [unknown EXCEPT ![m] = @ + 1]
        BY <2>17, <3>1, <3>4 DEF CrashExecution, Forget
      <4> QED
        BY <3>2, <3>3, <4>2, <4>3, <4>4, SMTT(30)
    <3>5. CASE slot[s].pc # "accepted"
      <4>1. Accepted(m)' = Accepted(m) /\ unknown' = unknown
        BY <2>17, <3>1, <3>5 DEF CrashExecution, Forget, Accepted
      <4> QED
        BY <3>2, <3>3, <4>1
    <3> QED
      BY <3>4, <3>5
  <2>18. ASSUME NEW s \in Slots, NEW m \in Mails, TakeJob(s, m) PROVE UnsentWasNotSent'
    <3>1. \A n \in Mails : Accepted(n)' = Accepted(n)
      BY <2>18 DEF TakeJob, Accepted
    <3> QED
      BY <2>18, <3>1 DEF TakeJob
  <2>19. CASE SwitchOff
    <3>1. \A n \in Mails : Accepted(n)' = Accepted(n)
      BY <2>19 DEF SwitchOff, Accepted
    <3> QED
      BY <2>19, <3>1 DEF SwitchOff
  <2>20. CASE SuppressPending
    <3>1. \A n \in Mails : Accepted(n)' = Accepted(n)
      BY <2>20 DEF SuppressPending, Accepted
    <3> QED
      BY <2>20, <3>1 DEF SuppressPending
  <2>21. CASE DrainEmailQueue
    <3>1. \A n \in Mails : Accepted(n)' = Accepted(n)
      BY <2>21 DEF DrainEmailQueue, Accepted
    <3> QED
      BY <2>21, <3>1 DEF DrainEmailQueue
  <2>22. CASE DrainFailed
    <3>1. \A n \in Mails : Accepted(n)' = Accepted(n)
      BY <2>22 DEF DrainFailed, Accepted
    <3> QED
      BY <2>22, <3>1 DEF DrainFailed
  <2>23. CASE SwitchOn
    <3>1. \A n \in Mails : Accepted(n)' = Accepted(n)
      BY <2>23 DEF SwitchOn, Accepted
    <3> QED
      BY <2>23, <3>1 DEF SwitchOn
  <2>24. CASE UNCHANGED vars
    BY <2>24 DEF vars, Accepted
  <2> QED
    BY <2>1, <2>2, <2>3, <2>4, <2>5, <2>6, <2>7, <2>8, <2>9, <2>10, <2>11, <2>12, <2>13, <2>14, <2>15, <2>16, <2>17, <2>18, <2>19, <2>20, <2>21, <2>22, <2>23, <2>24 DEF Next, Produce, Deliver, Settings
<1> QED
  BY <1>1, <1>2, TypeCorrect, HeldAlways, PTL DEF Spec, Held
=============================================================================
