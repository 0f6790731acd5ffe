------------------------- MODULE OrderPipelineProofs ------------------------
(***************************************************************************)
(* Proofs about the modules Delivery and OrderPipeline, for any lines,     *)
(* fields, staff, quotes and number of concurrent requests.                *)
(***************************************************************************)
EXTENDS OrderPipeline, TLAPS

-----------------------------------------------------------------------------
(* The lines and their results by themselves: module Delivery *)

(***************************************************************************)
(* What a form changes stays in the types of the columns.                  *)
(***************************************************************************)
LEMMA ApplyType ==
  ASSUME NEW values \in [Fields -> Vals \cup {Blank}], NEW changes \in Changes
  PROVE  Apply(values, changes) \in [Fields -> Vals \cup {Blank}]
BY DEF Apply, Changes

\* A form without the clears that find nothing is a form.
LEMMA EffectiveType ==
  ASSUME NEW values \in [Fields -> Vals \cup {Blank}], NEW changes \in Changes
  PROVE  Effective(changes, values) \in Changes
BY DEF Effective, Changes

\* A request that ends is a request.
LEMMA NewJobType == ASSUME NEW pc \in {"new", "done", "conflict"}
                    PROVE  [NewJob EXCEPT !.pc = pc] \in Job
BY DEF NewJob, Job, NoChanges, Changes, RecordStatus

\* A line without a record has the type of one.
LEMMA NoRecordType == NoRecord \in Record
BY DEF NoRecord, Record, RecordStatus

(***************************************************************************)
(* A request that ends touches nobody else's.                              *)
(***************************************************************************)
LEMMA FinishEffect ==
  ASSUME DeliveryTypeOK, NEW j \in Jobs, NEW pc \in {"new", "done", "conflict"},
         Finish(j, pc)
  PROVE  /\ jobs' \in [Jobs -> Job]
         /\ jobs'[j].pc = pc
         /\ \A k \in Jobs \ {j} : jobs'[k] = jobs[k]
<1>1. [NewJob EXCEPT !.pc = pc] \in Job
  BY NewJobType
<1>2. [NewJob EXCEPT !.pc = pc].pc = pc
  BY DEF NewJob
<1> QED
  BY <1>1, <1>2 DEF DeliveryTypeOK, Finish

-----------------------------------------------------------------------------
(* Each step preserves the inductive invariant *)

\* No line has a record, and no request is under way, at first.
LEMMA InitHolds == DeliveryInit => DeliveryInv
<1> SUFFICES ASSUME DeliveryInit PROVE DeliveryInv
  OBVIOUS
<1>1. NewJob \in Job /\ NewJob.pc = "new"
  BY DEF NewJob, Job, NoChanges, Changes, RecordStatus
<1>2. NoRecord \in Record /\ NoRecord.status = "NONE"
  BY NoRecordType DEF NoRecord
<1>3. DeliveryTypeOK
  BY <1>1, <1>2 DEF DeliveryInit, DeliveryTypeOK, ItemStatus
<1>4. CompletedShowsRecord /\ ShownIsDated /\ SavesSeeTheirRecord
  BY <1>1, <1>2, DeliveryAssumption
     DEF DeliveryInit, CompletedShowsRecord, ShownIsDated, SavesSeeTheirRecord
<1> QED
  BY <1>3, <1>4 DEF DeliveryInv

\* Opening the form of a line begins a request.
LEMMA OpenFormHolds ==
  ASSUME DeliveryInv, NEW j \in Jobs, NEW i \in Items, OpenForm(j, i)
  PROVE  DeliveryInv'
<1> DEFINE job == [NewJob EXCEPT !.pc = "opening", !.item = i]
<1>1. job \in Job /\ job.pc = "opening" /\ job.item = i
  BY DEF NewJob, Job, NoChanges, Changes, RecordStatus
<1> HIDE DEF job
<1>2. /\ jobs' = [jobs EXCEPT ![j] = job] /\ items' = items /\ records' = records
      /\ i \in Returning
  BY DEF OpenForm, job
<1>3. DeliveryTypeOK'
  BY <1>1, <1>2 DEF DeliveryInv, DeliveryTypeOK
<1>4. SavesSeeTheirRecord'
  BY <1>1, <1>2 DEF DeliveryInv, DeliveryTypeOK, SavesSeeTheirRecord
<1> QED
  BY <1>2, <1>3, <1>4 DEF DeliveryInv, CompletedShowsRecord, ShownIsDated

\* A record is created as a draft, or the line had one.
LEMMA CreateRecordHolds ==
  ASSUME DeliveryInv, NEW j \in Jobs, CreateRecord(j)
  PROVE  DeliveryInv'
<1> DEFINE i == jobs[j].item
<1>0. i \in Returning /\ i \in Items /\ items' = items
  BY DeliveryAssumption DEF CreateRecord, DeliveryInv, SavesSeeTheirRecord
<1>1. CASE records[i].status # "NONE"
  <2>1. Finish(j, "conflict") /\ records' = records
    BY <1>1 DEF CreateRecord
  <2>2. /\ jobs' \in [Jobs -> Job] /\ jobs'[j].pc = "conflict"
        /\ \A k \in Jobs \ {j} : jobs'[k] = jobs[k]
    BY <2>1, FinishEffect DEF DeliveryInv
  <2> QED
    BY <1>0, <2>1, <2>2
       DEF DeliveryInv, DeliveryTypeOK, CompletedShowsRecord, ShownIsDated, SavesSeeTheirRecord
<1>2. CASE records[i].status = "NONE"
  <2>1. Finish(j, "done") /\ records' = [records EXCEPT ![i].status = "DRAFT"]
    BY <1>2 DEF CreateRecord
  <2>2. /\ jobs' \in [Jobs -> Job] /\ jobs'[j].pc = "done"
        /\ \A k \in Jobs \ {j} : jobs'[k] = jobs[k]
    BY <2>1, FinishEffect DEF DeliveryInv
  <2>3. records \in [Items -> Record]
    BY DEF DeliveryInv, DeliveryTypeOK
  <2>4. /\ records' \in [Items -> Record]
        /\ records'[i].status = "DRAFT"
        /\ records'[i].deliveries = records[i].deliveries
        /\ \A k \in Items \ {i} : records'[k] = records[k]
    BY <1>0, <2>1, <2>3 DEF Record, RecordStatus
  <2>5. DeliveryTypeOK'
    BY <1>0, <2>2, <2>4 DEF DeliveryInv, DeliveryTypeOK
  <2>6. CompletedShowsRecord' /\ ShownIsDated'
    BY <1>0, <1>2, <2>4, DeliveryAssumption DEF DeliveryInv, CompletedShowsRecord, ShownIsDated
  <2>7. SavesSeeTheirRecord'
    BY <1>0, <1>2, <2>2, <2>4, DeliveryAssumption DEF DeliveryInv, SavesSeeTheirRecord
  <2> QED
    BY <2>5, <2>6, <2>7 DEF DeliveryInv
<1> QED
  BY <1>1, <1>2

\* A save reads a record that is there, and whether it is delivered.
LEMMA LoadSaveHolds ==
  ASSUME DeliveryInv, NEW j \in Jobs, NEW i \in Items, NEW changes \in Changes,
         NEW deliver \in BOOLEAN, LoadSave(j, i, changes, deliver)
  PROVE  DeliveryInv'
<1> DEFINE job == [NewJob EXCEPT !.pc = "ready", !.item = i, !.deliver = deliver,
                                 !.changes = changes, !.seen = records[i].status]
<1>0. records[i] \in Record /\ records[i].status \in RecordStatus
  BY DEF DeliveryInv, DeliveryTypeOK, Record
<1>1. /\ job \in Job /\ job.pc = "ready" /\ job.item = i
      /\ job.seen = records[i].status
  BY <1>0 DEF NewJob, Job
<1> HIDE DEF job
<1>2. /\ jobs' = [jobs EXCEPT ![j] = job] /\ items' = items /\ records' = records
      /\ i \in Returning /\ records[i].status # "NONE"
  BY DEF LoadSave, job
<1>3. DeliveryTypeOK'
  BY <1>1, <1>2 DEF DeliveryInv, DeliveryTypeOK
<1>4. SavesSeeTheirRecord'
  BY <1>1, <1>2 DEF DeliveryInv, DeliveryTypeOK, SavesSeeTheirRecord, ShownIsDated
<1> QED
  BY <1>2, <1>3, <1>4 DEF DeliveryInv, CompletedShowsRecord, ShownIsDated

\* Its values are behind their locks, and on no record yet.
LEMMA WriteValuesHolds ==
  ASSUME DeliveryInv, NEW j \in Jobs, WriteValues(j)
  PROVE  DeliveryInv'
<1> DEFINE i == jobs[j].item
           writes == Effective(jobs[j].changes, records[i].values)
           title == Apply(records[i].values, writes)[Primary]
<1>0. i \in Returning /\ i \in Items /\ jobs[j] \in Job /\ records[i] \in Record
  BY DeliveryAssumption
     DEF WriteValues, DeliveryInv, SavesSeeTheirRecord, DeliveryTypeOK
<1>1. writes \in Changes
  BY <1>0, EffectiveType DEF Job, Record
<1>2. title \in Vals \cup {Blank}
  BY <1>0, <1>1, ApplyType, DeliveryAssumption DEF Record
<1>3. /\ jobs' = [jobs EXCEPT ![j].pc = "written", ![j].changes = writes, ![j].title = title]
      /\ items' = items /\ records' = records /\ jobs[j].pc = "ready"
  BY DEF WriteValues
<1> HIDE DEF i, writes, title
<1>4. /\ jobs'[j] = [jobs[j] EXCEPT !.pc = "written", !.changes = writes, !.title = title]
      /\ jobs' \in [Jobs -> Job]
      /\ \A k \in Jobs \ {j} : jobs'[k] = jobs[k]
  BY <1>0, <1>1, <1>2, <1>3 DEF DeliveryInv, DeliveryTypeOK, Job
<1>5. jobs'[j].item = jobs[j].item /\ jobs'[j].seen = jobs[j].seen
  BY <1>0, <1>4 DEF Job
<1>6. DeliveryTypeOK'
  BY <1>3, <1>4 DEF DeliveryInv, DeliveryTypeOK
<1>7. SavesSeeTheirRecord'
  BY <1>3, <1>4, <1>5 DEF DeliveryInv, SavesSeeTheirRecord
<1> QED
  BY <1>3, <1>6, <1>7 DEF DeliveryInv, CompletedShowsRecord, ShownIsDated

\* It dates the record it delivers, unless it saw it delivered.
LEMMA CommitSaveHolds ==
  ASSUME DeliveryInv, NEW j \in Jobs, CommitSave(j)
  PROVE  DeliveryInv'
<1> DEFINE i == jobs[j].item
           rec == records[i]
           deliver == jobs[j].deliver
           values == Apply(rec.values, jobs[j].changes)
           dates == IF deliver /\ jobs[j].seen # "ACTIVE" THEN rec.deliveries + 1
                    ELSE rec.deliveries
           new == [status |-> IF deliver THEN "ACTIVE" ELSE rec.status,
                   values |-> values, title |-> jobs[j].title, deliveries |-> dates]
<1>0. /\ i \in Returning /\ i \in Items /\ jobs[j] \in Job /\ rec \in Record
      /\ rec.status # "NONE" /\ (jobs[j].seen = "ACTIVE" => rec.deliveries > 0)
  BY DeliveryAssumption
     DEF CommitSave, DeliveryInv, SavesSeeTheirRecord, DeliveryTypeOK
<1>1. values \in [Fields -> Vals \cup {Blank}]
  BY <1>0, ApplyType DEF Job, Record
<1>2. dates \in Nat /\ dates >= rec.deliveries /\ (deliver => dates > 0)
  BY <1>0 DEF Record
<1>3. /\ records' = [records EXCEPT ![i] = new]
      /\ items' = IF deliver THEN [items EXCEPT ![i] = "COMPLETED"] ELSE items
      /\ Finish(j, "done")
  BY DEF CommitSave
<1>4. /\ new \in Record /\ new.deliveries = dates
      /\ new.status = IF deliver THEN "ACTIVE" ELSE rec.status
  BY <1>0, <1>1, <1>2 DEF Record, RecordStatus, Job
<1>5. /\ jobs' \in [Jobs -> Job] /\ jobs'[j].pc = "done"
      /\ \A k \in Jobs \ {j} : jobs'[k] = jobs[k]
  BY <1>3, FinishEffect DEF DeliveryInv
<1> HIDE DEF new, dates, values
<1>6. /\ records' \in [Items -> Record] /\ records'[i] = new
      /\ \A k \in Items \ {i} : records'[k] = records[k]
  BY <1>0, <1>3, <1>4 DEF DeliveryInv, DeliveryTypeOK
<1>7. items' \in [Items -> ItemStatus] /\ \A k \in Items \ {i} : items'[k] = items[k]
  BY <1>0, <1>3 DEF DeliveryInv, DeliveryTypeOK, ItemStatus
<1>8. ~deliver => items'[i] = items[i]
  BY <1>3
<1>9. DeliveryTypeOK'
  BY <1>5, <1>6, <1>7 DEF DeliveryTypeOK
<1>10. CompletedShowsRecord'
  BY <1>0, <1>4, <1>6, <1>7, <1>8, DeliveryAssumption DEF DeliveryInv, CompletedShowsRecord
<1>11. ShownIsDated'
  <2> SUFFICES ASSUME NEW k \in Items, records'[k].status \in {"ACTIVE", "ARCHIVED"}
               PROVE  records'[k].deliveries > 0
    BY DEF ShownIsDated
  <2>1. CASE k # i
    BY <2>1, <1>6 DEF DeliveryInv, ShownIsDated
  <2>2. CASE k = i /\ deliver
    BY <2>2, <1>2, <1>4, <1>6
  <2>3. CASE k = i /\ ~deliver
    <3>1. rec.status \in {"ACTIVE", "ARCHIVED"}
      BY <2>3, <1>4, <1>6
    <3>2. rec.deliveries > 0 /\ rec.deliveries \in Nat
      BY <3>1, <1>0 DEF DeliveryInv, ShownIsDated, Record
    <3> QED
      BY <2>3, <3>2, <1>2, <1>4, <1>6
  <2> QED
    BY <2>1, <2>2, <2>3
<1>12. SavesSeeTheirRecord'
  <2> SUFFICES ASSUME NEW k \in Jobs
               PROVE  /\ jobs'[k].pc \in {"opening", "ready", "written"} =>
                           jobs'[k].item \in Returning
                      /\ jobs'[k].pc \in {"ready", "written"} =>
                           records'[jobs'[k].item].status # "NONE"
                      /\ jobs'[k].pc \in {"ready", "written"} /\ jobs'[k].seen = "ACTIVE" =>
                           records'[jobs'[k].item].deliveries > 0
    BY DEF SavesSeeTheirRecord
  <2>1. CASE k = j
    BY <2>1, <1>5
  <2>2. CASE k # j /\ jobs[k].item # i
    BY <2>2, <1>5, <1>6, DeliveryAssumption DEF DeliveryInv, SavesSeeTheirRecord
  <2>3. CASE k # j /\ jobs[k].item = i
    <3>1. jobs'[k] = jobs[k] /\ records'[i] = new
      BY <2>3, <1>5, <1>6
    <3>2. new.status # "NONE"
      BY <1>0, <1>4
    <3>3. jobs[k].pc \in {"ready", "written"} /\ jobs[k].seen = "ACTIVE" => rec.deliveries > 0
      BY <2>3 DEF DeliveryInv, SavesSeeTheirRecord
    <3>4. rec.deliveries \in Nat
      BY <1>0 DEF Record
    <3> QED
      BY <2>3, <3>1, <3>2, <3>3, <3>4, <1>0, <1>2, <1>4
  <2> QED
    BY <2>1, <2>2, <2>3
<1> QED
  BY <1>9, <1>10, <1>11, <1>12 DEF DeliveryInv

\* A line that returns a record is not completed by hand.
LEMMA UpdateOrderItemStatusHolds ==
  ASSUME DeliveryInv, NEW j \in Jobs, NEW i \in Items, NEW next \in ItemStatus,
         UpdateOrderItemStatus(j, i, next)
  PROVE  DeliveryInv'
<1>1. /\ jobs' \in [Jobs -> Job] /\ jobs'[j].pc = "done"
      /\ \A k \in Jobs \ {j} : jobs'[k] = jobs[k]
  BY FinishEffect DEF DeliveryInv, UpdateOrderItemStatus
<1>2. /\ items' = [items EXCEPT ![i] = next] /\ records' = records
      /\ ~(next = "COMPLETED" /\ i \in Returning)
  BY DEF UpdateOrderItemStatus
<1>3. DeliveryTypeOK'
  BY <1>1, <1>2 DEF DeliveryInv, DeliveryTypeOK
<1>4. CompletedShowsRecord'
  BY <1>2, DeliveryAssumption DEF DeliveryInv, DeliveryTypeOK, CompletedShowsRecord
<1>5. ShownIsDated' /\ SavesSeeTheirRecord'
  BY <1>1, <1>2 DEF DeliveryInv, ShownIsDated, SavesSeeTheirRecord
<1> QED
  BY <1>3, <1>4, <1>5 DEF DeliveryInv

\* A record is archived and activated again, but no draft is.
LEMMA UpdateResultStatusHolds ==
  ASSUME DeliveryInv, NEW j \in Jobs, NEW i \in Items, NEW next \in {"ACTIVE", "ARCHIVED"},
         UpdateResultStatus(j, i, next)
  PROVE  DeliveryInv'
<1>1. /\ jobs' \in [Jobs -> Job] /\ jobs'[j].pc = "done"
      /\ \A k \in Jobs \ {j} : jobs'[k] = jobs[k]
  BY FinishEffect DEF DeliveryInv, UpdateResultStatus
<1>2. /\ records' = [records EXCEPT ![i].status = next] /\ items' = items
      /\ records[i].status \in {"ACTIVE", "ARCHIVED"}
  BY DEF UpdateResultStatus, DeliveryInv, DeliveryTypeOK, Record, RecordStatus
<1>3. /\ records' \in [Items -> Record]
      /\ records'[i].status = next
      /\ records'[i].deliveries = records[i].deliveries
      /\ \A k \in Items \ {i} : records'[k] = records[k]
  BY <1>2 DEF DeliveryInv, DeliveryTypeOK, Record, RecordStatus
<1>4. DeliveryTypeOK'
  BY <1>1, <1>2, <1>3 DEF DeliveryInv, DeliveryTypeOK
<1>5. CompletedShowsRecord' /\ ShownIsDated'
  BY <1>2, <1>3, DeliveryAssumption DEF DeliveryInv, CompletedShowsRecord, ShownIsDated
<1>6. SavesSeeTheirRecord'
  BY <1>1, <1>3, DeliveryAssumption DEF DeliveryInv, SavesSeeTheirRecord
<1> QED
  BY <1>4, <1>5, <1>6 DEF DeliveryInv

(***************************************************************************)
(* Every step of any request preserves the inductive invariant.            *)
(***************************************************************************)
LEMMA DeliveryStepHolds == DeliveryInv /\ [DeliveryNext]_deliveryVars => DeliveryInv'
<1> SUFFICES ASSUME DeliveryInv, [DeliveryNext]_deliveryVars PROVE DeliveryInv'
  OBVIOUS
<1>1. CASE UNCHANGED deliveryVars
  BY <1>1 DEF deliveryVars, DeliveryInv, DeliveryTypeOK, CompletedShowsRecord, ShownIsDated,
              SavesSeeTheirRecord
<1>2. ASSUME NEW j \in Jobs, DeliveryStep(j) PROVE DeliveryInv'
  <2>1. CASE CreateRecord(j)
    BY <2>1, CreateRecordHolds
  <2>2. CASE WriteValues(j)
    BY <2>2, WriteValuesHolds
  <2>3. CASE CommitSave(j)
    BY <2>3, CommitSaveHolds
  <2>4. ASSUME NEW i \in Items, OpenForm(j, i) PROVE DeliveryInv'
    BY <2>4, OpenFormHolds
  <2>5. ASSUME NEW i \in Items, NEW changes \in Changes, NEW deliver \in BOOLEAN,
               LoadSave(j, i, changes, deliver)
        PROVE  DeliveryInv'
    BY <2>5, LoadSaveHolds
  <2>6. ASSUME NEW i \in Items, NEW next \in ItemStatus, UpdateOrderItemStatus(j, i, next)
        PROVE  DeliveryInv'
    BY <2>6, UpdateOrderItemStatusHolds
  <2>7. ASSUME NEW i \in Items, NEW next \in {"ACTIVE", "ARCHIVED"},
               UpdateResultStatus(j, i, next)
        PROVE  DeliveryInv'
    BY <2>7, UpdateResultStatusHolds
  <2> QED
    BY <1>2, <2>1, <2>2, <2>3, <2>4, <2>5, <2>6, <2>7 DEF DeliveryStep
<1> QED
  BY <1>1, <1>2 DEF DeliveryNext

\* The invariant of the deliveries holds throughout.
LEMMA DeliveryInvariant == DeliverySpec => []DeliveryInv
BY InitHolds, DeliveryStepHolds, PTL DEF DeliverySpec

-----------------------------------------------------------------------------
(* Results *)

(***************************************************************************)
(* The rows keep the types of their columns.                               *)
(***************************************************************************)
THEOREM DeliveryTypeCorrect == DeliverySpec => []DeliveryTypeOK
BY DeliveryInvariant, PTL DEF DeliveryInv

(***************************************************************************)
(* A line marked complete that promised a record has one the customer can  *)
(* see, however the saves and status changes of the team interleave.       *)
(***************************************************************************)
THEOREM CompletionShowsItsRecord == DeliverySpec => []CompletedShowsRecord
BY DeliveryInvariant, PTL DEF DeliveryInv

(***************************************************************************)
(* Every record the customer can see has a delivery date.                  *)
(***************************************************************************)
THEOREM ShownRecordsAreDated == DeliverySpec => []ShownIsDated
BY DeliveryInvariant, PTL DEF DeliveryInv

-----------------------------------------------------------------------------
(* The order's lines, as Delivery promises them *)

(***************************************************************************)
(* What happens around the lines leaves them alone, so all that holds of   *)
(* Delivery by itself holds of the order's lines.                          *)
(***************************************************************************)
THEOREM LinesAreDelivered == Spec => DeliverySpec
<1>1. Init => DeliveryInit
  BY DEF Init
<1>2. [Next]_vars => [DeliveryNext]_deliveryVars
  BY DEF Next, vars, deliveryVars, orderVars
<1> QED
  BY <1>1, <1>2, PTL DEF Spec, DeliverySpec

-----------------------------------------------------------------------------
(* Types of what the steps write *)

\* An idle request is one.
LEMMA NoCallType ==
  /\ NoCall \in Call /\ NoCall.pc = "idle"
BY PipelineAssumption DEF NoCall, Call, OrderStatus, Owner

\* advanceOrderStatus leaves the owner, and writes its target or nothing.
LEMMA AdvancedEffect ==
  ASSUME OrderTypeOK, NEW seen \in OrderStatus, NEW target \in OrderStatus
  PROVE  /\ Advanced(seen, target) \in [status : OrderStatus, owner : Owner]
         /\ Advanced(seen, target).status \in {order.status, target}
         /\ Advanced(seen, target).owner = order.owner
<1> DEFINE moved == [order EXCEPT !.status = target]
<1>1. /\ moved \in [status : OrderStatus, owner : Owner]
      /\ moved.status = target /\ moved.owner = order.owner
  BY DEF OrderTypeOK
<1>2. order \in [status : OrderStatus, owner : Owner]
  BY DEF OrderTypeOK
<1>3. Advanced(seen, target) = order \/ Advanced(seen, target) = moved
  BY DEF Advanced
<1> QED
  BY <1>1, <1>2, <1>3

(***************************************************************************)
(* Quotes that are never unwritten keep a priced order priced.             *)
(***************************************************************************)
QuotesStay ==
  /\ quotes' \in [Keys -> Quote]
  /\ \A k \in Keys : quotes[k].status # "NONE" => quotes'[k].status # "NONE"

\* An order that has a quote keeps it.
LEMMA PricedStays == ASSUME QuotesStay PROVE Priced => Priced'
BY DEF QuotesStay, Priced

\* Quotes that are not written stay.
LEMMA QuotesUnchanged == ASSUME OrderTypeOK, quotes' = quotes PROVE QuotesStay
BY DEF OrderTypeOK, QuotesStay

(***************************************************************************)
(* What a step of request c has to show to preserve the invariant.         *)
(***************************************************************************)
LEMMA CallStep ==
  ASSUME OrderInv, NEW c \in Callers,
         order' \in [status : OrderStatus, owner : Owner],
         thread' \in [exists : BOOLEAN, owner : Owner],
         QuotesStay,
         order'.status = "APPROVED" => order.status = "APPROVED" \/ Priced',
         NEW call \in Call, calls' = [calls EXCEPT ![c] = call],
         CallIsChecked(c)'
  PROVE  OrderInv'
<1>1. calls' \in [Callers -> Call] /\ \A d \in Callers \ {c} : calls'[d] = calls[d]
  BY DEF OrderInv, OrderTypeOK
<1>2. OrderTypeOK'
  BY <1>1 DEF OrderTypeOK, QuotesStay
<1>3. ApprovedIsPriced'
  BY PricedStays DEF OrderInv, ApprovedIsPriced
<1>4. ASSUME NEW d \in Callers PROVE CallIsChecked(d)'
  <2>1. CASE d = c
    BY <2>1
  <2>2. CASE d # c
    <3>1. calls'[d] = calls[d] /\ CallIsChecked(d)
      BY <1>1, <2>2 DEF OrderInv
    <3> QED
      BY <3>1, PricedStays DEF CallIsChecked, StatusChanged, Allowed
  <2> QED
    BY <2>1, <2>2
<1> QED
  BY <1>2, <1>3, <1>4 DEF OrderInv

\* A request that is idle, or sends a message, has nothing to be checked.
LEMMA Settled ==
  ASSUME OrderInv, NEW c \in Callers, calls'[c].pc \in {"idle", "locating", "creating", "replying"}
  PROVE  CallIsChecked(c)'
BY DEF CallIsChecked

(***************************************************************************)
(* A step that ends the request.                                           *)
(***************************************************************************)
LEMMA HangupStep ==
  ASSUME OrderInv, NEW c \in Callers, Hangup(c),
         order' \in [status : OrderStatus, owner : Owner],
         thread' \in [exists : BOOLEAN, owner : Owner],
         QuotesStay,
         order'.status = "APPROVED" => order.status = "APPROVED" \/ Priced'
  PROVE  OrderInv'
<1>1. calls' = [calls EXCEPT ![c] = NoCall] /\ NoCall \in Call
  BY NoCallType DEF Hangup
<1>2. calls'[c].pc = "idle"
  BY <1>1, NoCallType DEF OrderInv, OrderTypeOK
<1>3. CallIsChecked(c)'
  BY <1>2, Settled
<1> QED
  BY <1>1, <1>3, CallStep

(***************************************************************************)
(* A step that moves the request on and writes nothing.                    *)
(***************************************************************************)
LEMMA ReadStep ==
  ASSUME OrderInv, NEW c \in Callers, UNCHANGED <<order, thread, quotes>>,
         NEW call \in Call, calls' = [calls EXCEPT ![c] = call],
         CallIsChecked(c)'
  PROVE  OrderInv'
<1>1. QuotesStay
  BY QuotesUnchanged DEF OrderInv
<1>2. /\ order' = order /\ order' \in [status : OrderStatus, owner : Owner]
      /\ thread' \in [exists : BOOLEAN, owner : Owner]
  BY DEF OrderInv, OrderTypeOK
<1> QED
  BY <1>1, <1>2, CallStep

\* A request that ends, and writes nothing.
LEMMA HangupOnly ==
  ASSUME OrderInv, NEW c \in Callers, UNCHANGED <<order, thread, quotes>>, Hangup(c)
  PROVE  OrderInv'
<1>1. QuotesStay
  BY QuotesUnchanged DEF OrderInv
<1>2. /\ order' = order /\ order' \in [status : OrderStatus, owner : Owner]
      /\ thread' \in [exists : BOOLEAN, owner : Owner]
  BY DEF OrderInv, OrderTypeOK
<1> QED
  BY <1>1, <1>2, HangupStep

-----------------------------------------------------------------------------
(* Quotes and payments *)

\* A request that begins to send, withdraw or credit a quote.
LEMMA BeginKeyed ==
  ASSUME OrderInv, NEW c \in Callers, UNCHANGED <<order, thread, quotes>>,
         NEW call \in Call, call.pc \in {"outstanding", "cancelling", "crediting"},
         call.key \in Keys, calls' = [calls EXCEPT ![c] = call]
  PROVE  OrderInv'
<1>1. calls'[c] = call
  BY DEF OrderInv, OrderTypeOK
<1>2. CallIsChecked(c)'
  BY <1>1 DEF CallIsChecked
<1> QED
  BY <1>2, ReadStep

\* Sending, withdrawing and crediting begin by reading the quote.
LEMMA BeginQuoteHolds ==
  ASSUME OrderInv, NEW c \in Callers, NEW k \in Keys,
         BeginQuote(c, k) \/ BeginCancel(c, k) \/ BeginCredit(c, k)
  PROVE  OrderInv'
<1>1. order.status \in OrderStatus
  BY DEF OrderInv, OrderTypeOK
<1>2. CASE BeginQuote(c, k)
  <2> DEFINE call == [NoCall EXCEPT !.pc = "outstanding", !.key = k]
  <2>1. call \in Call /\ call.pc = "outstanding" /\ call.key = k
    BY NoCallType DEF NoCall, Call
  <2>2. calls' = [calls EXCEPT ![c] = call] /\ UNCHANGED <<order, thread, quotes>>
    BY <1>2 DEF BeginQuote
  <2> HIDE DEF call
  <2> QED
    BY <2>1, <2>2, BeginKeyed
<1>3. CASE BeginCancel(c, k)
  <2> DEFINE call == [NoCall EXCEPT !.pc = "cancelling", !.key = k]
  <2>1. call \in Call /\ call.pc = "cancelling" /\ call.key = k
    BY NoCallType DEF NoCall, Call
  <2>2. calls' = [calls EXCEPT ![c] = call] /\ UNCHANGED <<order, thread, quotes>>
    BY <1>3 DEF BeginCancel
  <2> HIDE DEF call
  <2> QED
    BY <2>1, <2>2, BeginKeyed
<1>4. CASE BeginCredit(c, k)
  <2> DEFINE call == [NoCall EXCEPT !.pc = "crediting", !.key = k, !.seen = order.status]
  <2>1. call \in Call /\ call.pc = "crediting" /\ call.key = k
    BY <1>1, NoCallType DEF NoCall, Call
  <2>2. calls' = [calls EXCEPT ![c] = call] /\ UNCHANGED <<order, thread, quotes>>
    BY <1>4 DEF BeginCredit
  <2> HIDE DEF call
  <2> QED
    BY <2>1, <2>2, BeginKeyed
<1> QED
  BY <1>2, <1>3, <1>4

\* A sender looks for another quote that stands,
LEMMA CheckOutstandingHolds ==
  ASSUME OrderInv, NEW c \in Callers, CheckOutstanding(c)
  PROVE  OrderInv'
<1>1. CASE \E k \in Keys : Live(k)
  BY <1>1, HangupOnly DEF CheckOutstanding
<1>2. CASE ~\E k \in Keys : Live(k)
  <2> DEFINE call == [calls[c] EXCEPT !.pc = "pricing"]
  <2>1. calls[c] \in Call /\ calls[c].key \in Keys
    BY DEF OrderInv, OrderTypeOK, CheckOutstanding, CallIsChecked
  <2>2. call \in Call /\ call.pc = "pricing" /\ call.key = calls[c].key
    BY <2>1 DEF Call
  <2>3. calls' = [calls EXCEPT ![c] = call] /\ UNCHANGED <<order, thread, quotes>>
    BY <1>2 DEF CheckOutstanding, OrderInv, OrderTypeOK
  <2> HIDE DEF call
  <2>4. calls'[c] = call
    BY <2>3 DEF OrderInv, OrderTypeOK
  <2>5. CallIsChecked(c)'
    BY <2>1, <2>2, <2>4 DEF CallIsChecked
  <2> QED
    BY <2>2, <2>3, <2>5, ReadStep
<1> QED
  BY <1>1, <1>2

\* for its own, and at the order,
LEMMA PriceQuoteHolds ==
  ASSUME OrderInv, NEW c \in Callers, PriceQuote(c)
  PROVE  OrderInv'
<1>1. CASE quotes[calls[c].key].status # "NONE"
  BY <1>1, HangupOnly DEF PriceQuote
<1>2. CASE quotes[calls[c].key].status = "NONE"
  <2> DEFINE call == [calls[c] EXCEPT !.pc = "sending", !.seen = order.status]
  <2>1. calls[c] \in Call /\ calls[c].key \in Keys /\ order.status \in OrderStatus
    BY DEF OrderInv, OrderTypeOK, PriceQuote, CallIsChecked
  <2>2. call \in Call /\ call.pc = "sending" /\ call.key = calls[c].key
    BY <2>1 DEF Call
  <2>3. calls' = [calls EXCEPT ![c] = call] /\ UNCHANGED <<order, thread, quotes>>
    BY <1>2 DEF PriceQuote, OrderInv, OrderTypeOK
  <2> HIDE DEF call
  <2>4. calls'[c] = call
    BY <2>3 DEF OrderInv, OrderTypeOK
  <2>5. CallIsChecked(c)'
    BY <2>1, <2>2, <2>4 DEF CallIsChecked
  <2> QED
    BY <2>2, <2>3, <2>5, ReadStep
<1> QED
  BY <1>1, <1>2

\* and inserts the quote: the order has one if it is approved by it.
LEMMA SendQuoteHolds ==
  ASSUME OrderInv, NEW c \in Callers, SendQuote(c)
  PROVE  OrderInv'
<1> DEFINE sent == [status |-> "PENDING", live |-> TRUE, due |-> FALSE]
<1>1. calls[c].key \in Keys /\ calls[c].seen \in OrderStatus
  BY DEF OrderInv, OrderTypeOK, CallIsChecked, SendQuote, Call
<1>2. sent \in Quote /\ sent.status = "PENDING"
  BY DEF Quote
<1>3. quotes' = [quotes EXCEPT ![calls[c].key] = sent]
  BY DEF SendQuote
<1> HIDE DEF sent
<1>4. QuotesStay /\ quotes'[calls[c].key].status # "NONE"
  BY <1>1, <1>2, <1>3 DEF OrderInv, OrderTypeOK, QuotesStay
<1>5. Priced'
  BY <1>1, <1>4 DEF Priced
<1>6. /\ order' \in [status : OrderStatus, owner : Owner]
      /\ thread' \in [exists : BOOLEAN, owner : Owner]
  BY <1>1, AdvancedEffect DEF SendQuote, OrderInv, OrderTypeOK, OrderStatus
<1> QED
  BY <1>4, <1>5, <1>6, HangupStep DEF SendQuote

(***************************************************************************)
(* A quote that is withdrawn or credited is still a quote.                 *)
(***************************************************************************)
LEMMA QuoteClosed ==
  ASSUME OrderTypeOK, NEW k \in Keys, NEW q \in Quote, q.status # "NONE",
         quotes' = [quotes EXCEPT ![k] = q]
  PROVE  QuotesStay
BY DEF OrderTypeOK, QuotesStay

\* A withdrawal leaves the order as it is.
LEMMA CommitCancelHolds ==
  ASSUME OrderInv, NEW c \in Callers, CommitCancel(c)
  PROVE  OrderInv'
<1> DEFINE k == calls[c].key
           q == [quotes[k] EXCEPT !.status = "CANCELLED"]
<1>1. k \in Keys /\ quotes[k] \in Quote
  BY DEF OrderInv, OrderTypeOK, CallIsChecked, CommitCancel
<1>2. q \in Quote /\ q.status = "CANCELLED"
  BY <1>1 DEF Quote
<1>3. quotes' = [quotes EXCEPT ![k] = q]
  BY DEF CommitCancel
<1>4. QuotesStay
  BY <1>1, <1>2, <1>3, QuoteClosed DEF OrderInv
<1>5. /\ order' = order /\ order' \in [status : OrderStatus, owner : Owner]
      /\ thread' \in [exists : BOOLEAN, owner : Owner]
  BY DEF CommitCancel, OrderInv, OrderTypeOK
<1> QED
  BY <1>4, <1>5, HangupStep DEF CommitCancel

\* A credit moves the order to "PAID", which needs no quote, or not at all.
LEMMA CommitCreditHolds ==
  ASSUME OrderInv, NEW c \in Callers, CommitCredit(c)
  PROVE  OrderInv'
<1> DEFINE k == calls[c].key
           q == [quotes[k] EXCEPT !.status = "PAID", !.due = FALSE]
<1>1. k \in Keys /\ quotes[k] \in Quote /\ calls[c].seen \in OrderStatus
  BY DEF OrderInv, OrderTypeOK, CallIsChecked, CommitCredit, Call
<1>2. q \in Quote /\ q.status = "PAID"
  BY <1>1 DEF Quote
<1>3. quotes' = [quotes EXCEPT ![k] = q]
  BY <1>1 DEF CommitCredit, OrderInv, OrderTypeOK, Quote
<1>4. QuotesStay
  BY <1>1, <1>2, <1>3, QuoteClosed DEF OrderInv
<1>5. "PAID" \in OrderStatus
  BY DEF OrderStatus
<1>6. /\ order' \in [status : OrderStatus, owner : Owner]
      /\ order'.status \in {order.status, "PAID"}
      /\ thread' \in [exists : BOOLEAN, owner : Owner]
  BY <1>1, <1>5, AdvancedEffect DEF CommitCredit, OrderInv, OrderTypeOK
<1> QED
  BY <1>4, <1>6, HangupStep DEF CommitCredit

\* A payment that is opened, or a quote that lapses, leaves the order.
LEMMA PaymentHolds ==
  ASSUME OrderInv, NEW k \in Keys, OpenPayment(k) \/ Lapse(k)
  PROVE  OrderInv'
<1>1. quotes[k] \in Quote /\ quotes[k].status = "PENDING"
  BY DEF OrderInv, OrderTypeOK, OpenPayment, Lapse, Live
<1>2. QuotesStay
  <2>1. CASE OpenPayment(k)
    <3>1. [quotes[k] EXCEPT !.due = TRUE] \in Quote
          /\ [quotes[k] EXCEPT !.due = TRUE].status = "PENDING"
      BY <1>1 DEF Quote
    <3> QED
      BY <2>1, <3>1, QuoteClosed DEF OpenPayment, OrderInv
  <2>2. CASE Lapse(k)
    <3>1. [quotes[k] EXCEPT !.live = FALSE] \in Quote
          /\ [quotes[k] EXCEPT !.live = FALSE].status = "PENDING"
      BY <1>1 DEF Quote
    <3> QED
      BY <2>2, <3>1, QuoteClosed DEF Lapse, OrderInv
  <2> QED
    BY <2>1, <2>2
<1>3. order' = order /\ thread' = thread /\ calls' = calls
  BY DEF OpenPayment, Lapse
<1>4. OrderTypeOK'
  BY <1>2, <1>3 DEF OrderInv, OrderTypeOK, QuotesStay
<1>5. ApprovedIsPriced'
  BY <1>2, <1>3, PricedStays DEF OrderInv, ApprovedIsPriced
<1>6. ASSUME NEW c \in Callers PROVE CallIsChecked(c)'
  BY <1>2, <1>3, PricedStays DEF OrderInv, CallIsChecked, StatusChanged, Allowed
<1> QED
  BY <1>4, <1>5, <1>6 DEF OrderInv

-----------------------------------------------------------------------------
(* Moves *)

\* A reviewer's change is allowed from the status it has read;
LEMMA BeginMoveHolds ==
  ASSUME OrderInv, NEW c \in Callers, NEW next \in OrderStatus, NEW heir \in Owner,
         BeginMove(c, next, heir)
  PROVE  OrderInv'
<1> DEFINE changes == {f \in {"status", "owner"} :
                         IF f = "status" THEN next # order.status ELSE heir # order.owner}
           pc == IF "status" \in changes /\ next \in {"APPROVED", "COMPLETED"}
                 THEN "gating" ELSE "moving"
<1>1. PICK sends \in SUBSET {"status", "owner"} :
        calls' = [calls EXCEPT ![c] =
          [NoCall EXCEPT !.pc = pc, !.seen = order.status, !.next = next,
                         !.owner = order.owner, !.heir = heir, !.sends = sends]]
  BY DEF BeginMove
<1> DEFINE call == [NoCall EXCEPT !.pc = pc, !.seen = order.status, !.next = next,
                                  !.owner = order.owner, !.heir = heir, !.sends = sends]
<1>2. order.status \in OrderStatus /\ order.owner \in Owner
  BY DEF OrderInv, OrderTypeOK
<1>3. "status" \in changes <=> next # order.status
  OBVIOUS
<1>4. /\ next # order.status => Allowed(c, order.status, next)
      /\ UNCHANGED <<order, thread, quotes>>
  BY <1>3 DEF BeginMove
<1>5. pc \in {"gating", "moving"} /\ (pc = "moving" => next = order.status \/ next # "APPROVED")
  BY <1>3
<1> HIDE DEF pc, changes
<1>6. /\ call \in Call /\ call.pc = pc /\ call.seen = order.status /\ call.next = next
  BY <1>2, <1>5, NoCallType DEF NoCall, Call
<1> HIDE DEF call
<1>7. calls' = [calls EXCEPT ![c] = call]
  BY <1>1 DEF call
<1>8. calls'[c] = call
  BY <1>7 DEF OrderInv, OrderTypeOK
<1>9. CallIsChecked(c)'
  <2>1. calls'[c].pc = "moving" /\ calls'[c].next = "APPROVED" => Priced'
    <3> SUFFICES ASSUME pc = "moving", next = "APPROVED" PROVE Priced'
      BY <1>6, <1>8
    <3>1. order.status = "APPROVED"
      BY <1>5
    <3> QED
      BY <3>1, <1>4 DEF OrderInv, ApprovedIsPriced, Priced
  <2> QED
    BY <2>1, <1>4, <1>5, <1>6, <1>8 DEF CallIsChecked, StatusChanged, Allowed
<1> QED
  BY <1>4, <1>6, <1>7, <1>9, ReadStep

\* an approval needs a quote,
LEMMA GateMoveHolds ==
  ASSUME OrderInv, NEW c \in Callers, GateMove(c)
  PROVE  OrderInv'
<1> DEFINE open == \/ calls[c].next = "APPROVED" /\ Priced
                   \/ calls[c].next = "COMPLETED" /\ \A i \in Items : items[i] = "COMPLETED"
           call == [calls[c] EXCEPT !.pc = "moving"]
<1>1. CASE ~open
  BY <1>1, HangupOnly DEF GateMove
<1>2. CASE open
  <2>1. calls[c] \in Call /\ (StatusChanged(c) => Allowed(c, calls[c].seen, calls[c].next))
    BY DEF OrderInv, OrderTypeOK, GateMove, CallIsChecked
  <2>2. /\ call \in Call /\ call.pc = "moving" /\ call.seen = calls[c].seen
        /\ call.next = calls[c].next
    BY <2>1 DEF Call
  <2>3. calls' = [calls EXCEPT ![c] = call] /\ UNCHANGED <<order, thread, quotes>>
    BY <1>2 DEF GateMove, OrderInv, OrderTypeOK
  <2> HIDE DEF call
  <2>4. calls'[c] = call
    BY <2>3 DEF OrderInv, OrderTypeOK
  <2>5. calls[c].next = "APPROVED" => Priced
    BY <1>2
  <2>6. Priced => Priced'
    BY <2>3 DEF Priced
  <2>7. CallIsChecked(c)'
    BY <2>1, <2>2, <2>4, <2>5, <2>6 DEF CallIsChecked, StatusChanged, Allowed
  <2> QED
    BY <2>2, <2>3, <2>7, ReadStep
<1> QED
  BY <1>1, <1>2

\* what is written is the status asked for, or the one that is there,
LEMMA MovedEffect ==
  ASSUME OrderTypeOK, NEW c \in Callers
  PROVE  /\ Moved(c) \in [status : OrderStatus, owner : Owner]
         /\ Moved(c).status \in {order.status, calls[c].next}
         /\ Synced(c) \in [exists : BOOLEAN, owner : Owner]
<1>1. calls[c] \in Call
  BY DEF OrderTypeOK
<1> QED
  BY <1>1 DEF OrderTypeOK, Moved, Synced, Call

\* and the write is that of a change that was checked.
LEMMA CommitMoveHolds ==
  ASSUME OrderInv, NEW c \in Callers, CommitMove(c)
  PROVE  OrderInv'
<1>1. /\ \/ order' = Moved(c) /\ thread' = Synced(c)
         \/ order' = order /\ thread' = thread
      /\ quotes' = quotes /\ Hangup(c) /\ calls[c].pc = "moving"
  BY DEF CommitMove
<1>2. /\ order' \in [status : OrderStatus, owner : Owner]
      /\ thread' \in [exists : BOOLEAN, owner : Owner]
      /\ order'.status \in {order.status, calls[c].next}
  BY <1>1, MovedEffect DEF OrderInv, OrderTypeOK
<1>3. QuotesStay
  BY <1>1, QuotesUnchanged DEF OrderInv
<1>4. calls[c].next = "APPROVED" => Priced
  BY <1>1 DEF OrderInv, CallIsChecked
<1>5. order'.status = "APPROVED" => order.status = "APPROVED" \/ Priced'
  BY <1>2, <1>3, <1>4, PricedStays
<1> QED
  BY <1>1, <1>2, <1>3, <1>5, HangupStep

-----------------------------------------------------------------------------
(* Talk *)

\* A message reads the thread, and the order it may claim;
LEMMA BeginTalkHolds ==
  ASSUME OrderInv, NEW c \in Callers, NEW who \in Staff \cup {Customer},
         NEW posts \in BOOLEAN, BeginTalk(c, who, posts)
  PROVE  OrderInv'
<1> DEFINE call == [NoCall EXCEPT !.pc = "locating", !.owner = order.owner,
                                  !.actor = who, !.posts = posts]
<1>1. call \in Call /\ call.pc = "locating"
  BY NoCallType DEF NoCall, Call, OrderInv, OrderTypeOK
<1>2. calls' = [calls EXCEPT ![c] = call] /\ UNCHANGED <<order, thread, quotes>>
  BY DEF BeginTalk
<1> HIDE DEF call
<1>3. calls'[c] = call
  BY <1>2 DEF OrderInv, OrderTypeOK
<1>4. CallIsChecked(c)'
  BY <1>1, <1>3, Settled
<1> QED
  BY <1>1, <1>2, <1>4, ReadStep

(***************************************************************************)
(* A request that found its thread, from whichever step found it.          *)
(***************************************************************************)
LEMMA LocatedHolds ==
  ASSUME OrderInv, NEW c \in Callers, Located(c),
         order' = order, quotes' = quotes, thread' \in [exists : BOOLEAN, owner : Owner]
  PROVE  OrderInv'
<1>0. QuotesStay /\ order' \in [status : OrderStatus, owner : Owner]
  BY QuotesUnchanged DEF OrderInv, OrderTypeOK
<1>1. CASE ~calls[c].posts
  <2>1. Hangup(c)
    BY <1>1 DEF Located
  <2> QED
    BY <2>1, <1>0, HangupStep
<1>2. CASE calls[c].posts
  <2> DEFINE call == [calls[c] EXCEPT !.pc = "replying", !.holder = thread'.owner]
  <2>1. calls[c] \in Call /\ thread'.owner \in Owner
    BY DEF OrderInv, OrderTypeOK
  <2>2. call \in Call /\ call.pc = "replying"
    BY <2>1 DEF Call
  <2>3. calls' = [calls EXCEPT ![c] = call]
    BY <1>2 DEF Located, OrderInv, OrderTypeOK
  <2> HIDE DEF call
  <2>4. calls'[c] = call
    BY <2>3 DEF OrderInv, OrderTypeOK
  <2>5. CallIsChecked(c)'
    BY <2>2, <2>4, Settled
  <2> QED
    BY <1>0, <2>2, <2>3, <2>5, CallStep
<1> QED
  BY <1>1, <1>2

\* it looks for the thread,
LEMMA LocateThreadHolds ==
  ASSUME OrderInv, NEW c \in Callers, LocateThread(c)
  PROVE  OrderInv'
<1>1. CASE thread.exists
  BY <1>1, LocatedHolds DEF LocateThread, OrderInv, OrderTypeOK
<1>2. CASE ~thread.exists
  <2> DEFINE call == [calls[c] EXCEPT !.pc = "creating"]
  <2>1. calls[c] \in Call
    BY DEF OrderInv, OrderTypeOK
  <2>2. call \in Call /\ call.pc = "creating"
    BY <2>1 DEF Call
  <2>3. calls' = [calls EXCEPT ![c] = call] /\ UNCHANGED <<order, thread, quotes>>
    BY <1>2 DEF LocateThread, OrderInv, OrderTypeOK
  <2> HIDE DEF call
  <2>4. calls'[c] = call
    BY <2>3 DEF OrderInv, OrderTypeOK
  <2>5. CallIsChecked(c)'
    BY <2>2, <2>4, Settled
  <2> QED
    BY <2>2, <2>3, <2>5, ReadStep
<1> QED
  BY <1>1, <1>2

\* opens it if there is none,
LEMMA CreateThreadHolds ==
  ASSUME OrderInv, NEW c \in Callers, CreateThread(c)
  PROVE  OrderInv'
<1>1. calls[c].owner \in Owner
  BY DEF OrderInv, OrderTypeOK, Call
<1>2. thread' \in [exists : BOOLEAN, owner : Owner]
  BY <1>1 DEF CreateThread, OrderInv, OrderTypeOK
<1> QED
  BY <1>2, LocatedHolds DEF CreateThread

\* and a reply claims the order.
LEMMA CommitReplyHolds ==
  ASSUME OrderInv, NEW c \in Callers, CommitReply(c)
  PROVE  OrderInv'
<1>1. calls[c].actor # Customer => calls[c].actor \in Owner
  BY DEF OrderInv, OrderTypeOK, Call, Owner
<1>2. /\ order' \in [status : OrderStatus, owner : Owner] /\ order'.status = order.status
      /\ thread' \in [exists : BOOLEAN, owner : Owner]
  BY <1>1 DEF CommitReply, OrderInv, OrderTypeOK
<1>3. QuotesStay /\ Hangup(c)
  BY QuotesUnchanged DEF CommitReply, OrderInv
<1> QED
  BY <1>2, <1>3, HangupStep

-----------------------------------------------------------------------------
(* The invariant *)

\* Nothing is under way at first.
LEMMA OrderInitHolds == Init => OrderInv
<1> SUFFICES ASSUME Init PROVE OrderInv
  OBVIOUS
<1>1. OrderTypeOK
  BY NoCallType DEF Init, OrderTypeOK, OrderStatus, Owner, Quote
<1>2. order.status = "SUBMITTED" /\ \A c \in Callers : calls[c].pc = "idle"
  BY NoCallType DEF Init
<1> QED
  BY <1>1, <1>2 DEF OrderInv, ApprovedIsPriced, CallIsChecked

\* Every step keeps the invariant of the order,
LEMMA OrderStepHolds == OrderInv /\ [Next]_vars => OrderInv'
<1> SUFFICES ASSUME OrderInv, [Next]_vars PROVE OrderInv'
  OBVIOUS
<1>1. ASSUME UNCHANGED orderVars PROVE OrderInv'
  BY <1>1 DEF orderVars, OrderInv, OrderTypeOK, ApprovedIsPriced, CallIsChecked, StatusChanged,
              Allowed, Priced
<1>2. CASE UNCHANGED vars
  BY <1>1, <1>2 DEF vars, orderVars
<1>3. CASE DeliveryNext /\ UNCHANGED orderVars
  BY <1>1, <1>3
<1>4. ASSUME NEW k \in Keys, OpenPayment(k) \/ Lapse(k) PROVE OrderInv'
  BY <1>4, PaymentHolds
<1>5. ASSUME NEW c \in Callers, QuoteStep(c) PROVE OrderInv'
  <2>1. CASE CheckOutstanding(c)
    BY <2>1, CheckOutstandingHolds
  <2>2. CASE PriceQuote(c)
    BY <2>2, PriceQuoteHolds
  <2>3. CASE SendQuote(c)
    BY <2>3, SendQuoteHolds
  <2>4. CASE CommitCancel(c)
    BY <2>4, CommitCancelHolds
  <2>5. CASE CommitCredit(c)
    BY <2>5, CommitCreditHolds
  <2>6. ASSUME NEW k \in Keys, BeginQuote(c, k) \/ BeginCancel(c, k) \/ BeginCredit(c, k)
        PROVE  OrderInv'
    BY <2>6, BeginQuoteHolds
  <2> QED
    BY <1>5, <2>1, <2>2, <2>3, <2>4, <2>5, <2>6 DEF QuoteStep
<1>6. ASSUME NEW c \in Callers, MoveStep(c) PROVE OrderInv'
  <2>1. CASE GateMove(c)
    BY <2>1, GateMoveHolds
  <2>2. CASE CommitMove(c)
    BY <2>2, CommitMoveHolds
  <2>3. ASSUME NEW next \in OrderStatus, NEW heir \in Owner, BeginMove(c, next, heir)
        PROVE  OrderInv'
    BY <2>3, BeginMoveHolds
  <2> QED
    BY <1>6, <2>1, <2>2, <2>3 DEF MoveStep
<1>7. ASSUME NEW c \in Callers, TalkStep(c) PROVE OrderInv'
  <2>1. CASE LocateThread(c)
    BY <2>1, LocateThreadHolds
  <2>2. CASE CreateThread(c)
    BY <2>2, CreateThreadHolds
  <2>3. CASE CommitReply(c)
    BY <2>3, CommitReplyHolds
  <2>4. ASSUME NEW who \in Staff \cup {Customer}, NEW posts \in BOOLEAN, BeginTalk(c, who, posts)
        PROVE  OrderInv'
    BY <2>4, BeginTalkHolds
  <2> QED
    BY <1>7, <2>1, <2>2, <2>3, <2>4 DEF TalkStep
<1> QED
  BY <1>2, <1>3, <1>4, <1>5, <1>6, <1>7 DEF Next, OrderNext

\* which holds throughout.
LEMMA OrderInvariant == Spec => []OrderInv
BY OrderInitHolds, OrderStepHolds, PTL DEF Spec

-----------------------------------------------------------------------------
(* Results *)

(***************************************************************************)
(* Every row and request keeps the type of its columns.                    *)
(***************************************************************************)
THEOREM PipelineTypeCorrect == Spec => []TypeOK
<1>1. OrderInv /\ DeliveryTypeOK => TypeOK
  BY DEF OrderInv, TypeOK
<1> QED
  BY <1>1, OrderInvariant, LinesAreDelivered, DeliveryTypeCorrect, PTL

(***************************************************************************)
(* An approved order has been priced, whichever request approved it.       *)
(***************************************************************************)
THEOREM ApprovalsArePriced == Spec => []ApprovedIsPriced
BY OrderInvariant, PTL DEF OrderInv

(***************************************************************************)
(* The compare-and-set: a change a reviewer's request makes is made from   *)
(* the status and the hands it was checked against.                        *)
(***************************************************************************)
LEMMA OnlyCommitsEndMoves ==
  ASSUME OrderInv, Next, NEW c \in Callers, calls[c].pc = "moving", calls'[c].pc = "idle"
  PROVE  CommitMove(c)
<1>1. ASSUME NEW d \in Callers, NEW call, d # c, calls' = [calls EXCEPT ![d] = call]
      PROVE  FALSE
  BY <1>1 DEF OrderInv, OrderTypeOK
<1>2. CASE UNCHANGED calls
  BY <1>2
<1>3. CASE \E d \in Callers : QuoteStep(d) \/ MoveStep(d) \/ TalkStep(d)
  <2>1. PICK d \in Callers : QuoteStep(d) \/ MoveStep(d) \/ TalkStep(d)
    BY <1>3
  <2>2. CASE d = c
    BY <2>1, <2>2
       DEF QuoteStep, MoveStep, TalkStep, CheckOutstanding, PriceQuote, SendQuote, CommitCancel,
           CommitCredit, BeginQuote, BeginCancel, BeginCredit, GateMove, BeginMove, LocateThread,
           CreateThread, CommitReply, BeginTalk
  <2>3. CASE d # c
    <3>1. \E call : calls' = [calls EXCEPT ![d] = call]
      <4>1. CASE QuoteStep(d)
        BY <4>1 DEF QuoteStep, CheckOutstanding, PriceQuote, SendQuote, CommitCancel, Hangup,
                    CommitCredit, BeginQuote, BeginCancel, BeginCredit
      <4>2. CASE MoveStep(d)
        BY <4>2 DEF MoveStep, GateMove, BeginMove, CommitMove, Hangup
      <4>3. CASE TalkStep(d)
        BY <4>3 DEF TalkStep, LocateThread, CreateThread, CommitReply, BeginTalk, Located, Hangup
      <4> QED
        BY <2>1, <4>1, <4>2, <4>3
    <3> QED
      BY <1>1, <2>3, <3>1
  <2> QED
    BY <2>2, <2>3
<1> QED
  BY <1>2, <1>3 DEF Next, OrderNext, OpenPayment, Lapse, orderVars

\* A reviewer's write moves the order along a transition it was checked for, from
\* the status and out of the hands it saw.
THEOREM ReviewersMoveFromWhatTheySaw == Spec => MovesAreChecked
<1>1. ASSUME OrderInv, [Next]_vars
      PROVE  [\A c \in Callers : calls[c].pc = "moving" /\ calls'[c].pc = "idle" =>
                /\ StatusChanged(c) /\ order'.status # order.status =>
                     Allowed(c, order.status, order'.status)
                /\ OwnerChanged(c) /\ order'.owner # order.owner =>
                     order.owner = calls[c].owner]_vars
  <2>1. CASE UNCHANGED vars
    BY <2>1
  <2>2. ASSUME Next, NEW c \in Callers, calls[c].pc = "moving", calls'[c].pc = "idle"
        PROVE  /\ StatusChanged(c) /\ order'.status # order.status =>
                    Allowed(c, order.status, order'.status)
               /\ OwnerChanged(c) /\ order'.owner # order.owner =>
                    order.owner = calls[c].owner
    <3>1. CommitMove(c)
      BY <1>1, <2>2, OnlyCommitsEndMoves
    <3>2. \/ /\ StatusChanged(c) => order.status = calls[c].seen
             /\ OwnerChanged(c) => order.owner = calls[c].owner
             /\ order' = Moved(c)
          \/ order' = order
      BY <3>1 DEF CommitMove
    <3>3. Moved(c).status \in {order.status, calls[c].next}
      BY <1>1, MovedEffect DEF OrderInv
    <3>4. StatusChanged(c) => Allowed(c, calls[c].seen, calls[c].next)
      BY <1>1, <2>2 DEF OrderInv, CallIsChecked
    <3> QED
      BY <3>2, <3>3, <3>4
  <2> QED
    BY <1>1, <2>1, <2>2
<1> QED
  BY <1>1, OrderInvariant, PTL DEF Spec, MovesAreChecked

-----------------------------------------------------------------------------
(* A paid quote has moved its order *)

\* No admin about, and requests that send what they change.
ByTheTable == Admins = {} /\ ~Resends

\* While a quote is being sent, nothing is due on another of the order: what
\* createQuote looks for before it prices, and two requests may both not find.
OffersStandAlone ==
  \A c \in Callers : calls[c].pc = "sending" => \A k \in Keys : ~quotes[k].due

Past(status) == Rank(status) >= Rank("PAID")

\* What a request relies on when it writes: one that sends a quote, and saw the
\* order not past "PAID", that no quote is paid; one that credits, that it alone
\* holds a quote that is due, and that an order it saw past "PAID" still is; one
\* that moves the order, that it writes a status only to change it.
PaidCall(c) ==
  LET q == calls[c] IN
  /\ q.pc = "sending" /\ ~Past(q.seen) => \A k \in Keys : quotes[k].status # "PAID"
  /\ q.pc = "crediting" =>
       /\ quotes[q.key].due
       /\ \A d \in Callers : calls[d].pc = "crediting" /\ calls[d].key = q.key => d = c
       /\ Past(q.seen) => Past(order.status)
  /\ q.pc \in {"gating", "moving"} /\ "status" \in q.sends => StatusChanged(c)

PaidInv == PaidQuoteMovedOrder /\ \A c \in Callers : PaidCall(c)

\* The pipeline never leads back from "PAID".
LEMMA PastIsKept ==
  /\ \A s \in OrderStatus : Past(s) <=> s \in {"PAID", "PROCESSING", "COMPLETED"}
  /\ \A t \in Transitions : Past(t[1]) => Past(t[2])
<1>1. \A s \in OrderStatus : Past(s) <=> s \in {"PAID", "PROCESSING", "COMPLETED"}
  BY DEF OrderStatus, Past, Rank
<1>2. \A t \in Transitions : t[1] \in OrderStatus /\ t[2] \in OrderStatus
  BY DEF Transitions, OrderStatus
<1>3. \A t \in Transitions : t[1] \in {"PAID", "PROCESSING", "COMPLETED"}
                               => t[2] \in {"PAID", "PROCESSING", "COMPLETED"}
  BY DEF Transitions
<1> QED
  BY <1>1, <1>2, <1>3

\* A request's claims that a step of another leaves standing.
LEMMA OthersClaims ==
  ASSUME PaidInv, NEW d \in Callers, calls'[d] = calls[d],
         calls[d].pc = "sending" =>
           \A k \in Keys : quotes'[k].status = "PAID" => quotes[k].status = "PAID",
         calls[d].pc = "crediting" =>
           /\ quotes'[calls[d].key].due
           /\ \A e \in Callers \ {d} : calls'[e].pc = "crediting" =>
                                         calls'[e].key # calls[d].key
           /\ Past(order.status) => Past(order'.status)
  PROVE  PaidCall(d)'
BY DEF PaidInv, PaidCall, StatusChanged

\* A step of request c that writes no quote and leaves the order's status.
LEMMA ClaimsStand ==
  ASSUME OrderInv, PaidInv, NEW c \in Callers, NEW call, calls' = [calls EXCEPT ![c] = call],
         quotes' = quotes, order'.status = order.status, PaidCall(c)',
         call.pc = "crediting" =>
           \A d \in Callers : calls[d].pc = "crediting" => calls[d].key # call.key
  PROVE  PaidInv'
<1>1. calls'[c] = call /\ \A d \in Callers \ {c} : calls'[d] = calls[d]
  BY DEF OrderInv, OrderTypeOK
<1>2. ASSUME NEW d \in Callers PROVE PaidCall(d)'
  <2>1. CASE d = c
    BY <2>1
  <2>2. CASE d # c
    <3>1. calls'[d] = calls[d] /\ PaidCall(d)
      BY <1>1, <2>2 DEF PaidInv
    <3>2. ASSUME calls[d].pc = "crediting", NEW e \in Callers \ {d},
                 calls'[e].pc = "crediting"
          PROVE  calls'[e].key # calls[d].key
      BY <1>1, <3>1, <3>2 DEF PaidCall
    <3> QED
      BY <3>1, <3>2, OthersClaims DEF PaidCall
  <2> QED
    BY <2>1, <2>2
<1> QED
  BY <1>2 DEF PaidInv, PaidQuoteMovedOrder

\* A request that claims nothing.
LEMMA NoClaims ==
  ASSUME NEW c \in Callers,
         calls'[c].pc \notin {"sending", "crediting", "gating", "moving"}
  PROVE  PaidCall(c)'
BY DEF PaidCall

\* Such a request, of a step that writes no quote and leaves the order's status.
LEMMA NothingClaimed ==
  ASSUME OrderInv, PaidInv, NEW c \in Callers, NEW call, calls' = [calls EXCEPT ![c] = call],
         quotes' = quotes, order'.status = order.status,
         call.pc \notin {"sending", "crediting", "gating", "moving"}
  PROVE  PaidInv'
<1>1. calls'[c] = call
  BY DEF OrderInv, OrderTypeOK
<1> QED
  BY <1>1, NoClaims, ClaimsStand

\* A request that ends and writes neither quote nor status claims nothing.
LEMMA HangupKeeps ==
  ASSUME OrderInv, PaidInv, NEW c \in Callers, Hangup(c), quotes' = quotes,
         order'.status = order.status
  PROVE  PaidInv'
BY NoCallType, NothingClaimed DEF Hangup

\* A quote is written by a request that then ends: whoever else holds it still
\* finds it due, and it is paid only where nobody sends, and moves the order.
LEMMA QuoteWritten ==
  ASSUME OrderInv, PaidInv, NEW c \in Callers, Hangup(c), NEW k \in Keys,
         NEW q \in Quote, quotes' = [quotes EXCEPT ![k] = q],
         Past(order.status) => Past(order'.status),
         \A d \in Callers \ {c} : calls[d].pc = "crediting" /\ calls[d].key = k => q.due,
         q.status = "PAID" => /\ Past(order'.status)
                              /\ \A d \in Callers : calls[d].pc # "sending"
  PROVE  PaidInv'
<1>1. /\ calls'[c].pc = "idle" /\ \A d \in Callers \ {c} : calls'[d] = calls[d]
      /\ quotes'[k] = q /\ \A l \in Keys \ {k} : quotes'[l] = quotes[l]
  BY NoCallType DEF Hangup, OrderInv, OrderTypeOK
<1>2. ASSUME NEW d \in Callers PROVE PaidCall(d)'
  <2>1. CASE d = c
    BY <1>1, <2>1, NoClaims
  <2>2. CASE d # c
    <3>1. calls'[d] = calls[d] /\ PaidCall(d)
      BY <1>1, <2>2 DEF PaidInv
    <3>2. ASSUME calls[d].pc = "sending", NEW l \in Keys, quotes'[l].status = "PAID"
          PROVE  quotes[l].status = "PAID"
      BY <1>1, <3>2
    <3>3. ASSUME calls[d].pc = "crediting"
          PROVE  /\ quotes'[calls[d].key].due
                 /\ \A e \in Callers \ {d} : calls'[e].pc = "crediting" =>
                                               calls'[e].key # calls[d].key
      <4>1. calls[d].key \in Keys
        BY <3>3 DEF OrderInv, CallIsChecked
      <4> QED
        BY <1>1, <2>2, <3>1, <3>3, <4>1 DEF PaidCall
    <3> QED
      BY <3>1, <3>2, <3>3, OthersClaims
  <2> QED
    BY <2>1, <2>2
<1> QED
  BY <1>1, <1>2 DEF PaidInv, PaidQuoteMovedOrder, Past

(***************************************************************************)
(* The claims, and that the order of a paid quote is past "PAID", of every *)
(* step: a quote is sent while none is paid or past "PAID", a credit moves *)
(* the order or found it moved, and a move follows the pipeline.           *)
(***************************************************************************)
LEMMA PaidStepHolds ==
  ASSUME ByTheTable, OffersStandAlone, OrderInv, PaidInv, [Next]_vars
  PROVE  PaidInv'
<1> USE DEF OrderInv
<1>1. ASSUME UNCHANGED orderVars PROVE PaidInv'
  BY <1>1 DEF orderVars, PaidInv, PaidCall, StatusChanged, PaidQuoteMovedOrder
<1>2. /\ calls \in [Callers -> Call] /\ quotes \in [Keys -> Quote]
      /\ \A c \in Callers : calls[c] \in Call /\ CallIsChecked(c) /\ PaidCall(c)
      /\ order.status \in OrderStatus
  BY DEF OrderTypeOK, PaidInv
<1>3. ASSUME NEW k \in Keys, OpenPayment(k) \/ Lapse(k) PROVE PaidInv'
  <2>1. /\ quotes[k] \in Quote /\ quotes[k].status = "PENDING"
        /\ order' = order /\ calls' = calls
        /\ \/ quotes' = [quotes EXCEPT ![k].due = TRUE]
           \/ quotes' = [quotes EXCEPT ![k].live = FALSE]
    BY <1>2, <1>3 DEF OpenPayment, Lapse, Live
  <2>2. \A l \in Keys : quotes'[l].status = quotes[l].status
                        /\ (l # k => quotes'[l] = quotes[l])
    BY <1>2, <2>1 DEF Quote
  <2>3. ASSUME NEW c \in Callers PROVE PaidCall(c)'
    <3>1. ASSUME calls[c].pc = "crediting"
          PROVE  /\ quotes'[calls[c].key].due
                 /\ \A e \in Callers \ {c} : calls[e].pc = "crediting" =>
                                               calls[e].key # calls[c].key
      <4>1. calls[c].key \in Keys
        BY <1>2, <3>1 DEF CallIsChecked
      <4>2. quotes[calls[c].key].due => quotes'[calls[c].key].due
        BY <1>2, <2>1, <4>1 DEF Quote
      <4> QED
        BY <1>2, <3>1, <4>2 DEF PaidCall
    <3> QED
      BY <2>1, <2>2, <3>1, OthersClaims
  <2> QED
    BY <2>1, <2>2, <2>3 DEF PaidInv, PaidQuoteMovedOrder
<1>4. ASSUME NEW c \in Callers, NEW k \in Keys, BeginQuote(c, k) PROVE PaidInv'
  <2> DEFINE call == [NoCall EXCEPT !.pc = "outstanding", !.key = k]
  <2>1. call.pc = "outstanding"
    BY DEF NoCall
  <2> QED
    BY <1>4, <2>1, NothingClaimed DEF BeginQuote
<1>5. ASSUME NEW c \in Callers, NEW k \in Keys, BeginCancel(c, k) PROVE PaidInv'
  <2> DEFINE call == [NoCall EXCEPT !.pc = "cancelling", !.key = k]
  <2>1. call.pc = "cancelling"
    BY DEF NoCall
  <2> QED
    BY <1>5, <2>1, NothingClaimed DEF BeginCancel
<1>6. ASSUME NEW c \in Callers, NEW k \in Keys, BeginCredit(c, k) PROVE PaidInv'
  <2> DEFINE call == [NoCall EXCEPT !.pc = "crediting", !.key = k, !.seen = order.status]
  <2>1. call.pc = "crediting" /\ call.key = k /\ call.seen = order.status
    BY DEF NoCall
  <2>2. /\ calls' = [calls EXCEPT ![c] = call] /\ UNCHANGED <<order, quotes>>
        /\ quotes[k].due
        /\ \A d \in Callers : calls[d].pc = "crediting" => calls[d].key # k
    BY <1>6 DEF BeginCredit
  <2> HIDE DEF call
  <2>3. PaidCall(c)'
    BY <1>2, <2>1, <2>2 DEF PaidCall
  <2> QED
    BY <2>1, <2>2, <2>3, ClaimsStand
<1>7. ASSUME NEW c \in Callers, CheckOutstanding(c) PROVE PaidInv'
  <2>1. CASE Hangup(c)
    BY <1>7, <2>1, HangupKeeps DEF CheckOutstanding
  <2>2. CASE ~Hangup(c)
    <3> DEFINE call == [calls[c] EXCEPT !.pc = "pricing"]
    <3>1. call.pc = "pricing"
      BY <1>2 DEF Call
    <3>2. calls' = [calls EXCEPT ![c] = call] /\ UNCHANGED <<order, quotes>>
      BY <1>2, <1>7, <2>2 DEF CheckOutstanding
    <3> HIDE DEF call
    <3> QED
      BY <3>1, <3>2, NothingClaimed
  <2> QED
    BY <2>1, <2>2
<1>8. ASSUME NEW c \in Callers, PriceQuote(c) PROVE PaidInv'
  <2>1. CASE Hangup(c)
    BY <1>8, <2>1, HangupKeeps DEF PriceQuote
  <2>2. CASE ~Hangup(c)
    <3> DEFINE call == [calls[c] EXCEPT !.pc = "sending", !.seen = order.status]
    <3>1. call.pc = "sending" /\ call.seen = order.status
      BY <1>2 DEF Call
    <3>2. calls' = [calls EXCEPT ![c] = call] /\ UNCHANGED <<order, quotes>>
      BY <1>2, <1>8, <2>2 DEF PriceQuote
    <3> HIDE DEF call
    <3>3. PaidCall(c)'
      BY <1>2, <3>1, <3>2 DEF PaidCall, PaidInv, PaidQuoteMovedOrder, Past
    <3> QED
      BY <3>1, <3>2, <3>3, ClaimsStand
  <2> QED
    BY <2>1, <2>2
<1>9. ASSUME NEW c \in Callers, SendQuote(c) PROVE PaidInv'
  <2> DEFINE k == calls[c].key
             sent == [status |-> "PENDING", live |-> TRUE, due |-> FALSE]
  <2>1. /\ calls[c].pc = "sending" /\ k \in Keys
        /\ quotes' = [quotes EXCEPT ![k] = sent] /\ Hangup(c)
    BY <1>2, <1>9 DEF SendQuote, CallIsChecked
  <2>2. sent.status = "PENDING" /\ sent \in Quote
    BY DEF Quote
  <2>3. \A d \in Callers : calls[d].pc # "crediting"
    BY <1>2, <2>1 DEF OffersStandAlone, PaidCall, CallIsChecked
  <2> HIDE DEF sent
  <2>4. CASE Past(calls[c].seen)
    <3>1. order' = order
      BY <1>2, <1>9, <2>4, PastIsKept DEF SendQuote, Advanced, Call, OrderStatus, Rank
    <3> QED
      BY <2>1, <2>2, <2>3, <3>1, QuoteWritten
  <2>5. CASE ~Past(calls[c].seen)
    <3>1. \A l \in Keys : quotes[l].status # "PAID"
      BY <1>2, <2>1, <2>5 DEF PaidCall
    <3>2. \A l \in Keys : quotes'[l].status # "PAID"
      BY <1>2, <2>1, <2>2, <3>1
    <3>3. calls'[c].pc = "idle" /\ \A d \in Callers \ {c} : calls'[d] = calls[d]
      BY <1>2, <2>1, NoCallType DEF Hangup
    <3>4. ASSUME NEW d \in Callers PROVE PaidCall(d)'
      BY <1>2, <2>3, <3>2, <3>3, <3>4 DEF PaidCall, StatusChanged
    <3> QED
      BY <3>2, <3>4 DEF PaidInv, PaidQuoteMovedOrder
  <2> QED
    BY <2>4, <2>5
<1>10. ASSUME NEW c \in Callers, CommitCancel(c) PROVE PaidInv'
  <2> DEFINE k == calls[c].key
             q == [quotes[k] EXCEPT !.status = "CANCELLED"]
  <2>1. /\ k \in Keys /\ quotes[k] \in Quote
        /\ \A d \in Callers : calls[d].pc = "crediting" => calls[d].key # k
    BY <1>2, <1>10 DEF CommitCancel, CallIsChecked
  <2>2. q \in Quote /\ q.status = "CANCELLED"
    BY <2>1 DEF Quote
  <2>3. quotes' = [quotes EXCEPT ![k] = q] /\ Hangup(c) /\ order' = order
    BY <1>10 DEF CommitCancel
  <2> HIDE DEF q
  <2> QED
    BY <2>1, <2>2, <2>3, QuoteWritten
<1>11. ASSUME NEW c \in Callers, CommitCredit(c) PROVE PaidInv'
  <2> DEFINE k == calls[c].key
             q == [quotes[k] EXCEPT !.status = "PAID", !.due = FALSE]
  <2>1. /\ k \in Keys /\ quotes[k] \in Quote
        /\ calls[c].seen \in OrderStatus /\ (Past(calls[c].seen) => Past(order.status))
        /\ quotes[k].due /\ calls[c].pc = "crediting"
        /\ \A d \in Callers \ {c} : ~(calls[d].pc = "crediting" /\ calls[d].key = k)
    BY <1>2, <1>11 DEF CommitCredit, CallIsChecked, PaidCall, Call
  <2>2. q \in Quote /\ q.status = "PAID"
    BY <2>1 DEF Quote
  <2>3. quotes' = [quotes EXCEPT ![k] = q] /\ Hangup(c)
    BY <1>2, <1>11, <2>1 DEF CommitCredit
  <2> HIDE DEF q
  <2>4. Past(order'.status)
    <3>1. CASE Past(calls[c].seen)
      BY <1>11, <2>1, <3>1 DEF CommitCredit, Advanced, Past
    <3>2. CASE ~Past(calls[c].seen)
      <4>1. order' = [order EXCEPT !.status = "PAID"]
        BY <1>11, <3>2 DEF CommitCredit, Advanced, Past
      <4>2. order'.status = "PAID"
        BY <4>1 DEF OrderTypeOK
      <4> QED
        BY <4>2, PastIsKept DEF OrderStatus
    <3> QED
      BY <3>1, <3>2
  <2>5. \A d \in Callers : calls[d].pc # "sending"
    BY <2>1 DEF OffersStandAlone
  <2> QED
    <3>1. \A d \in Callers \ {c} : calls[d].pc = "crediting" /\ calls[d].key = k => q.due
      BY <2>1
    <3>2. Past(order.status) => Past(order'.status)
      BY <2>4
    <3>3. q.status = "PAID" => /\ Past(order'.status)
                               /\ \A d \in Callers : calls[d].pc # "sending"
      BY <2>4, <2>5
    <3>4. k \in Keys /\ quotes' = [quotes EXCEPT ![k] = q] /\ Hangup(c) /\ q \in Quote
      BY <2>1, <2>2, <2>3
    <3> QED
      BY <3>1, <3>2, <3>3, <3>4, QuoteWritten
<1>12. ASSUME NEW c \in Callers, NEW next \in OrderStatus, NEW heir \in Owner,
              BeginMove(c, next, heir)
       PROVE  PaidInv'
  <2> DEFINE changes == {f \in {"status", "owner"} :
                           IF f = "status" THEN next # order.status ELSE heir # order.owner}
             pc == IF "status" \in changes /\ next \in {"APPROVED", "COMPLETED"}
                   THEN "gating" ELSE "moving"
  <2>1. PICK sends \in SUBSET {"status", "owner"} :
          /\ changes = sends
          /\ calls' = [calls EXCEPT ![c] =
               [NoCall EXCEPT !.pc = pc, !.seen = order.status, !.next = next,
                              !.owner = order.owner, !.heir = heir, !.sends = sends]]
    BY <1>12 DEF BeginMove, ByTheTable
  <2> DEFINE call == [NoCall EXCEPT !.pc = pc, !.seen = order.status, !.next = next,
                                    !.owner = order.owner, !.heir = heir, !.sends = sends]
  <2>2. "status" \in sends => next # order.status
    BY <2>1
  <2>3. pc \in {"gating", "moving"}
    OBVIOUS
  <2> HIDE DEF pc, changes
  <2>4. call.pc = pc /\ call.seen = order.status /\ call.next = next /\ call.sends = sends
    BY DEF NoCall
  <2>5. calls' = [calls EXCEPT ![c] = call] /\ UNCHANGED <<order, quotes>>
    BY <1>12, <2>1 DEF BeginMove
  <2> HIDE DEF call
  <2>6. PaidCall(c)'
    BY <1>2, <2>2, <2>3, <2>4, <2>5 DEF PaidCall, StatusChanged
  <2> QED
    BY <2>3, <2>4, <2>5, <2>6, ClaimsStand
<1>13. ASSUME NEW c \in Callers, GateMove(c) PROVE PaidInv'
  <2>1. CASE Hangup(c)
    BY <1>13, <2>1, HangupKeeps DEF GateMove
  <2>2. CASE ~Hangup(c)
    <3> DEFINE call == [calls[c] EXCEPT !.pc = "moving"]
    <3>1. call.pc = "moving" /\ call.seen = calls[c].seen /\ call.next = calls[c].next
          /\ call.sends = calls[c].sends
      BY <1>2 DEF Call
    <3>2. calls' = [calls EXCEPT ![c] = call] /\ UNCHANGED <<order, quotes>>
          /\ calls[c].pc = "gating"
      BY <1>2, <1>13, <2>2 DEF GateMove
    <3> HIDE DEF call
    <3>3. PaidCall(c)'
      BY <1>2, <3>1, <3>2 DEF PaidCall, StatusChanged
    <3> QED
      BY <3>1, <3>2, <3>3, ClaimsStand
  <2> QED
    BY <2>1, <2>2
<1>14. ASSUME NEW c \in Callers, CommitMove(c) PROVE PaidInv'
  <2>1. calls[c].pc = "moving" /\ Hangup(c) /\ quotes' = quotes
    BY <1>14 DEF CommitMove
  <2>2. CASE order'.status = order.status
    BY <2>1, <2>2, HangupKeeps
  <2>3. CASE order'.status # order.status
    <3>1. order' = Moved(c) /\ (StatusChanged(c) => order.status = calls[c].seen)
      BY <1>14, <2>3 DEF CommitMove
    <3>2. "status" \in calls[c].sends /\ order'.status = calls[c].next
      BY <2>3, <3>1 DEF Moved
    <3>3. StatusChanged(c)
      BY <1>2, <2>1, <3>2 DEF PaidCall
    <3>4. <<order.status, order'.status>> \in Transitions
      BY <1>2, <2>1, <3>1, <3>2, <3>3 DEF CallIsChecked, Allowed, ByTheTable
    <3>5. Past(order.status) => Past(order'.status)
      BY <3>4, PastIsKept
    <3>6. calls'[c].pc = "idle" /\ \A d \in Callers \ {c} : calls'[d] = calls[d]
      BY <1>2, <2>1, NoCallType DEF Hangup
    <3>7. ASSUME NEW d \in Callers PROVE PaidCall(d)'
      <4>1. CASE d = c
        BY <3>6, <4>1, NoClaims
      <4>2. CASE d # c
        <5>1. calls'[d] = calls[d] /\ PaidCall(d) /\ calls'[c].pc # "crediting"
          BY <1>2, <3>6, <4>2
        <5>2. ASSUME calls[d].pc = "crediting"
              PROVE  /\ quotes'[calls[d].key].due
                     /\ \A e \in Callers \ {d} : calls'[e].pc = "crediting" =>
                                                   calls'[e].key # calls[d].key
          BY <2>1, <3>6, <5>1, <5>2 DEF PaidCall
        <5> QED
          BY <2>1, <3>5, <5>1, <5>2, OthersClaims
      <4> QED
        BY <4>1, <4>2
    <3> QED
      BY <2>1, <3>5, <3>7 DEF PaidInv, PaidQuoteMovedOrder, Past
  <2> QED
    BY <2>2, <2>3
<1>15. ASSUME NEW c \in Callers, TalkStep(c) PROVE PaidInv'
  <2>1. PICK call : calls' = [calls EXCEPT ![c] = call]
                    /\ call.pc \in {"locating", "creating", "replying", "idle"}
    <3>1. ASSUME Hangup(c) PROVE \E call : calls' = [calls EXCEPT ![c] = call] /\ call.pc = "idle"
      BY <3>1, NoCallType DEF Hangup
    <3>2. ASSUME Located(c), ~Hangup(c)
          PROVE  \E call : calls' = [calls EXCEPT ![c] = call] /\ call.pc = "replying"
      <4> DEFINE call == [calls[c] EXCEPT !.pc = "replying", !.holder = thread'.owner]
      <4>1. calls' = [calls EXCEPT ![c] = call]
        BY <1>2, <3>2 DEF Located
      <4>2. call.pc = "replying"
        BY <1>2 DEF Call
      <4> QED
        BY <4>1, <4>2
    <3>3. CASE \E who \in Staff \cup {Customer}, posts \in BOOLEAN : BeginTalk(c, who, posts)
      <4>1. PICK who \in Staff \cup {Customer}, posts \in BOOLEAN : BeginTalk(c, who, posts)
        BY <3>3
      <4> DEFINE call == [NoCall EXCEPT !.pc = "locating", !.owner = order.owner,
                                        !.actor = who, !.posts = posts]
      <4>2. call.pc = "locating"
        BY DEF NoCall
      <4> QED
        BY <4>1, <4>2 DEF BeginTalk
    <3>4. CASE LocateThread(c) /\ ~thread.exists
      <4> DEFINE call == [calls[c] EXCEPT !.pc = "creating"]
      <4>1. calls' = [calls EXCEPT ![c] = call] /\ call.pc = "creating"
        BY <1>2, <3>4 DEF LocateThread, Call
      <4> QED
        BY <4>1
    <3>5. CASE LocateThread(c) /\ thread.exists
      BY <3>1, <3>2, <3>5 DEF LocateThread
    <3>6. CASE CreateThread(c)
      BY <3>1, <3>2, <3>6 DEF CreateThread
    <3>7. CASE CommitReply(c)
      BY <3>1, <3>7 DEF CommitReply
    <3> QED
      BY <1>15, <3>3, <3>4, <3>5, <3>6, <3>7 DEF TalkStep
  <2>2. quotes' = quotes /\ order'.status = order.status
    BY <1>15 DEF TalkStep, LocateThread, CreateThread, CommitReply, BeginTalk, OrderTypeOK
  <2> QED
    BY <2>1, <2>2, NothingClaimed
<1>16. ASSUME NEW c \in Callers, QuoteStep(c) \/ MoveStep(c) PROVE PaidInv'
  BY <1>4, <1>5, <1>6, <1>7, <1>8, <1>9, <1>10, <1>11, <1>12, <1>13, <1>14, <1>16
     DEF QuoteStep, MoveStep
<1>17. CASE UNCHANGED vars
  BY <1>1, <1>17 DEF vars, orderVars
<1> QED
  BY <1>1, <1>3, <1>15, <1>16, <1>17 DEF Next, OrderNext

\* There is no quote at first.
LEMMA PaidInitHolds == Init => PaidInv
<1> SUFFICES ASSUME Init PROVE PaidInv
  OBVIOUS
<1>1. \A c \in Callers : calls[c].pc = "idle"
  BY NoCallType DEF Init
<1>2. \A k \in Keys : quotes[k].status = "NONE" /\ ~quotes[k].due
  BY DEF Init
<1> QED
  BY <1>1, <1>2 DEF PaidInv, PaidCall, PaidQuoteMovedOrder

(***************************************************************************)
(* With no admin about and no field sent again, the order of a paid quote  *)
(* is past "PAID", for any number of quotes and of concurrent requests,    *)
(* withdrawals and credits, as long as no quote is sent while one is due.  *)
(***************************************************************************)
THEOREM PaymentsMoveTheirOrder ==
  ASSUME ByTheTable
  PROVE  Spec /\ []OffersStandAlone => []PaidQuoteMovedOrder
<1>1. OrderInv /\ OffersStandAlone /\ PaidInv /\ [Next]_vars => PaidInv'
  BY PaidStepHolds
<1>2. PaidInv => PaidQuoteMovedOrder
  BY DEF PaidInv
<1> QED
  BY <1>1, <1>2, PaidInitHolds, OrderInvariant, PTL DEF Spec

(***************************************************************************)
(* Of one quote, nothing else can be due.                                  *)
(***************************************************************************)

\* At most one quote.
OneQuote == \A k, l \in Keys : k = l

\* A quote being sent is not there yet, and one request sends it; one being
\* withdrawn or credited is there.
OfferCall(c) ==
  LET q == calls[c] IN
  /\ q.pc = "sending" =>
       /\ quotes[q.key].status = "NONE"
       /\ \A d \in Callers : calls[d].pc = "sending" /\ calls[d].key = q.key => d = c
  /\ q.pc \in {"cancelling", "crediting"} => quotes[q.key].status # "NONE"

OfferInv ==
  /\ \A k \in Keys : quotes[k].due => quotes[k].status # "NONE"
  /\ \A c \in Callers : OfferCall(c)

\* A request c moves on, and writes no quote.
LEMMA OffersStay ==
  ASSUME OrderInv, OfferInv, NEW c \in Callers, quotes' = quotes,
         \A d \in Callers \ {c} : calls'[d] = calls[d],
         calls'[c].pc \in {"cancelling", "crediting"} => quotes[calls'[c].key].status # "NONE",
         calls'[c].pc = "sending" =>
           /\ quotes[calls'[c].key].status = "NONE"
           /\ \A d \in Callers : calls[d].pc = "sending" => calls[d].key # calls'[c].key
  PROVE  OfferInv'
BY DEF OfferInv, OfferCall

\* A quote that was there, or that c sends, is written, and c ends.
LEMMA OfferWritten ==
  ASSUME OrderInv, OfferInv, NEW c \in Callers, Hangup(c), NEW k \in Keys, NEW q \in Quote,
         quotes' = [quotes EXCEPT ![k] = q], q.status # "NONE",
         quotes[k].status # "NONE" \/ (calls[c].pc = "sending" /\ calls[c].key = k)
  PROVE  OfferInv'
<1>1. /\ calls'[c].pc = "idle" /\ \A d \in Callers \ {c} : calls'[d] = calls[d]
      /\ quotes'[k] = q /\ \A l \in Keys \ {k} : quotes'[l] = quotes[l]
  BY NoCallType DEF Hangup, OrderInv, OrderTypeOK
<1>2. ASSUME NEW d \in Callers PROVE OfferCall(d)'
  <2>1. CASE d = c
    BY <1>1, <2>1 DEF OfferCall
  <2>2. CASE d # c
    <3>1. calls'[d] = calls[d] /\ OfferCall(d) /\ OfferCall(c)
      BY <1>1, <2>2 DEF OfferInv
    <3>2. calls[d].pc \in {"sending", "cancelling", "crediting"} => calls[d].key \in Keys
      BY DEF OrderInv, CallIsChecked
    <3>3. ASSUME calls[d].pc = "sending" PROVE calls[d].key # k
      BY <2>2, <3>1, <3>3 DEF OfferCall
    <3>4. ASSUME calls[d].pc = "sending", NEW e \in Callers, calls'[e].pc = "sending",
                 calls'[e].key = calls[d].key
          PROVE  e = d
      BY <1>1, <3>1, <3>4 DEF OfferCall
    <3> QED
      BY <1>1, <3>1, <3>2, <3>3, <3>4 DEF OfferCall
  <2> QED
    BY <2>1, <2>2
<1> QED
  BY <1>1, <1>2 DEF OfferInv

\* Moves and messages have no business with quotes.
LEMMA OffersUntouched ==
  ASSUME OrderInv, NEW c \in Callers, MoveStep(c) \/ TalkStep(c)
  PROVE  /\ quotes' = quotes /\ \A d \in Callers \ {c} : calls'[d] = calls[d]
         /\ calls'[c].pc \notin {"sending", "cancelling", "crediting"}
<1>1. calls \in [Callers -> Call] /\ calls[c] \in Call
  BY DEF OrderInv, OrderTypeOK
<1>2. ASSUME Hangup(c)
      PROVE  calls'[c].pc = "idle" /\ \A d \in Callers \ {c} : calls'[d] = calls[d]
  BY <1>1, <1>2, NoCallType DEF Hangup
<1>3. quotes' = quotes
  BY DEF MoveStep, GateMove, CommitMove, BeginMove,
         TalkStep, LocateThread, CreateThread, CommitReply, BeginTalk
<1>4. ASSUME NEW call, calls' = [calls EXCEPT ![c] = call],
             call.pc \notin {"sending", "cancelling", "crediting"}
      PROVE  /\ \A d \in Callers \ {c} : calls'[d] = calls[d]
             /\ calls'[c].pc \notin {"sending", "cancelling", "crediting"}
  BY <1>1, <1>4
<1>5. ASSUME NEW pc \in {"moving", "creating"}, calls' = [calls EXCEPT ![c].pc = pc]
      PROVE  /\ \A d \in Callers \ {c} : calls'[d] = calls[d]
             /\ calls'[c].pc \notin {"sending", "cancelling", "crediting"}
  BY <1>1, <1>5 DEF Call
<1>6. ASSUME NEW next \in OrderStatus, NEW heir \in Owner, BeginMove(c, next, heir)
      PROVE  \E call : /\ calls' = [calls EXCEPT ![c] = call]
                       /\ call.pc \in {"gating", "moving"}
  <2> DEFINE changes == {f \in {"status", "owner"} :
                           IF f = "status" THEN next # order.status ELSE heir # order.owner}
             pc == IF "status" \in changes /\ next \in {"APPROVED", "COMPLETED"}
                   THEN "gating" ELSE "moving"
  <2>1. PICK sends \in SUBSET {"status", "owner"} :
          calls' = [calls EXCEPT ![c] =
            [NoCall EXCEPT !.pc = pc, !.seen = order.status, !.next = next,
                           !.owner = order.owner, !.heir = heir, !.sends = sends]]
    BY <1>6 DEF BeginMove
  <2>2. pc \in {"gating", "moving"}
    OBVIOUS
  <2> HIDE DEF pc, changes
  <2> DEFINE call == [NoCall EXCEPT !.pc = pc, !.seen = order.status, !.next = next,
                                    !.owner = order.owner, !.heir = heir, !.sends = sends]
  <2>3. call.pc = pc
    BY DEF NoCall
  <2> QED
    BY <2>1, <2>2, <2>3
<1>7. CASE MoveStep(c)
  BY <1>2, <1>3, <1>4, <1>5, <1>6, <1>7 DEF MoveStep, GateMove, CommitMove
<1>8. ASSUME NEW who \in Staff \cup {Customer}, NEW posts \in BOOLEAN,
             BeginTalk(c, who, posts)
      PROVE  \E call : calls' = [calls EXCEPT ![c] = call] /\ call.pc = "locating"
  <2> DEFINE call == [NoCall EXCEPT !.pc = "locating", !.owner = order.owner,
                                    !.actor = who, !.posts = posts]
  <2>1. call.pc = "locating"
    BY DEF NoCall
  <2> QED
    BY <1>8, <2>1 DEF BeginTalk
<1>9. ASSUME Located(c)
      PROVE  /\ \A d \in Callers \ {c} : calls'[d] = calls[d]
             /\ calls'[c].pc \notin {"sending", "cancelling", "crediting"}
  BY <1>1, <1>2, <1>9 DEF Located, Call
<1>10. CASE TalkStep(c)
  BY <1>2, <1>3, <1>4, <1>5, <1>8, <1>9, <1>10
     DEF TalkStep, LocateThread, CreateThread, CommitReply
<1> QED
  BY <1>7, <1>10

\* Every step keeps what requests know of the quotes they send, withdraw or credit.
LEMMA OfferStepHolds ==
  ASSUME OrderInv, OfferInv, [Next]_vars
  PROVE  OfferInv'
<1> USE DEF OrderInv
<1>1. CASE UNCHANGED orderVars
  BY <1>1 DEF orderVars, OfferInv, OfferCall
<1>2. /\ calls \in [Callers -> Call] /\ quotes \in [Keys -> Quote]
      /\ \A c \in Callers : calls[c] \in Call /\ CallIsChecked(c) /\ OfferCall(c)
  BY DEF OrderTypeOK, OfferInv
<1>3. ASSUME NEW c \in Callers, Hangup(c), quotes' = quotes PROVE OfferInv'
  BY <1>2, <1>3, NoCallType, OffersStay DEF Hangup
<1>4. ASSUME NEW k \in Keys, OpenPayment(k) \/ Lapse(k) PROVE OfferInv'
  <2>1. /\ calls' = calls /\ quotes[k].status = "PENDING"
        /\ \A l \in Keys : quotes'[l].status = quotes[l].status
                           /\ (l # k => quotes'[l] = quotes[l])
    BY <1>2, <1>4 DEF OpenPayment, Lapse, Live, Quote
  <2>2. ASSUME NEW c \in Callers, calls[c].pc \in {"sending", "cancelling", "crediting"}
        PROVE  quotes'[calls[c].key].status = quotes[calls[c].key].status
    BY <1>2, <2>1, <2>2 DEF CallIsChecked
  <2> QED
    BY <2>1, <2>2 DEF OfferInv, OfferCall
<1>5. ASSUME NEW c \in Callers, NEW k \in Keys,
             BeginQuote(c, k) \/ BeginCancel(c, k) \/ BeginCredit(c, k)
      PROVE  OfferInv'
  <2>1. \A d \in Callers \ {c} : calls'[d] = calls[d]
    BY <1>2, <1>5 DEF BeginQuote, BeginCancel, BeginCredit
  <2>2. /\ quotes' = quotes /\ calls'[c].key = k
        /\ \/ calls'[c].pc = "outstanding"
           \/ calls'[c].pc \in {"cancelling", "crediting"} /\ quotes[k].status # "NONE"
    <3>1. CASE BeginQuote(c, k)
      BY <1>2, <3>1 DEF BeginQuote, NoCall
    <3>2. CASE BeginCancel(c, k)
      BY <1>2, <3>2 DEF BeginCancel, NoCall
    <3>3. CASE BeginCredit(c, k)
      BY <1>2, <3>3 DEF BeginCredit, NoCall, OfferInv
    <3> QED
      BY <1>5, <3>1, <3>2, <3>3
  <2> QED
    BY <2>1, <2>2, OffersStay
<1>6. ASSUME NEW c \in Callers, CheckOutstanding(c) PROVE OfferInv'
  <2>1. CASE Hangup(c)
    BY <1>3, <1>6, <2>1 DEF CheckOutstanding
  <2>2. CASE calls' = [calls EXCEPT ![c].pc = "pricing"]
    <3>1. calls'[c].pc = "pricing" /\ \A d \in Callers \ {c} : calls'[d] = calls[d]
      BY <1>2, <2>2 DEF Call
    <3> QED
      BY <1>6, <3>1, OffersStay DEF CheckOutstanding
  <2> QED
    BY <1>6, <2>1, <2>2 DEF CheckOutstanding
<1>7. ASSUME NEW c \in Callers, PriceQuote(c) PROVE OfferInv'
  <2>1. CASE Hangup(c)
    BY <1>3, <1>7, <2>1 DEF PriceQuote
  <2>2. CASE ~Hangup(c)
    <3>1. /\ quotes' = quotes /\ quotes[calls[c].key].status = "NONE"
          /\ \A d \in Callers : calls[d].pc = "sending" => calls[d].key # calls[c].key
          /\ calls' = [calls EXCEPT ![c].pc = "sending", ![c].seen = order.status]
      BY <1>7, <2>2 DEF PriceQuote
    <3>2. calls'[c].pc = "sending" /\ calls'[c].key = calls[c].key
          /\ \A d \in Callers \ {c} : calls'[d] = calls[d]
      BY <1>2, <3>1 DEF Call
    <3> QED
      BY <3>1, <3>2, OffersStay
  <2> QED
    BY <2>1, <2>2
<1>8. ASSUME NEW c \in Callers, SendQuote(c) PROVE OfferInv'
  <2> DEFINE sent == [status |-> "PENDING", live |-> TRUE, due |-> FALSE]
  <2>1. /\ calls[c].pc = "sending" /\ calls[c].key \in Keys /\ Hangup(c)
        /\ quotes' = [quotes EXCEPT ![calls[c].key] = sent]
    BY <1>2, <1>8 DEF SendQuote, CallIsChecked
  <2>2. sent \in Quote /\ sent.status # "NONE"
    BY DEF Quote
  <2> HIDE DEF sent
  <2> QED
    BY <2>1, <2>2, OfferWritten
<1>9. ASSUME NEW c \in Callers, CommitCancel(c) \/ CommitCredit(c) PROVE OfferInv'
  <2>1. /\ calls[c].key \in Keys /\ quotes[calls[c].key] \in Quote /\ Hangup(c)
        /\ quotes[calls[c].key].status # "NONE"
    BY <1>2, <1>9 DEF CommitCancel, CommitCredit, CallIsChecked, OfferCall
  <2>2. \E q \in Quote : q.status # "NONE" /\ quotes' = [quotes EXCEPT ![calls[c].key] = q]
    <3>1. CASE CommitCancel(c)
      <4> DEFINE q == [quotes[calls[c].key] EXCEPT !.status = "CANCELLED"]
      <4>1. q \in Quote /\ q.status # "NONE"
        BY <2>1 DEF Quote
      <4> QED
        BY <3>1, <4>1 DEF CommitCancel
    <3>2. CASE CommitCredit(c)
      <4> DEFINE q == [quotes[calls[c].key] EXCEPT !.status = "PAID", !.due = FALSE]
      <4>1. q \in Quote /\ q.status # "NONE"
        BY <2>1 DEF Quote
      <4>2. quotes' = [quotes EXCEPT ![calls[c].key] = q]
        BY <1>2, <2>1, <3>2 DEF CommitCredit
      <4> QED
        BY <4>1, <4>2
    <3> QED
      BY <1>9, <3>1, <3>2
  <2> QED
    BY <2>1, <2>2, OfferWritten
<1>10. ASSUME NEW c \in Callers, MoveStep(c) \/ TalkStep(c) PROVE OfferInv'
  BY <1>10, OffersUntouched, OffersStay
<1>11. ASSUME NEW c \in Callers, QuoteStep(c) PROVE OfferInv'
  BY <1>5, <1>6, <1>7, <1>8, <1>9, <1>11 DEF QuoteStep
<1>12. CASE UNCHANGED vars
  BY <1>1, <1>12 DEF vars, orderVars
<1> QED
  BY <1>1, <1>4, <1>10, <1>11, <1>12 DEF Next, OrderNext

\* Sent, withdrawn and credited quotes are what requests take them for.
LEMMA OffersHold == Spec => []OfferInv
<1>1. Init => OfferInv
  <2> SUFFICES ASSUME Init PROVE OfferInv
    OBVIOUS
  <2>1. \A c \in Callers : calls[c].pc = "idle"
    BY NoCallType DEF Init
  <2>2. \A k \in Keys : ~quotes[k].due
    BY DEF Init
  <2> QED
    BY <2>1, <2>2 DEF OfferInv, OfferCall
<1> QED
  BY <1>1, OfferStepHolds, OrderInvariant, PTL DEF Spec

(***************************************************************************)
(* Of an order with one quote, nothing is due while it is sent, so that    *)
(* its payment moves the order whatever else happens.                      *)
(***************************************************************************)
THEOREM PaymentMovesItsOrder ==
  ASSUME OneQuote, ByTheTable
  PROVE  Spec => []PaidQuoteMovedOrder
<1>1. OrderInv /\ OfferInv => OffersStandAlone
  BY DEF OrderInv, CallIsChecked, OfferInv, OfferCall, OneQuote, OffersStandAlone
<1> QED
  BY <1>1, OrderInvariant, OffersHold, PaymentsMoveTheirOrder, PTL
=============================================================================
