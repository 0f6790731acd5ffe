------------------------------ MODULE Delivery ------------------------------
(***************************************************************************)
(* The lines of one order and the records they deliver: getItemResult,     *)
(* saveResult, updateOrderItemStatus and updateResultStatus of             *)
(* backend/src/modules/admin/delivery/delivery.service.ts.                 *)
(*                                                                         *)
(* A job is one staff request.  Each step of a job is one round trip to    *)
(* the database; the statements of a transaction that hold row locks are   *)
(* steps of their own.                                                     *)
(***************************************************************************)
EXTENDS Naturals, FiniteSets

CONSTANTS
  Items,      \* the order's lines
  Returning,  \* the lines whose service has a result schema
  Fields,     \* the fields of that schema
  Required,   \* those a delivery must fill
  Primary,    \* the field a record is titled by
  Vals,       \* values of a field
  Blank,      \* no row for the field
  Keep,       \* a field the form did not send
  NoItem,
  Jobs        \* bound: the staff requests

ASSUME DeliveryAssumption ==
  /\ Returning \subseteq Items
  /\ Required \subseteq Fields
  /\ Primary \in Fields
  /\ NoItem \notin Items
  /\ Blank \notin Vals /\ Keep \notin Vals /\ Blank # Keep

VARIABLES
  items,   \* OrderItem.status of every line
  records, \* the ServiceResult of every line, with its values
  jobs     \* the staff requests

deliveryVars == <<items, records, jobs>>

ItemStatus == {"PENDING", "IN_PROGRESS", "COMPLETED"}
RecordStatus == {"NONE", "DRAFT", "ACTIVE", "ARCHIVED"}

\* The title is the primary value, or Blank for the service's name.
\* `deliveries` counts the times deliveredAt was stamped.
Record ==
  [status : RecordStatus, values : [Fields -> Vals \cup {Blank}],
   title : Vals \cup {Blank}, deliveries : Nat]

NoRecord ==
  [status |-> "NONE", values |-> [f \in Fields |-> Blank], title |-> Blank,
   deliveries |-> 0]

\* What a form may send for a field.
Changes == [Fields -> Vals \cup {Blank, Keep}]
NoChanges == [f \in Fields |-> Keep]

Job ==
  [pc : {"new", "opening", "ready", "written", "done", "conflict"},
   item : Items \cup {NoItem}, deliver : BOOLEAN, changes : Changes,
   seen : RecordStatus, title : Vals \cup {Blank}]

NewJob ==
  [pc |-> "new", item |-> NoItem, deliver |-> FALSE, changes |-> NoChanges,
   seen |-> "NONE", title |-> Blank]

Apply(values, changes) ==
  [f \in Fields |-> IF changes[f] = Keep THEN values[f] ELSE changes[f]]

Missing(values) == {f \in Required : values[f] = Blank}

Finish(j, pc) == jobs' = [jobs EXCEPT ![j] = [NewJob EXCEPT !.pc = pc]]

-----------------------------------------------------------------------------
(* getItemResult *)

\* A record that exists is shown; without one the form creates it.
OpenForm(j, i) ==
  /\ jobs[j].pc = "new"
  /\ i \in Returning
  /\ records[i].status = "NONE"
  /\ jobs' = [jobs EXCEPT ![j] = [NewJob EXCEPT !.pc = "opening", !.item = i]]
  /\ UNCHANGED <<items, records>>

\* orderItemId is unique, and createWithUniqueReference takes every P2002 for
\* a reference that collided: it tries again, five times, and answers 409.
CreateRecord(j) ==
  LET i == jobs[j].item IN
  /\ jobs[j].pc = "opening"
  /\ IF records[i].status = "NONE"
     THEN /\ records' = [records EXCEPT ![i].status = "DRAFT"]
          /\ Finish(j, "done")
     ELSE /\ Finish(j, "conflict")
          /\ UNCHANGED records
  /\ UNCHANGED items

-----------------------------------------------------------------------------
(* saveResult *)

\* The row, its values and the gate, all before the transaction.  A save that
\* is refused writes nothing.
LoadSave(j, i, changes, deliver) ==
  /\ jobs[j].pc = "new"
  /\ i \in Returning
  /\ records[i].status # "NONE"
  /\ deliver => Missing(Apply(records[i].values, changes)) = {}
  /\ jobs' = [jobs EXCEPT ![j] =
       [NewJob EXCEPT !.pc = "ready", !.item = i, !.deliver = deliver,
                      !.changes = changes, !.seen = records[i].status]]
  /\ UNCHANGED <<items, records>>

\* A clear of a row that is not there deletes nothing, and locks nothing.
Effective(changes, values) ==
  [f \in Fields |->
     IF changes[f] = Blank /\ values[f] = Blank THEN Keep ELSE changes[f]]

Locked(f, i) ==
  \E k \in Jobs : jobs[k].pc = "written" /\ jobs[k].item = i /\ jobs[k].changes[f] # Keep

\* The upserts and deletes, each of which waits for the row's lock, and then
\* the title, from the rows this transaction sees.
WriteValues(j) ==
  LET i == jobs[j].item
      writes == Effective(jobs[j].changes, records[i].values)
  IN
  /\ jobs[j].pc = "ready"
  /\ \A f \in Fields : writes[f] # Keep => ~Locked(f, i)
  /\ jobs' = [jobs EXCEPT ![j].pc = "written", ![j].changes = writes,
                          ![j].title = Apply(records[i].values, writes)[Primary]]
  /\ UNCHANGED <<items, records>>

\* The record and, when it is delivered, its line; deliveredAt is stamped
\* unless the row read before the transaction was ACTIVE.
CommitSave(j) ==
  LET i == jobs[j].item
      rec == records[i]
      becomingActive == jobs[j].deliver /\ jobs[j].seen # "ACTIVE"
  IN
  /\ jobs[j].pc = "written"
  /\ records' = [records EXCEPT ![i] =
       [status |-> IF jobs[j].deliver THEN "ACTIVE" ELSE rec.status,
        values |-> Apply(rec.values, jobs[j].changes),
        title |-> jobs[j].title,
        deliveries |-> IF becomingActive THEN rec.deliveries + 1 ELSE rec.deliveries]]
  /\ items' = IF jobs[j].deliver THEN [items EXCEPT ![i] = "COMPLETED"] ELSE items
  /\ Finish(j, "done")

-----------------------------------------------------------------------------
(* updateOrderItemStatus and updateResultStatus *)

\* Mutant: a line may be marked done whatever it returns.
CompleteAnyItem(j, i, next) ==
  /\ jobs[j].pc = "new"
  /\ items' = [items EXCEPT ![i] = next]
  /\ Finish(j, "done")
  /\ UNCHANGED records

\* A line that returns something is completed by its record alone.  The write
\* is unconditional, whatever the order's status.
UpdateOrderItemStatus(j, i, next) ==
  /\ jobs[j].pc = "new"
  /\ ~(next = "COMPLETED" /\ i \in Returning)
  /\ items' = [items EXCEPT ![i] = next]
  /\ Finish(j, "done")
  /\ UNCHANGED records

\* Mutant: a draft may be activated.
UpdateAnyResultStatus(j, i, next) ==
  /\ jobs[j].pc = "new"
  /\ i \in Returning
  /\ records[i].status # "NONE"
  /\ records' = [records EXCEPT ![i].status = next]
  /\ Finish(j, "done")
  /\ UNCHANGED items

\* The check and the write are two round trips; no record returns to DRAFT in
\* between, so they are one step here.
UpdateResultStatus(j, i, next) ==
  /\ jobs[j].pc = "new"
  /\ i \in Returning
  /\ records[i].status \notin {"NONE", "DRAFT"}
  /\ records' = [records EXCEPT ![i].status = next]
  /\ Finish(j, "done")
  /\ UNCHANGED items

-----------------------------------------------------------------------------
DeliveryInit ==
  /\ items = [i \in Items |-> "PENDING"]
  /\ records = [i \in Items |-> NoRecord]
  /\ jobs = [j \in Jobs |-> NewJob]

DeliveryStep(j) ==
  \/ CreateRecord(j)
  \/ WriteValues(j)
  \/ CommitSave(j)
  \/ \E i \in Items :
       \/ OpenForm(j, i)
       \/ \E changes \in Changes, deliver \in BOOLEAN : LoadSave(j, i, changes, deliver)
       \/ \E next \in ItemStatus : UpdateOrderItemStatus(j, i, next)
       \/ \E next \in {"ACTIVE", "ARCHIVED"} : UpdateResultStatus(j, i, next)

DeliveryNext == \E j \in Jobs : DeliveryStep(j)

DeliverySpec == DeliveryInit /\ [][DeliveryNext]_deliveryVars

-----------------------------------------------------------------------------
(* Properties *)

\* Rows, values and requests have the types of their columns.
DeliveryTypeOK ==
  /\ items \in [Items -> ItemStatus]
  /\ records \in [Items -> Record]
  /\ jobs \in [Jobs -> Job]

\* A line marked complete that promised a record has one the customer can see:
\* delivering and completing are one transaction, no other path completes such
\* a line, and no path takes a record back to a draft.
CompletedShowsRecord ==
  \A i \in Returning :
    items[i] = "COMPLETED" => records[i].status \in {"ACTIVE", "ARCHIVED"}

\* A record the customer can see says when it was delivered, whichever of two
\* overlapping saves delivered it.
ShownIsDated ==
  \A i \in Items : records[i].status \in {"ACTIVE", "ARCHIVED"} => records[i].deliveries > 0

\* What a request in flight knows of its record: it is there to be saved, and a
\* save that saw it delivered saw it dated.
SavesSeeTheirRecord ==
  \A j \in Jobs :
    /\ jobs[j].pc \in {"opening", "ready", "written"} => jobs[j].item \in Returning
    /\ jobs[j].pc \in {"ready", "written"} => records[jobs[j].item].status # "NONE"
    /\ jobs[j].pc \in {"ready", "written"} /\ jobs[j].seen = "ACTIVE" =>
         records[jobs[j].item].deliveries > 0

\* The inductive invariant.
DeliveryInv ==
  /\ DeliveryTypeOK
  /\ CompletedShowsRecord
  /\ ShownIsDated
  /\ SavesSeeTheirRecord
=============================================================================
