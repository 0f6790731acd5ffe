------------------------------ MODULE Mailroom ------------------------------
(***************************************************************************)
(* Post received for a customer: the operator's side,                      *)
(* backend/src/modules/admin/mailroom/mailroom.service.ts, and the         *)
(* customer's, backend/src/modules/mailroom/mailroom.service.ts.           *)
(*                                                                         *)
(* An envelope is filed sealed or already open.  Its customer may ask for  *)
(* it to be opened, forwarded or shredded, and an operator works the       *)
(* request.  Each caller is one HTTP request at a time; what it reads and  *)
(* the transaction it writes in are separate steps.  Trashing rooms, items *)
(* and requests is in module Trash.                                        *)
(***************************************************************************)
EXTENDS Naturals

CONSTANTS
  Items,     \* bound: the envelopes
  Requests,  \* bound: MailRequest rows
  Callers,   \* concurrent requests, of the customer and of operators
  NoItem,
  NoRequest

ASSUME MailroomAssumption == NoItem \notin Items /\ NoRequest \notin Requests

VARIABLES
  items,     \* the MailItem table
  requests,  \* the MailRequest table
  logged,    \* MailActionLog: rows written for each request settled
  downloads, \* MailActionLog: DOWNLOADED rows of each item
  calls      \* what each caller has read and is about to write

vars == <<items, requests, logged, downloads, calls>>

ItemStatus == {"NEW", "VIEWED", "ACTION_REQUESTED", "FORWARDED", "ARCHIVED"}
Handled == {"FORWARDED", "ARCHIVED"}

\* `due` is responseDueAt set.
Item == [filed : BOOLEAN, status : ItemStatus, scanReady : BOOLEAN, due : BOOLEAN]

NotFiled ==
  [filed |-> FALSE, status |-> "NEW", scanReady |-> FALSE, due |-> FALSE]

RequestType == {"FORWARDING", "SHREDDING", "SCAN"}
Disposals == {"FORWARDING", "SHREDDING"}
RequestStatus == {"NONE", "PENDING", "PROCESSING", "COMPLETED"}
OpenStatuses == {"PENDING", "PROCESSING"}

Request ==
  [status : RequestStatus, type : RequestType, item : Items \cup {NoItem}]

NoRow == [status |-> "NONE", type |-> "SCAN", item |-> NoItem]

\* RESOLUTION_ITEM_STATUS
Resolution(type) == IF type = "FORWARDING" THEN "FORWARDED" ELSE "ARCHIVED"

\* What a call has in hand: for fileContents, `scans` are the open scan requests
\* it read.
Call ==
  [pc : {"idle", "viewing", "downloading", "checking", "asking", "filing",
         "processing", "resolving"},
   item : Items \cup {NoItem}, request : Requests \cup {NoRequest},
   type : RequestType, due : BOOLEAN, scans : SUBSET Requests]

NoCall ==
  [pc |-> "idle", item |-> NoItem, request |-> NoRequest, type |-> "SCAN",
   due |-> FALSE, scans |-> {}]

Open(r) == requests[r].status \in OpenStatuses

OpenFor(i) == {r \in Requests : Open(r) /\ requests[r].item = i}

Hangup(c) == calls' = [calls EXCEPT ![c] = NoCall]

-----------------------------------------------------------------------------
(* uploadScan, getItem and recordDownload *)

\* Post that wants an answer lands as ACTION_REQUESTED, other post as NEW.
UploadScan(i, sealed, due) ==
  /\ ~items[i].filed
  /\ items' = [items EXCEPT ![i] =
       [filed |-> TRUE, status |-> IF due THEN "ACTION_REQUESTED" ELSE "NEW",
        scanReady |-> ~sealed, due |-> due]]
  /\ UNCHANGED <<requests, logged, downloads, calls>>

\* The customer looks at an item that is unread.
BeginView(c, i) ==
  /\ calls[c].pc = "idle"
  /\ items[i].filed /\ items[i].status = "NEW"
  /\ calls' = [calls EXCEPT ![c] = [NoCall EXCEPT !.pc = "viewing", !.item = i]]
  /\ UNCHANGED <<items, requests, logged, downloads>>

\* It is read, if it is still unread.
MarkViewed(c) ==
  LET i == calls[c].item IN
  /\ calls[c].pc = "viewing"
  /\ items' = IF items[i].status = "NEW" THEN [items EXCEPT ![i].status = "VIEWED"]
              ELSE items
  /\ Hangup(c)
  /\ UNCHANGED <<requests, logged, downloads>>

\* The customer pulls the scan, and no row says so yet.
BeginDownload(c, i) ==
  /\ calls[c].pc = "idle"
  /\ items[i].filed /\ downloads[i] = 0
  /\ calls' = [calls EXCEPT ![c] = [NoCall EXCEPT !.pc = "downloading", !.item = i]]
  /\ UNCHANGED <<items, requests, logged, downloads>>

RecordDownload(c) ==
  /\ calls[c].pc = "downloading"
  /\ downloads' = [downloads EXCEPT ![calls[c].item] = @ + 1]
  /\ Hangup(c)
  /\ UNCHANGED <<items, requests, logged>>

-----------------------------------------------------------------------------
(* createRequest *)

\* The item is still here, and is not to be opened twice.
BeginRequest(c, i, type) ==
  /\ calls[c].pc = "idle"
  /\ items[i].filed /\ items[i].status \notin Handled
  /\ ~(type = "SCAN" /\ items[i].scanReady)
  /\ calls' = [calls EXCEPT ![c] =
       [NoCall EXCEPT !.pc = "checking", !.item = i, !.type = type]]
  /\ UNCHANGED <<items, requests, logged, downloads>>

\* One open request per item, or a 409.
CheckOpen(c) ==
  /\ calls[c].pc = "checking"
  /\ IF OpenFor(calls[c].item) # {}
     THEN Hangup(c)
     ELSE calls' = [calls EXCEPT ![c].pc = "asking"]
  /\ UNCHANGED <<items, requests, logged, downloads>>

Asked(c) == [status |-> "PENDING", type |-> calls[c].type, item |-> calls[c].item]

\* Mutant: any request takes the item out of circulation.
CreateMovingRequest(c) ==
  /\ calls[c].pc = "asking"
  /\ \E r \in Requests :
       /\ requests[r].status = "NONE"
       /\ requests' = [requests EXCEPT ![r] = Asked(c)]
  /\ items' = [items EXCEPT ![calls[c].item].status = "ACTION_REQUESTED"]
  /\ Hangup(c)
  /\ UNCHANGED <<logged, downloads>>

\* The request and, unless it asks to be shown the letter, the item's move: one
\* transaction, with what the two reads said no longer asked.
CreateRequest(c) ==
  /\ calls[c].pc = "asking"
  /\ \E r \in Requests :
       /\ requests[r].status = "NONE"
       /\ requests' = [requests EXCEPT ![r] = Asked(c)]
  /\ items' = IF calls[c].type = "SCAN" THEN items
              ELSE [items EXCEPT ![calls[c].item].status = "ACTION_REQUESTED"]
  /\ Hangup(c)
  /\ UNCHANGED <<logged, downloads>>

-----------------------------------------------------------------------------
(* fileContents *)

\* The item, sealed and still here, and the scan requests open on it.
BeginFiling(c, i, due) ==
  /\ calls[c].pc = "idle"
  /\ items[i].filed /\ ~items[i].scanReady /\ items[i].status \notin Handled
  /\ calls' = [calls EXCEPT ![c] =
       [NoCall EXCEPT !.pc = "filing", !.item = i, !.due = due,
                      !.scans = {r \in OpenFor(i) : requests[r].type = "SCAN"}]]
  /\ UNCHANGED <<items, requests, logged, downloads>>

\* The item as the contents leave it: unread, or to be answered.
Opened(c, item) ==
  [item EXCEPT !.status = IF calls[c].due THEN "ACTION_REQUESTED" ELSE "NEW",
               !.scanReady = TRUE,
               !.due = item.due \/ calls[c].due]

\* The scan requests it read are completed.
Closed(c) ==
  [r \in Requests |-> IF r \in calls[c].scans
                      THEN [requests[r] EXCEPT !.status = "COMPLETED"] ELSE requests[r]]

\* The item opens first, and only if it is still sealed: the pages' unique key
\* would refuse a second filing too.
FileContents(c) ==
  LET i == calls[c].item IN
  /\ calls[c].pc = "filing"
  /\ IF items[i].scanReady
     THEN UNCHANGED <<items, requests>>
     ELSE items' = [items EXCEPT ![i] = Opened(c, items[i])] /\ requests' = Closed(c)
  /\ Hangup(c)
  /\ UNCHANGED <<logged, downloads>>

-----------------------------------------------------------------------------
(* processRequest and resolveRequest *)

\* A completed request is refused and one in hand is left as it is.
BeginProcess(c, r) ==
  /\ calls[c].pc = "idle"
  /\ requests[r].status = "PENDING"
  /\ calls' = [calls EXCEPT ![c] = [NoCall EXCEPT !.pc = "processing", !.request = r]]
  /\ UNCHANGED <<items, requests, logged, downloads>>

ProcessRequest(c) ==
  /\ calls[c].pc = "processing"
  /\ requests' = [requests EXCEPT ![calls[c].request].status = "PROCESSING"]
  /\ Hangup(c)
  /\ UNCHANGED <<items, logged, downloads>>

\* Mutant: a scan request has a resolution form like the others.
BeginAnyResolve(c, r) ==
  /\ calls[c].pc = "idle"
  /\ Open(r)
  /\ calls' = [calls EXCEPT ![c] =
       [NoCall EXCEPT !.pc = "resolving", !.request = r, !.item = requests[r].item,
                      !.type = requests[r].type]]
  /\ UNCHANGED <<items, requests, logged, downloads>>

\* A scan request is not settled by the form.
BeginResolve(c, r) ==
  /\ calls[c].pc = "idle"
  /\ Open(r) /\ requests[r].type \in Disposals
  /\ calls' = [calls EXCEPT ![c] =
       [NoCall EXCEPT !.pc = "resolving", !.request = r, !.item = requests[r].item,
                      !.type = requests[r].type]]
  /\ UNCHANGED <<items, requests, logged, downloads>>

\* Mutant: an item that has left is logged already.
ResolveLoggingOnce(c) ==
  /\ calls[c].pc = "resolving"
  /\ requests' = [requests EXCEPT ![calls[c].request].status = "COMPLETED"]
  /\ items' = [items EXCEPT ![calls[c].item].status = Resolution(calls[c].type)]
  /\ logged' = IF items[calls[c].item].status \in Handled THEN logged
               ELSE [logged EXCEPT ![calls[c].request] = @ + 1]
  /\ Hangup(c)
  /\ UNCHANGED downloads

\* The request closes, the item leaves and the log says so, by id.
ResolveRequest(c) ==
  /\ calls[c].pc = "resolving"
  /\ requests' = [requests EXCEPT ![calls[c].request].status = "COMPLETED"]
  /\ items' = [items EXCEPT ![calls[c].item].status = Resolution(calls[c].type)]
  /\ logged' = [logged EXCEPT ![calls[c].request] = @ + 1]
  /\ Hangup(c)
  /\ UNCHANGED downloads

-----------------------------------------------------------------------------
Init ==
  /\ items = [i \in Items |-> NotFiled]
  /\ requests = [r \in Requests |-> NoRow]
  /\ logged = [r \in Requests |-> 0]
  /\ downloads = [i \in Items |-> 0]
  /\ calls = [c \in Callers |-> NoCall]

CustomerStep(c) ==
  \/ MarkViewed(c) \/ RecordDownload(c) \/ CheckOpen(c) \/ CreateRequest(c)
  \/ \E i \in Items : BeginView(c, i) \/ BeginDownload(c, i)
  \/ \E i \in Items, type \in RequestType : BeginRequest(c, i, type)

OperatorStep(c) ==
  \/ FileContents(c) \/ ProcessRequest(c) \/ ResolveRequest(c)
  \/ \E i \in Items, due \in BOOLEAN : BeginFiling(c, i, due)
  \/ \E r \in Requests : BeginProcess(c, r) \/ BeginResolve(c, r)

Next ==
  \/ \E i \in Items, sealed, due \in BOOLEAN : UploadScan(i, sealed, due)
  \/ \E c \in Callers : CustomerStep(c) \/ OperatorStep(c)

Spec == Init /\ [][Next]_vars

-----------------------------------------------------------------------------
(* Properties *)

\* Rows and calls have the types of their columns.
TypeOK ==
  /\ items \in [Items -> Item]
  /\ requests \in [Requests -> Request]
  /\ logged \in [Requests -> Nat]
  /\ downloads \in [Items -> Nat]
  /\ calls \in [Callers -> Call]

\* An item flagged as needing action has a reason to show for it: a date to
\* answer by, or a request to forward or shred that nobody has settled, however
\* the customer's requests and the operators' answers overlap.
ActionIsExplained ==
  \A i \in Items : items[i].status = "ACTION_REQUESTED" =>
    items[i].due \/ \E r \in OpenFor(i) : requests[r].type \in Disposals

\* A request marked complete was carried out, though it was checked a round trip
\* before: a scan request by an envelope that is open, any other by a row of the
\* log.
CompletedIsDone ==
  \A r \in Requests : requests[r].status = "COMPLETED" =>
    IF requests[r].type = "SCAN" THEN items[requests[r].item].scanReady ELSE logged[r] > 0

\* Post that has left the building has a row of the log to say how, also where
\* two requests on one item were settled differently: nothing else remembers it.
LeftIsLogged ==
  \A i \in Items : items[i].status \in Handled =>
    \E r \in Requests : /\ requests[r].item = i /\ logged[r] > 0
                        /\ Resolution(requests[r].type) = items[i].status
=============================================================================
