--------------------------- MODULE MailroomProofs ---------------------------
(***************************************************************************)
(* Proofs about the module Mailroom, for any items, requests and calls.    *)
(***************************************************************************)
EXTENDS Mailroom, TLAPS

\* What a call in flight knows, and still holds when it writes: the item it
\* names has been filed, a request it names is a row of that item, and the scan
\* requests it means to close are requests to scan that item.
KnowsItsRows(c) ==
  /\ calls[c].pc \in {"viewing", "downloading", "checking", "asking", "filing", "resolving"} =>
       calls[c].item \in Items /\ items[calls[c].item].filed
  /\ calls[c].pc \in {"processing", "resolving"} =>
       calls[c].request \in Requests /\ requests[calls[c].request].status # "NONE"
  /\ calls[c].pc = "resolving" =>
       /\ requests[calls[c].request].item = calls[c].item
       /\ requests[calls[c].request].type = calls[c].type
       /\ calls[c].type \in Disposals
  /\ calls[c].pc = "filing" =>
       \A r \in calls[c].scans : /\ requests[r].status # "NONE"
                                 /\ requests[r].type = "SCAN"
                                 /\ requests[r].item = calls[c].item

\* Every row of a request is for an item that has been filed.
RowsAreFor ==
  \A r \in Requests : requests[r].status # "NONE" =>
    requests[r].item \in Items /\ items[requests[r].item].filed

TypeInv == TypeOK /\ RowsAreFor /\ \A c \in Callers : KnowsItsRows(c)

-----------------------------------------------------------------------------
(* The tables only grow *)

\* An item stays filed, and a request keeps its item and its type.
Grows ==
  /\ \A i \in Items : items[i].filed => items'[i].filed
  /\ \A r \in Requests : requests[r].status # "NONE" =>
       /\ requests'[r].status # "NONE"
       /\ requests'[r].item = requests[r].item
       /\ requests'[r].type = requests[r].type

\* A step that sets one call and leaves the tables alone.
LEMMA OneCall ==
  ASSUME TypeInv, NEW c \in Callers, NEW call \in Call,
         calls' = [calls EXCEPT ![c] = call],
         UNCHANGED <<items, requests, logged, downloads>>, KnowsItsRows(c)'
  PROVE  TypeInv'
<1>1. calls' \in [Callers -> Call] /\ \A d \in Callers \ {c} : calls'[d] = calls[d]
  BY DEF TypeInv, TypeOK
<1>2. \A d \in Callers \ {c} : KnowsItsRows(d)'
  BY <1>1 DEF TypeInv, KnowsItsRows
<1> QED
  BY <1>1, <1>2 DEF TypeInv, TypeOK, RowsAreFor

\* A call with nothing in hand.
LEMMA NoCallTyped == NoCall \in Call /\ NoCall.pc = "idle"
  BY DEF NoCall, Call, RequestType

\* A step that writes and ends its call.
LEMMA WriteEnds ==
  ASSUME TypeInv, NEW c \in Callers, Hangup(c), Grows,
         items' \in [Items -> Item], requests' \in [Requests -> Request],
         logged' \in [Requests -> Nat], downloads' \in [Items -> Nat], RowsAreFor'
  PROVE  TypeInv'
<1>1. /\ calls' \in [Callers -> Call]
      /\ calls'[c].pc = "idle"
      /\ \A d \in Callers \ {c} : calls'[d] = calls[d]
  BY NoCallTyped DEF Hangup, TypeInv, TypeOK
<1>2. \A d \in Callers : KnowsItsRows(d)'
  <2>1. KnowsItsRows(c)'
    BY <1>1 DEF KnowsItsRows
  <2>2. ASSUME NEW d \in Callers \ {c} PROVE KnowsItsRows(d)'
    <3>1. KnowsItsRows(d) /\ calls'[d] = calls[d] /\ calls[d] \in Call
      BY <1>1 DEF TypeInv, TypeOK
    <3>2. calls[d].scans \subseteq Requests
      BY <3>1 DEF Call
    <3> QED
      BY <3>1, <3>2 DEF KnowsItsRows, Grows
  <2> QED
    BY <2>1, <2>2
<1> QED
  BY <1>1, <1>2 DEF TypeInv, TypeOK

(***************************************************************************)
(* Tables and calls keep their types, and calls their knowledge of them.   *)
(***************************************************************************)
THEOREM TypesHold == Spec => []TypeInv
<1>1. Init => TypeInv
  <2> SUFFICES ASSUME Init PROVE TypeInv
    OBVIOUS
  <2>1. \A c \in Callers : KnowsItsRows(c)
    BY DEF Init, KnowsItsRows, NoCall
  <2>2. RowsAreFor
    BY DEF Init, RowsAreFor, NoRow
  <2>3. NotFiled \in Item /\ NoRow \in Request
    BY DEF NotFiled, NoRow, Item, ItemStatus, Request, RequestStatus, RequestType
  <2> QED
    BY <2>1, <2>2, <2>3, NoCallTyped DEF Init, TypeInv, TypeOK
<1>2. TypeInv /\ [Next]_vars => TypeInv'
  <2> SUFFICES ASSUME TypeInv, [Next]_vars PROVE TypeInv'
    OBVIOUS
  <2>1. ASSUME NEW i \in Items, NEW sealed \in BOOLEAN, NEW due \in BOOLEAN,
               UploadScan(i, sealed, due)
        PROVE  TypeInv'
    <3>1. /\ items' \in [Items -> Item]
          /\ \A j \in Items : items[j].filed => items'[j].filed
      BY <2>1 DEF UploadScan, TypeInv, TypeOK, Item, ItemStatus
    <3>2. \A c \in Callers : KnowsItsRows(c)'
      BY <2>1, <3>1 DEF UploadScan, TypeInv, KnowsItsRows
    <3> QED
      BY <2>1, <3>1, <3>2 DEF UploadScan, TypeInv, TypeOK, RowsAreFor
  <2>2. ASSUME NEW c \in Callers, NEW i \in Items, BeginView(c, i) PROVE TypeInv'
    <3> DEFINE call == [NoCall EXCEPT !.pc = "viewing", !.item = i]
    <3>1. call \in Call /\ call.pc = "viewing" /\ call.item = i
      BY DEF NoCall, Call, RequestType
    <3>2. KnowsItsRows(c)'
      BY <2>2, <3>1 DEF BeginView, KnowsItsRows, TypeInv, TypeOK
    <3> QED
      BY <2>2, <3>1, <3>2, OneCall DEF BeginView
  <2>3. ASSUME NEW c \in Callers, MarkViewed(c) PROVE TypeInv'
    <3>1. calls[c].item \in Items
      BY <2>3 DEF MarkViewed, TypeInv, KnowsItsRows
    <3>2. items' \in [Items -> Item] /\ Grows /\ RowsAreFor'
      BY <2>3, <3>1 DEF MarkViewed, TypeInv, TypeOK, Item, ItemStatus, Grows, RowsAreFor
    <3> QED
      BY <2>3, <3>2, WriteEnds DEF MarkViewed, TypeInv, TypeOK
  <2>4. ASSUME NEW c \in Callers, NEW i \in Items, BeginDownload(c, i) PROVE TypeInv'
    <3> DEFINE call == [NoCall EXCEPT !.pc = "downloading", !.item = i]
    <3>1. call \in Call /\ call.pc = "downloading" /\ call.item = i
      BY DEF NoCall, Call, RequestType
    <3>2. KnowsItsRows(c)'
      BY <2>4, <3>1 DEF BeginDownload, KnowsItsRows, TypeInv, TypeOK
    <3> QED
      BY <2>4, <3>1, <3>2, OneCall DEF BeginDownload
  <2>5. ASSUME NEW c \in Callers, RecordDownload(c) PROVE TypeInv'
    <3>1. calls[c].item \in Items
      BY <2>5 DEF RecordDownload, TypeInv, KnowsItsRows
    <3>2. downloads' \in [Items -> Nat]
      BY <2>5, <3>1 DEF RecordDownload, TypeInv, TypeOK
    <3>3. Grows /\ RowsAreFor'
      BY <2>5 DEF RecordDownload, TypeInv, Grows, RowsAreFor
    <3> QED
      BY <2>5, <3>2, <3>3, WriteEnds DEF RecordDownload, TypeInv, TypeOK
  <2>6. ASSUME NEW c \in Callers, NEW i \in Items, NEW type \in RequestType,
               BeginRequest(c, i, type)
        PROVE  TypeInv'
    <3> DEFINE call == [NoCall EXCEPT !.pc = "checking", !.item = i, !.type = type]
    <3>1. call \in Call /\ call.pc = "checking" /\ call.item = i
      BY DEF NoCall, Call, RequestType
    <3>2. KnowsItsRows(c)'
      BY <2>6, <3>1 DEF BeginRequest, KnowsItsRows, TypeInv, TypeOK
    <3> QED
      BY <2>6, <3>1, <3>2, OneCall DEF BeginRequest
  <2>7. ASSUME NEW c \in Callers, CheckOpen(c) PROVE TypeInv'
    <3>1. CASE OpenFor(calls[c].item) # {}
      <4>1. Grows /\ RowsAreFor'
        BY <2>7 DEF CheckOpen, TypeInv, Grows, RowsAreFor
      <4> QED
        BY <2>7, <3>1, <4>1, WriteEnds DEF CheckOpen, TypeInv, TypeOK
    <3>2. CASE OpenFor(calls[c].item) = {}
      <4> DEFINE call == [calls[c] EXCEPT !.pc = "asking"]
      <4>1. calls[c] \in Call /\ calls[c].item \in Items /\ items[calls[c].item].filed
        BY <2>7 DEF CheckOpen, TypeInv, TypeOK, KnowsItsRows
      <4>2. call \in Call /\ call.pc = "asking" /\ call.item = calls[c].item
        BY <4>1 DEF Call
      <4>3. calls' = [calls EXCEPT ![c] = call] /\ calls'[c] = call
        BY <2>7, <3>2 DEF CheckOpen, TypeInv, TypeOK
      <4> HIDE DEF call
      <4>4. KnowsItsRows(c)'
        BY <2>7, <4>1, <4>2, <4>3 DEF CheckOpen, KnowsItsRows
      <4> QED
        BY <2>7, <4>2, <4>3, <4>4, OneCall DEF CheckOpen
    <3> QED
      BY <3>1, <3>2
  <2>8. ASSUME NEW c \in Callers, CreateRequest(c) PROVE TypeInv'
    <3>1. /\ calls[c] \in Call /\ calls[c].item \in Items
          /\ items[calls[c].item].filed /\ Asked(c) \in Request
          /\ Asked(c).item = calls[c].item
      BY <2>8 DEF CreateRequest, Asked, TypeInv, TypeOK, KnowsItsRows, Call, Request,
                  RequestStatus
    <3>2. items' \in [Items -> Item] /\ \A i \in Items : items[i].filed => items'[i].filed
      BY <2>8, <3>1 DEF CreateRequest, TypeInv, TypeOK, Item, ItemStatus
    <3>3. PICK r \in Requests : /\ requests[r].status = "NONE"
                                /\ requests' = [requests EXCEPT ![r] = Asked(c)]
      BY <2>8 DEF CreateRequest
    <3>4. requests' \in [Requests -> Request] /\ Grows /\ RowsAreFor'
      BY <3>1, <3>2, <3>3 DEF TypeInv, TypeOK, Grows, RowsAreFor
    <3> QED
      BY <2>8, <3>2, <3>4, WriteEnds DEF CreateRequest, TypeInv, TypeOK
  <2>9. ASSUME NEW c \in Callers, NEW i \in Items, NEW due \in BOOLEAN,
               BeginFiling(c, i, due)
        PROVE  TypeInv'
    <3> DEFINE scans == {r \in OpenFor(i) : requests[r].type = "SCAN"}
               call == [NoCall EXCEPT !.pc = "filing", !.item = i, !.due = due,
                                      !.scans = scans]
    <3>1. scans \subseteq Requests
      BY DEF OpenFor
    <3>2. \A r \in scans : /\ requests[r].status # "NONE" /\ requests[r].type = "SCAN"
                           /\ requests[r].item = i
      BY DEF OpenFor, Open, OpenStatuses
    <3> HIDE DEF scans
    <3>3. call \in Call /\ call.pc = "filing" /\ call.item = i /\ call.scans = scans
      BY <3>1 DEF NoCall, Call, RequestType
    <3>4. calls' = [calls EXCEPT ![c] = call] /\ calls'[c] = call
      BY <2>9 DEF BeginFiling, TypeInv, TypeOK, scans
    <3> HIDE DEF call
    <3>5. KnowsItsRows(c)'
      BY <2>9, <3>2, <3>3, <3>4 DEF BeginFiling, KnowsItsRows
    <3> QED
      BY <2>9, <3>3, <3>4, <3>5, OneCall DEF BeginFiling
  <2>10. ASSUME NEW c \in Callers, FileContents(c) PROVE TypeInv'
    <3>1. calls[c].item \in Items /\ calls[c] \in Call
      BY <2>10 DEF FileContents, TypeInv, TypeOK, KnowsItsRows
    <3>2. Opened(c, items[calls[c].item]) \in Item
      <4>1. items[calls[c].item] \in Item /\ calls[c].due \in BOOLEAN
        BY <3>1 DEF TypeInv, TypeOK, Call
      <4>2. \A item \in Item : (item.due \/ calls[c].due) \in BOOLEAN
        OBVIOUS
      <4> QED
        BY <4>1, <4>2 DEF Opened, Item, ItemStatus
    <3>3. items[calls[c].item].filed = Opened(c, items[calls[c].item]).filed
      BY <3>1 DEF Opened, TypeInv, TypeOK, Item
    <3>4. items' \in [Items -> Item] /\ \A i \in Items : items[i].filed => items'[i].filed
      BY <2>10, <3>1, <3>2, <3>3 DEF FileContents, TypeInv, TypeOK
    <3>5. /\ Closed(c) \in [Requests -> Request]
          /\ \A r \in Requests :
               /\ Closed(c)[r].item = requests[r].item
               /\ Closed(c)[r].type = requests[r].type
               /\ Closed(c)[r].status = "NONE" <=> requests[r].status = "NONE"
      <4>1. \A r \in Requests : requests[r] \in Request
        BY DEF TypeInv, TypeOK
      <4>2. \A r \in calls[c].scans : requests[r].status # "NONE"
        BY <2>10 DEF FileContents, TypeInv, KnowsItsRows
      <4> QED
        BY <4>1, <4>2 DEF Closed, Request, RequestStatus
    <3>6. requests' = requests \/ requests' = Closed(c)
      BY <2>10 DEF FileContents
    <3>7. requests' \in [Requests -> Request] /\ Grows /\ RowsAreFor'
      BY <3>4, <3>5, <3>6 DEF TypeInv, TypeOK, Grows, RowsAreFor
    <3> QED
      BY <2>10, <3>4, <3>7, WriteEnds DEF FileContents, TypeInv, TypeOK
  <2>11. ASSUME NEW c \in Callers, NEW r \in Requests, BeginProcess(c, r) PROVE TypeInv'
    <3> DEFINE call == [NoCall EXCEPT !.pc = "processing", !.request = r]
    <3>1. call \in Call /\ call.pc = "processing" /\ call.request = r
      BY DEF NoCall, Call, RequestType
    <3>2. KnowsItsRows(c)'
      BY <2>11, <3>1 DEF BeginProcess, KnowsItsRows, TypeInv, TypeOK
    <3> QED
      BY <2>11, <3>1, <3>2, OneCall DEF BeginProcess
  <2>12. ASSUME NEW c \in Callers, ProcessRequest(c) PROVE TypeInv'
    <3>1. calls[c].request \in Requests
      BY <2>12 DEF ProcessRequest, TypeInv, KnowsItsRows
    <3>2. requests' \in [Requests -> Request] /\ Grows /\ RowsAreFor'
      BY <2>12, <3>1 DEF ProcessRequest, TypeInv, TypeOK, KnowsItsRows, Grows, RowsAreFor,
                         Request, RequestStatus
    <3> QED
      BY <2>12, <3>2, WriteEnds DEF ProcessRequest, TypeInv, TypeOK
  <2>13. ASSUME NEW c \in Callers, NEW r \in Requests, BeginResolve(c, r) PROVE TypeInv'
    <3> DEFINE call == [NoCall EXCEPT !.pc = "resolving", !.request = r,
                                      !.item = requests[r].item, !.type = requests[r].type]
    <3>1. /\ requests[r] \in Request /\ requests[r].status # "NONE"
          /\ requests[r].type \in Disposals
          /\ requests[r].item \in Items /\ items[requests[r].item].filed
      BY <2>13 DEF BeginResolve, Open, OpenStatuses, TypeInv, TypeOK, RowsAreFor
    <3>2. /\ call \in Call /\ call.pc = "resolving" /\ call.request = r
          /\ call.item = requests[r].item /\ call.type = requests[r].type
      BY <3>1 DEF NoCall, Call, Request
    <3>3. calls' = [calls EXCEPT ![c] = call] /\ calls'[c] = call
      BY <2>13 DEF BeginResolve, TypeInv, TypeOK
    <3> HIDE DEF call
    <3>4. KnowsItsRows(c)'
      BY <2>13, <3>1, <3>2, <3>3 DEF BeginResolve, KnowsItsRows
    <3> QED
      BY <2>13, <3>2, <3>3, <3>4, OneCall DEF BeginResolve
  <2>14. ASSUME NEW c \in Callers, ResolveRequest(c) PROVE TypeInv'
    <3>1. calls[c].request \in Requests /\ calls[c].item \in Items
      BY <2>14 DEF ResolveRequest, TypeInv, KnowsItsRows
    <3>2. items' \in [Items -> Item] /\ \A i \in Items : items[i].filed => items'[i].filed
      BY <2>14, <3>1 DEF ResolveRequest, Resolution, TypeInv, TypeOK, Item, ItemStatus
    <3>3. /\ requests' \in [Requests -> Request]
          /\ \A r \in Requests :
               /\ requests'[r].item = requests[r].item
               /\ requests'[r].type = requests[r].type
               /\ requests'[r].status = "NONE" <=> requests[r].status = "NONE"
      BY <2>14, <3>1 DEF ResolveRequest, TypeInv, TypeOK, KnowsItsRows, Request,
                         RequestStatus
    <3>4. Grows /\ RowsAreFor'
      BY <3>2, <3>3 DEF TypeInv, Grows, RowsAreFor
    <3>5. logged' \in [Requests -> Nat]
      BY <2>14, <3>1 DEF ResolveRequest, TypeInv, TypeOK
    <3> QED
      BY <2>14, <3>2, <3>3, <3>4, <3>5, WriteEnds DEF ResolveRequest, TypeInv, TypeOK
  <2>15. CASE UNCHANGED vars
    BY <2>15 DEF vars, TypeInv, TypeOK, RowsAreFor, KnowsItsRows
  <2> QED
    BY <2>1, <2>2, <2>3, <2>4, <2>5, <2>6, <2>7, <2>8, <2>9, <2>10, <2>11, <2>12, <2>13,
       <2>14, <2>15
    DEF Next, CustomerStep, OperatorStep
<1> QED
  BY <1>1, <1>2, PTL DEF Spec

(***************************************************************************)
(* Rows and calls keep their types.                                        *)
(***************************************************************************)
THEOREM TypeCorrect == Spec => []TypeOK
<1>1. TypeInv => TypeOK
  BY DEF TypeInv
<1> QED
  BY <1>1, TypesHold, PTL

-----------------------------------------------------------------------------
(* The safety properties *)

\* The steps that leave items, requests and their log alone.
Quiet(c) ==
  \/ RecordDownload(c) \/ CheckOpen(c)
  \/ \E i \in Items : BeginView(c, i) \/ BeginDownload(c, i)
  \/ \E i \in Items, type \in RequestType : BeginRequest(c, i, type)
  \/ \E i \in Items, due \in BOOLEAN : BeginFiling(c, i, due)
  \/ \E r \in Requests : BeginProcess(c, r) \/ BeginResolve(c, r)

\* A step that only reads, or only logs a download, leaves the item and its requests.
LEMMA QuietIsQuiet ==
  ASSUME NEW c \in Callers, Quiet(c)
  PROVE  UNCHANGED <<items, requests, logged>>
  BY DEF Quiet, RecordDownload, CheckOpen, BeginView, BeginDownload, BeginRequest,
         BeginFiling, BeginProcess, BeginResolve

\* Every step is an upload, a quiet one, or one of the five that write.
LEMMA StepsAre ==
  ASSUME Next
  PROVE  \/ \E i \in Items, sealed, due \in BOOLEAN : UploadScan(i, sealed, due)
         \/ \E c \in Callers :
              \/ Quiet(c) \/ MarkViewed(c) \/ CreateRequest(c) \/ FileContents(c)
              \/ ProcessRequest(c) \/ ResolveRequest(c)
  BY DEF Next, CustomerStep, OperatorStep, Quiet

(***************************************************************************)
(* An item that waits for action has a date to answer by or an open        *)
(* request to dispose of it.                                               *)
(***************************************************************************)
THEOREM ActionExplained == Spec => []ActionIsExplained
<1>1. Init => ActionIsExplained
  BY DEF Init, ActionIsExplained, NotFiled
<1>2. TypeInv /\ ActionIsExplained /\ [Next]_vars => ActionIsExplained'
  <2> SUFFICES ASSUME TypeInv, ActionIsExplained, [Next]_vars,
                      NEW i \in Items, items'[i].status = "ACTION_REQUESTED"
               PROVE  \/ items'[i].due
                      \/ \E r \in Requests : /\ requests'[r].status \in OpenStatuses
                                             /\ requests'[r].item = i
                                              /\ requests'[r].type \in Disposals
    BY DEF ActionIsExplained, OpenFor, Open
  <2> DEFINE Asks(r) == /\ requests[r].status \in OpenStatuses /\ requests[r].item = i
                        /\ requests[r].type \in Disposals
  <2>0. items[i].status = "ACTION_REQUESTED" => items[i].due \/ \E r \in Requests : Asks(r)
    BY DEF ActionIsExplained, OpenFor, Open
  <2>1. ASSUME NEW j \in Items, NEW sealed \in BOOLEAN, NEW due \in BOOLEAN,
               UploadScan(j, sealed, due)
        PROVE  items'[i].due \/ \E r \in Requests : Asks(r)'
    BY <2>0, <2>1 DEF UploadScan, TypeInv, TypeOK
  <2>2. ASSUME NEW c \in Callers, Quiet(c)
        PROVE  items'[i].due \/ \E r \in Requests : Asks(r)'
    BY <2>0, <2>2, QuietIsQuiet
  <2>3. ASSUME NEW c \in Callers, MarkViewed(c)
        PROVE  items'[i].due \/ \E r \in Requests : Asks(r)'
    BY <2>0, <2>3 DEF MarkViewed, TypeInv, TypeOK
  <2>4. ASSUME NEW c \in Callers, CreateRequest(c)
        PROVE  items'[i].due \/ \E r \in Requests : Asks(r)'
    <3>1. PICK q \in Requests : /\ requests[q].status = "NONE"
                                /\ requests' = [requests EXCEPT ![q] = Asked(c)]
      BY <2>4 DEF CreateRequest
    <3>2. requests'[q] = Asked(c) /\ \A r \in Requests \ {q} : requests'[r] = requests[r]
      BY <3>1 DEF TypeInv, TypeOK
    <3>3. CASE items'[i] = items[i]
      BY <2>0, <3>1, <3>2, <3>3 DEF OpenStatuses
    <3>4. CASE items'[i] # items[i]
      <4>1. calls[c].item = i /\ calls[c].type \in Disposals
        BY <2>4, <3>4 DEF CreateRequest, TypeInv, TypeOK, Call, RequestType, Disposals
      <4> QED
        BY <3>2, <4>1 DEF Asked, OpenStatuses
    <3> QED
      BY <3>3, <3>4
  <2>5. ASSUME NEW c \in Callers, FileContents(c)
        PROVE  items'[i].due \/ \E r \in Requests : Asks(r)'
    <3>1. CASE items'[i] = items[i]
      <4>1. \A r \in calls[c].scans : requests[r].type = "SCAN"
        BY <2>5 DEF FileContents, TypeInv, KnowsItsRows
      <4>2. \A r \in Requests : Asks(r) => requests'[r] = requests[r]
        BY <2>5, <4>1 DEF FileContents, Closed, Disposals
      <4> QED
        BY <2>0, <3>1, <4>2
    <3>2. CASE items'[i] # items[i]
      <4>1. items'[i] = Opened(c, items[i]) /\ items[i] \in Item
        BY <2>5, <3>2 DEF FileContents, TypeInv, TypeOK
      <4> QED
        BY <4>1 DEF Opened, Item
    <3> QED
      BY <3>1, <3>2
  <2>6. ASSUME NEW c \in Callers, ProcessRequest(c)
        PROVE  items'[i].due \/ \E r \in Requests : Asks(r)'
    <3>1. \A r \in Requests : Asks(r) => Asks(r)'
      BY <2>6 DEF ProcessRequest, TypeInv, TypeOK, Request, OpenStatuses
    <3> QED
      BY <2>0, <2>6, <3>1 DEF ProcessRequest
  <2>7. ASSUME NEW c \in Callers, ResolveRequest(c)
        PROVE  items'[i].due \/ \E r \in Requests : Asks(r)'
    <3>1. calls[c].item # i
      BY <2>7 DEF ResolveRequest, Resolution, TypeInv, TypeOK, Item
    <3>2. requests[calls[c].request].item # i /\ items'[i] = items[i]
      BY <2>7, <3>1 DEF ResolveRequest, TypeInv, TypeOK, KnowsItsRows
    <3>3. \A r \in Requests : Asks(r) => requests'[r] = requests[r]
      BY <2>7, <3>2 DEF ResolveRequest, TypeInv, TypeOK
    <3> QED
      BY <2>0, <3>2, <3>3
  <2>8. CASE UNCHANGED vars
    BY <2>0, <2>8 DEF vars
  <2> QED
    BY <2>1, <2>2, <2>3, <2>4, <2>5, <2>6, <2>7, <2>8, StepsAre
<1> QED
  BY <1>1, <1>2, TypesHold, PTL DEF Spec

(***************************************************************************)
(* What is marked complete was carried out.                                *)
(***************************************************************************)
THEOREM CompletionIsDone == Spec => []CompletedIsDone
<1>1. Init => CompletedIsDone
  BY DEF Init, CompletedIsDone, NoRow
<1>2. TypeInv /\ CompletedIsDone /\ [Next]_vars => CompletedIsDone'
  <2> SUFFICES ASSUME TypeInv, CompletedIsDone, [Next]_vars,
                      NEW r \in Requests, requests'[r].status = "COMPLETED"
               PROVE  IF requests'[r].type = "SCAN" THEN items'[requests'[r].item].scanReady
                                                    ELSE logged'[r] > 0
    BY DEF CompletedIsDone
  <2> DEFINE Done == IF requests[r].type = "SCAN" THEN items[requests[r].item].scanReady
                                                  ELSE logged[r] > 0
  <2>0. /\ requests[r].status = "COMPLETED" => Done
        /\ requests[r].status = "COMPLETED" =>
             requests[r].item \in Items /\ items[requests[r].item].filed
    BY DEF CompletedIsDone, TypeInv, RowsAreFor
  <2>1. ASSUME NEW j \in Items, NEW sealed \in BOOLEAN, NEW due \in BOOLEAN,
               UploadScan(j, sealed, due)
        PROVE  Done'
    BY <2>0, <2>1 DEF UploadScan, TypeInv, TypeOK
  <2>2. ASSUME NEW c \in Callers, Quiet(c) PROVE Done'
    BY <2>0, <2>2, QuietIsQuiet
  <2>3. ASSUME NEW c \in Callers, MarkViewed(c) PROVE Done'
    BY <2>0, <2>3 DEF MarkViewed, TypeInv, TypeOK, Item
  <2>4. ASSUME NEW c \in Callers, CreateRequest(c) PROVE Done'
    <3>1. PICK q \in Requests : /\ requests[q].status = "NONE"
                                /\ requests' = [requests EXCEPT ![q] = Asked(c)]
      BY <2>4 DEF CreateRequest
    <3>2. requests'[r] = requests[r]
      BY <3>1 DEF TypeInv, TypeOK, Asked
    <3>3. items'[requests[r].item].scanReady = items[requests[r].item].scanReady
      BY <2>0, <2>4, <3>2 DEF CreateRequest, TypeInv, TypeOK, Item
    <3> QED
      BY <2>0, <2>4, <3>2, <3>3 DEF CreateRequest
  <2>5. ASSUME NEW c \in Callers, FileContents(c) PROVE Done'
    <3>1. \A j \in Items : items[j].scanReady => items'[j].scanReady
      BY <2>5 DEF FileContents, Opened, TypeInv, TypeOK, Item
    <3>2. CASE requests'[r] = requests[r]
      BY <2>0, <2>5, <3>1, <3>2 DEF FileContents
    <3>3. CASE requests'[r] # requests[r]
      <4>1. requests' = Closed(c) /\ r \in calls[c].scans
        BY <2>5, <3>3 DEF FileContents, Closed
      <4>2. requests'[r].type = "SCAN" /\ requests'[r].item = calls[c].item
        BY <2>5, <4>1 DEF FileContents, Closed, TypeInv, TypeOK, KnowsItsRows, Request
      <4>3. calls[c].item \in Items /\ ~items[calls[c].item].scanReady
        BY <2>5, <3>3 DEF FileContents, TypeInv, KnowsItsRows
      <4>4. /\ items'[calls[c].item] = Opened(c, items[calls[c].item])
            /\ items[calls[c].item] \in Item
        BY <2>5, <4>3 DEF FileContents, TypeInv, TypeOK
      <4>5. items'[calls[c].item].scanReady
        BY <4>4 DEF Opened, Item
      <4> QED
        BY <4>2, <4>5
    <3> QED
      BY <3>2, <3>3
  <2>6. ASSUME NEW c \in Callers, ProcessRequest(c) PROVE Done'
    BY <2>0, <2>6 DEF ProcessRequest, TypeInv, TypeOK, Request
  <2>7. ASSUME NEW c \in Callers, ResolveRequest(c) PROVE Done'
    <3>1. \A j \in Items : items[j].scanReady => items'[j].scanReady
      BY <2>7 DEF ResolveRequest, TypeInv, TypeOK, Item
    <3>2. /\ \A q \in Requests : logged[q] \in Nat /\ (logged[q] > 0 => logged'[q] > 0)
          /\ logged'[calls[c].request] > 0
      BY <2>7 DEF ResolveRequest, TypeInv, TypeOK, KnowsItsRows
    <3>3. CASE r = calls[c].request
      <4>1. requests'[r].type \in Disposals
        BY <2>7, <3>3 DEF ResolveRequest, TypeInv, TypeOK, KnowsItsRows, Request
      <4> QED
        BY <3>2, <3>3, <4>1 DEF Disposals
    <3>4. CASE r # calls[c].request
      BY <2>0, <2>7, <3>1, <3>2, <3>4 DEF ResolveRequest
    <3> QED
      BY <3>3, <3>4
  <2>8. CASE UNCHANGED vars
    BY <2>0, <2>8 DEF vars
  <2> QED
    BY <2>1, <2>2, <2>3, <2>4, <2>5, <2>6, <2>7, <2>8, StepsAre
<1> QED
  BY <1>1, <1>2, TypesHold, PTL DEF Spec

\* The log is only of requests that there are.
LogIsOfRows == \A r \in Requests : logged[r] > 0 => requests[r].status # "NONE"

(***************************************************************************)
(* Post that has left the building is in the log.                          *)
(***************************************************************************)
THEOREM LeavingIsLogged == Spec => []LeftIsLogged
<1>1. Init => LeftIsLogged /\ LogIsOfRows
  BY DEF Init, LeftIsLogged, LogIsOfRows, NotFiled, Handled
<1>2. TypeInv /\ LogIsOfRows /\ [Next]_vars => LogIsOfRows'
  <2> SUFFICES ASSUME TypeInv, LogIsOfRows, [Next]_vars,
                      NEW r \in Requests, logged'[r] > 0
               PROVE  requests'[r].status # "NONE"
    BY DEF LogIsOfRows
  <2> USE DEF TypeInv, TypeOK, LogIsOfRows
  <2>1. ASSUME NEW j \in Items, NEW sealed \in BOOLEAN, NEW due \in BOOLEAN,
               UploadScan(j, sealed, due)
        PROVE  requests'[r].status # "NONE"
    BY <2>1 DEF UploadScan
  <2>2. ASSUME NEW c \in Callers, Quiet(c) PROVE requests'[r].status # "NONE"
    BY <2>2, QuietIsQuiet
  <2>3. ASSUME NEW c \in Callers, MarkViewed(c) PROVE requests'[r].status # "NONE"
    BY <2>3 DEF MarkViewed
  <2>4. ASSUME NEW c \in Callers, CreateRequest(c) PROVE requests'[r].status # "NONE"
    BY <2>4 DEF CreateRequest, Asked
  <2>5. ASSUME NEW c \in Callers, FileContents(c) PROVE requests'[r].status # "NONE"
    BY <2>5 DEF FileContents, Closed, Request
  <2>6. ASSUME NEW c \in Callers, ProcessRequest(c) PROVE requests'[r].status # "NONE"
    BY <2>6 DEF ProcessRequest, Request
  <2>7. ASSUME NEW c \in Callers, ResolveRequest(c) PROVE requests'[r].status # "NONE"
    BY <2>7 DEF ResolveRequest, Request
  <2>8. CASE UNCHANGED vars
    BY <2>8 DEF vars
  <2> QED
    BY <2>1, <2>2, <2>3, <2>4, <2>5, <2>6, <2>7, <2>8, StepsAre
<1>3. TypeInv /\ LogIsOfRows /\ LeftIsLogged /\ [Next]_vars => LeftIsLogged'
  <2> SUFFICES ASSUME TypeInv, LogIsOfRows, LeftIsLogged, [Next]_vars,
                      NEW i \in Items, items'[i].status \in Handled
               PROVE  \E r \in Requests :
                        /\ requests'[r].item = i /\ logged'[r] > 0
                        /\ Resolution(requests'[r].type) = items'[i].status
    BY DEF LeftIsLogged
  <2> DEFINE Says(r) == /\ requests[r].item = i /\ logged[r] > 0
                        /\ Resolution(requests[r].type) = items[i].status
  <2>0. /\ items[i].status \in Handled => \E r \in Requests : Says(r)
        /\ \A r \in Requests : Says(r) => requests[r].status # "NONE"
    BY DEF LeftIsLogged, LogIsOfRows
  <2>1. ASSUME NEW j \in Items, NEW sealed \in BOOLEAN, NEW due \in BOOLEAN,
               UploadScan(j, sealed, due)
        PROVE  \E r \in Requests : Says(r)'
    <3>1. i # j
      BY <2>1 DEF UploadScan, TypeInv, TypeOK, Handled
    <3> QED
      BY <2>0, <2>1, <3>1 DEF UploadScan, TypeInv, TypeOK
  <2>2. ASSUME NEW c \in Callers, Quiet(c) PROVE \E r \in Requests : Says(r)'
    BY <2>0, <2>2, QuietIsQuiet
  <2>3. ASSUME NEW c \in Callers, MarkViewed(c) PROVE \E r \in Requests : Says(r)'
    <3>1. items'[i] = items[i]
      BY <2>3 DEF MarkViewed, TypeInv, TypeOK, Item, Handled
    <3> QED
      BY <2>0, <2>3, <3>1 DEF MarkViewed
  <2>4. ASSUME NEW c \in Callers, CreateRequest(c) PROVE \E r \in Requests : Says(r)'
    <3>1. PICK q \in Requests : /\ requests[q].status = "NONE"
                                /\ requests' = [requests EXCEPT ![q] = Asked(c)]
      BY <2>4 DEF CreateRequest
    <3>2. items'[i] = items[i]
      BY <2>4 DEF CreateRequest, TypeInv, TypeOK, Item, Handled
    <3>3. \A r \in Requests : Says(r) => requests'[r] = requests[r]
      BY <2>0, <3>1
    <3> QED
      BY <2>0, <2>4, <3>2, <3>3 DEF CreateRequest
  <2>5. ASSUME NEW c \in Callers, FileContents(c) PROVE \E r \in Requests : Says(r)'
    <3>1. items'[i] = items[i]
      <4>1. items'[i] = items[i] \/ items'[i] = Opened(c, items[i])
        BY <2>5 DEF FileContents, TypeInv, TypeOK
      <4>2. items[i] \in Item
        BY DEF TypeInv, TypeOK
      <4>3. Opened(c, items[i]).status \notin Handled
        BY <4>2 DEF Opened, Item, Handled
      <4> QED
        BY <4>1, <4>3
    <3>2. \A r \in Requests : /\ requests'[r].item = requests[r].item
                              /\ requests'[r].type = requests[r].type
      BY <2>5 DEF FileContents, Closed, TypeInv, TypeOK, Request
    <3> QED
      BY <2>0, <2>5, <3>1, <3>2 DEF FileContents
  <2>6. ASSUME NEW c \in Callers, ProcessRequest(c) PROVE \E r \in Requests : Says(r)'
    <3>1. \A r \in Requests : /\ requests'[r].item = requests[r].item
                              /\ requests'[r].type = requests[r].type
      BY <2>6 DEF ProcessRequest, TypeInv, TypeOK, Request
    <3> QED
      BY <2>0, <2>6, <3>1 DEF ProcessRequest
  <2>7. ASSUME NEW c \in Callers, ResolveRequest(c) PROVE \E r \in Requests : Says(r)'
    <3>1. \A r \in Requests : /\ requests'[r].item = requests[r].item
                              /\ requests'[r].type = requests[r].type
      BY <2>7 DEF ResolveRequest, TypeInv, TypeOK, Request
    <3>2. /\ \A q \in Requests : logged[q] > 0 => logged'[q] > 0
          /\ logged'[calls[c].request] > 0
      BY <2>7 DEF ResolveRequest, TypeInv, TypeOK, KnowsItsRows
    <3>3. CASE calls[c].item = i
      <4>1. items'[i].status = Resolution(calls[c].type)
        BY <2>7, <3>3 DEF ResolveRequest, TypeInv, TypeOK, Item
      <4>2. /\ calls[c].request \in Requests /\ requests[calls[c].request].item = i
            /\ requests[calls[c].request].type = calls[c].type
        BY <2>7, <3>3 DEF ResolveRequest, TypeInv, KnowsItsRows
      <4> QED
        BY <3>1, <3>2, <4>1, <4>2
    <3>4. CASE calls[c].item # i
      <4>1. items'[i] = items[i]
        BY <2>7, <3>4 DEF ResolveRequest, TypeInv, TypeOK
      <4> QED
        BY <2>0, <3>1, <3>2, <4>1
    <3> QED
      BY <3>3, <3>4
  <2>8. CASE UNCHANGED vars
    BY <2>0, <2>8 DEF vars
  <2> QED
    BY <2>1, <2>2, <2>3, <2>4, <2>5, <2>6, <2>7, <2>8, StepsAre
<1> QED
  BY <1>1, <1>2, <1>3, TypesHold, PTL DEF Spec
=============================================================================
