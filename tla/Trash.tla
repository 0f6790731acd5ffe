-------------------------------- MODULE Trash --------------------------------
(***************************************************************************)
(* The delete, restore and purge behind every admin table:                 *)
(* backend/src/modules/admin/trash/trash.service.ts, over the entities     *)
(* trash.registry.ts describes and the foreign keys of schema.prisma.      *)
(*                                                                         *)
(* One action is one round trip to PostgreSQL: nothing here runs in a      *)
(* transaction.  A request deletes, restores or purges one row; a          *)
(* selection of several is several requests.  What deleting a member of    *)
(* staff does besides stamping the row is in module Access.                *)
(***************************************************************************)
EXTENDS Naturals, FiniteSets, Sequences, SequencesExt

CONSTANTS
  Rows,      \* rows of the tables the trash covers
  Kind,      \* the entity of each row
  Owners,    \* the rows its foreign keys name
  Unborn,    \* rows not inserted yet
  Credited,  \* payments that have succeeded
  Callers,   \* administrators' requests
  Sweeper,   \* the nightly job
  Batch,     \* PURGE_BATCH
  MaxFails,  \* requests and sweeps that may die half-way
  None

Processes == Callers \cup {Sweeper}

Kinds ==
  {"customer", "order", "quote", "payment", "bank-account", "request-type", "record",
   "service-request", "mail-room", "mail-item", "mail-request", "mail-log",
   "conversation"}

ASSUME TrashAssumption ==
  /\ Kind \in [Rows -> Kinds]
  /\ Owners \in [Rows -> SUBSET Rows]
  /\ Unborn \subseteq Rows
  /\ Credited \subseteq {r \in Rows : Kind[r] = "payment"}
  /\ Sweeper \notin Callers
  /\ Batch \in Nat \ {0}
  /\ MaxFails \in Nat
  /\ None \notin Rows

VARIABLES
  rows,     \* unborn, live, deleted (deletedAt is set) or gone
  bin,      \* TrashEntry, by the row it is for
  due,      \* entries past their purgeAt
  earlier,  \* of an entry past it: those that passed theirs before
  call,     \* what each request and the sweep have read and will do
  fails,    \* how often one of them has died
  spoilt    \* history: rows that two of them had in hand at once, or one that died

vars == <<rows, bin, due, earlier, call, fails, spoilt>>

-----------------------------------------------------------------------------
(* trash.registry.ts and the foreign keys *)

OfCustomer == <<"order", "quote", "payment", "mail-room", "conversation", "record",
                "service-request">>
OfOrder == <<"quote", "conversation", "record">>
OfQuote == <<"payment">>
OfRecord == <<"service-request">>
OfMailRoom == <<"mail-item">>
OfMailItem == <<"mail-request", "mail-log">>

\* dependents, in the order the descriptor lists them
DependentsOf(kind) ==
  CASE kind = "customer" -> OfCustomer
    [] kind = "order" -> OfOrder
    [] kind = "quote" -> OfQuote
    [] kind = "record" -> OfRecord
    [] kind = "mail-room" -> OfMailRoom
    [] kind = "mail-item" -> OfMailItem
    [] OTHER -> <<>>

\* onDelete: SetNull, and onDelete: Restrict; the other keys cascade.
SetsNull == {<<"quote", "order">>, <<"conversation", "order">>, <<"payment", "quote">>,
             <<"payment", "bank-account">>}
Restricts == {<<"service-request", "request-type">>}

Key(s, o) == <<Kind[s], Kind[o]>>
Exists(r) == rows[r] \in {"live", "deleted"}
References(s, o) == Exists(s) /\ o \in Owners[s]

\* What the database removes with r.
Removed ==
  [r \in Rows |->
     {s \in Rows :
        \A gone \in SUBSET Rows :
          /\ r \in gone
          /\ \A o \in gone, x \in Rows :
               o \in Owners[x] /\ Key(x, o) \notin SetsNull \cup Restricts => x \in gone
          => s \in gone}]

\* guard
Refused(r) ==
  \/ r \in Credited
  \/ Kind[r] = "request-type" /\ \E s \in Rows : References(s, r)

\* purgeGuard
Kept(r) ==
  Kind[r] = "bank-account" /\ \E s \in Rows : Kind[s] = "payment" /\ References(s, r)

\* A foreign key that refuses the removal of r.
Restricted(r) ==
  \E o \in Removed[r], s \in Rows \ Removed[r] :
    References(s, o) /\ Key(s, o) \in Restricts

-----------------------------------------------------------------------------
Entry == [filed : BOOLEAN, cascade : Seq(SUBSET Rows)]
NoEntry == [filed |-> FALSE, cascade |-> <<>>]

Steps == {"idle", "walk", "read", "write", "clear", "next", "destroy", "drop", "defer"}

\* groups: still to be dealt with; changed: dealt with; todo: entries to purge.
Request ==
  [step : Steps, root : Rows \cup {None}, groups : Seq(SUBSET Rows), at : Nat \X Nat,
   ids : SUBSET Rows, changed : Seq(SUBSET Rows), todo : SUBSET Rows]

Idle ==
  [step |-> "idle", root |-> None, groups |-> <<>>, at |-> <<1, 0>>, ids |-> {},
   changed |-> <<>>, todo |-> {}]

Goto(c, q) == call' = [call EXCEPT ![c] = q]

Begin(c, q) == call[c] = Idle /\ Goto(c, q)

\* The rows an entry brings back, or takes along.
Claim(e) == {e} \cup UNION Range(bin[e].cascade)

\* The rows a request is about to change or has changed.
Purges(q) == q.step \in {"next", "destroy", "drop", "defer"}
InHand(q) ==
  LET entries == q.todo \cup IF Purges(q) THEN {q.root} \ {None} ELSE {}
  IN  ({q.root} \ {None}) \cup (UNION Range(q.groups)) \cup (UNION Range(q.changed))
        \cup (UNION {Removed[e] : e \in entries})

\* Mutant: the deadline outlives the entry.
RemoveEntryOnly(e) ==
  /\ bin' = [bin EXCEPT ![e] = NoEntry]
  /\ UNCHANGED <<due, earlier>>

RemoveEntry(e) ==
  /\ bin' = [bin EXCEPT ![e] = NoEntry]
  /\ due' = due \ {e}
  /\ earlier' = [x \in Rows |-> IF x = e THEN {} ELSE earlier[x] \ {e}]

KeepEntries == UNCHANGED <<bin, due, earlier>>

-----------------------------------------------------------------------------
(* trashRows *)

BeginTrash(c, r) ==
  /\ rows[r] = "live"
  /\ ~Refused(r)
  /\ Begin(c, [Idle EXCEPT !.step = "walk", !.root = r, !.groups = <<{r}>>])
  /\ KeepEntries
  /\ UNCHANGED <<rows, fails>>

\* closureOf: query <<i, k>> reads the k-th dependents of group i.
DependentsOfGroup(g) == DependentsOf(Kind[CHOOSE r \in g : TRUE])

Found(q, p) ==
  LET g == q.groups[p[1]]
  IN  {s \in Rows : /\ Kind[s] = DependentsOfGroup(g)[p[2]]
                    /\ \E o \in g : References(s, o)}
        \ UNION Range(q.groups)

After(p, o) == p[1] > o[1] \/ (p[1] = o[1] /\ p[2] > o[2])

\* The queries still to be made that return a row not seen before.
Queries(q) ==
  {p \in (DOMAIN q.groups) \X (1 .. 7) :
     /\ After(p, q.at)
     /\ p[2] <= Len(DependentsOfGroup(q.groups[p[1]]))
     /\ Found(q, p) # {}}

Walk(c) ==
  LET q == call[c]
  IN  /\ q.step = "walk"
      /\ \E p \in Queries(q) :
           /\ \A o \in Queries(q) \ {p} : After(o, p)
           /\ Goto(c, [q EXCEPT !.at = p, !.groups = Append(@, Found(q, p))])
      /\ KeepEntries
      /\ UNCHANGED <<rows, fails>>

\* The root comes last.
EndWalk(c) ==
  LET q == call[c]
  IN  /\ q.step = "walk"
      /\ Queries(q) = {}
      /\ Goto(c, [q EXCEPT !.step = "read", !.at = <<1, 0>>,
                           !.groups = Append(Tail(q.groups), Head(q.groups))])
      /\ KeepEntries
      /\ UNCHANGED <<rows, fails>>

\* Mutant: rows already deleted are recorded as well.
AnyOf(g) == {r \in g : Exists(r)}

LiveOf(g) == {r \in g : rows[r] = "live"}

\* stampGroup, the read
ReadGroup(c) ==
  LET q == call[c]
  IN  /\ q.step = "read"
      /\ q.groups # <<>>
      /\ IF LiveOf(Head(q.groups)) = {}
           THEN Goto(c, [q EXCEPT !.groups = Tail(q.groups)])
           ELSE Goto(c, [q EXCEPT !.step = "write", !.ids = LiveOf(Head(q.groups))])
      /\ KeepEntries
      /\ UNCHANGED <<rows, fails>>

\* stampGroup, the write: what was read is what is reported.
StampGroup(c) ==
  LET q == call[c]
  IN  /\ q.step = "write"
      /\ rows' = [r \in Rows |-> IF r \in q.ids /\ rows[r] = "live" THEN "deleted"
                                 ELSE rows[r]]
      /\ Goto(c, [q EXCEPT !.step = "read", !.groups = Tail(q.groups), !.ids = {},
                           !.changed = Append(q.changed, q.ids)])
      /\ KeepEntries
      /\ UNCHANGED fails

RootStamped(q) == q.changed # <<>> /\ Last(q.changed) = {q.root}

\* Mutant: the entry is filed without what the delete took along.
FileRootOnly(c) ==
  LET q == call[c]
  IN  /\ q.step = "read"
      /\ q.groups = <<>>
      /\ bin' = IF RootStamped(q) /\ ~bin[q.root].filed
                  THEN [bin EXCEPT ![q.root] = [filed |-> TRUE, cascade |-> <<>>]]
                  ELSE bin
      /\ Goto(c, Idle)
      /\ UNCHANGED <<rows, due, earlier, fails>>

\* An upsert that leaves an entry as it is.
FileEntry(c) ==
  LET q == call[c]
  IN  /\ q.step = "read"
      /\ q.groups = <<>>
      /\ bin' = IF RootStamped(q) /\ ~bin[q.root].filed
                  THEN [bin EXCEPT ![q.root] =
                          [filed |-> TRUE, cascade |-> Front(q.changed)]]
                  ELSE bin
      /\ Goto(c, Idle)
      /\ UNCHANGED <<rows, due, earlier, fails>>

-----------------------------------------------------------------------------
(* restoreEntries *)

BeginRestore(c, e) ==
  /\ bin[e].filed
  /\ Begin(c, [Idle EXCEPT !.step = "clear", !.root = e,
                           !.groups = <<{e}>> \o Reverse(bin[e].cascade)])
  /\ KeepEntries
  /\ UNCHANGED <<rows, fails>>

ClearGroup(c) ==
  LET q == call[c]
  IN  /\ q.step = "clear"
      /\ q.groups # <<>>
      /\ rows' = [r \in Rows |-> IF r \in Head(q.groups) /\ rows[r] = "deleted"
                                   THEN "live" ELSE rows[r]]
      /\ Goto(c, [q EXCEPT !.groups = Tail(q.groups),
                           !.changed = Append(q.changed, Head(q.groups))])
      /\ KeepEntries
      /\ UNCHANGED fails

\* Mutant: the entry stays.
EndRestoreOnly(c) ==
  LET q == call[c]
  IN  /\ q.step = "clear"
      /\ q.groups = <<>>
      /\ Goto(c, Idle)
      /\ KeepEntries
      /\ UNCHANGED <<rows, fails>>

\* An entry that is gone fails the request.
EndRestore(c) ==
  LET q == call[c]
  IN  /\ q.step = "clear"
      /\ q.groups = <<>>
      /\ IF bin[q.root].filed THEN RemoveEntry(q.root) ELSE KeepEntries
      /\ Goto(c, Idle)
      /\ UNCHANGED <<rows, fails>>

-----------------------------------------------------------------------------
(* purgeNow, purgeExpired, purgeEntries *)

PurgeNow(c, e) ==
  /\ bin[e].filed
  /\ Begin(c, [Idle EXCEPT !.step = "next", !.todo = {e}])
  /\ KeepEntries
  /\ UNCHANGED <<rows, fails>>

\* Mutant: the entries that came due last go first.
NewestDue(n) ==
  {es \in SUBSET due : Cardinality(es) = n
                       /\ \A e \in es, o \in due \ es : e \notin earlier[o]}

\* orderBy purgeAt, take n
OldestDue(n) ==
  {es \in SUBSET due : Cardinality(es) = n
                       /\ \A e \in es, o \in due \ es : o \notin earlier[e]}

\* With purging switched off the sweep does not begin.
PurgeExpired ==
  /\ due # {}
  /\ \E es \in OldestDue(IF Cardinality(due) < Batch THEN Cardinality(due) ELSE Batch) :
       Begin(Sweeper, [Idle EXCEPT !.step = "next", !.todo = es])
  /\ KeepEntries
  /\ UNCHANGED <<rows, fails>>

\* In the order the database returns them in.
NextEntry(c) ==
  LET q == call[c]
  IN  /\ q.step = "next"
      /\ \E e \in q.todo :
           Goto(c, [q EXCEPT !.step = IF Kept(e) THEN "defer" ELSE "destroy",
                             !.root = e, !.todo = q.todo \ {e}])
      /\ KeepEntries
      /\ UNCHANGED <<rows, fails>>

\* deleteMany on the root; the foreign keys do the rest.
Destroy(c) ==
  LET q == call[c]
      taken == {r \in Removed[q.root] : Exists(r)}
  IN  /\ q.step = "destroy"
      /\ IF Exists(q.root) /\ Restricted(q.root)
           THEN Goto(c, [q EXCEPT !.step = "defer"]) /\ UNCHANGED rows
           ELSE /\ rows' = [r \in Rows |-> IF Exists(q.root) /\ r \in taken
                                             THEN "gone" ELSE rows[r]]
                /\ Goto(c, [q EXCEPT !.step = "drop"])
      /\ KeepEntries
      /\ UNCHANGED fails

Proceed(q) == IF q.todo = {} THEN Idle ELSE [q EXCEPT !.step = "next", !.root = None]

\* An entry that is gone is an error like any other.
DropEntry(c) ==
  LET q == call[c]
  IN  /\ q.step = "drop"
      /\ IF bin[q.root].filed
           THEN RemoveEntry(q.root) /\ Goto(c, Proceed(q))
           ELSE Goto(c, [q EXCEPT !.step = "defer"]) /\ KeepEntries
      /\ UNCHANGED <<rows, fails>>

\* An entry that is gone ends the whole run.
Defer(c) ==
  LET q == call[c]
  IN  /\ q.step = "defer"
      /\ IF bin[q.root].filed
           THEN /\ due' = due \ {q.root}
                /\ earlier' = [x \in Rows |-> IF x = q.root THEN {}
                                              ELSE earlier[x] \ {q.root}]
                /\ Goto(c, Proceed(q))
           ELSE Goto(c, Idle) /\ UNCHANGED <<due, earlier>>
      /\ UNCHANGED <<rows, bin, fails>>

-----------------------------------------------------------------------------
\* A deadline passes.
ComesDue(e) ==
  /\ bin[e].filed
  /\ e \notin due
  /\ due' = due \cup {e}
  /\ earlier' = [earlier EXCEPT ![e] = due]
  /\ UNCHANGED <<rows, bin, call, fails>>

\* Another part of the system inserts a row; a foreign key takes a deleted owner.
Insert(r) ==
  /\ rows[r] = "unborn"
  /\ \A o \in Owners[r] : Exists(o)
  /\ rows' = [rows EXCEPT ![r] = "live"]
  /\ KeepEntries
  /\ UNCHANGED <<call, fails>>

\* The process dies, or a statement of the request fails.
Fail(c) ==
  /\ call[c] # Idle
  /\ fails < MaxFails
  /\ fails' = fails + 1
  /\ Goto(c, Idle)
  /\ KeepEntries
  /\ UNCHANGED rows

Init ==
  /\ rows = [r \in Rows |-> IF r \in Unborn THEN "unborn" ELSE "live"]
  /\ bin = [r \in Rows |-> NoEntry]
  /\ due = {}
  /\ earlier = [r \in Rows |-> {}]
  /\ call = [c \in Processes |-> Idle]
  /\ fails = 0
  /\ spoilt = {}

Trashing(c) == Walk(c) \/ EndWalk(c) \/ ReadGroup(c) \/ StampGroup(c) \/ FileEntry(c)
Restoring(c) == ClearGroup(c) \/ EndRestore(c)
Purging(c) == NextEntry(c) \/ Destroy(c) \/ DropEntry(c) \/ Defer(c)
Work(c) == Trashing(c) \/ Restoring(c) \/ Purging(c)

Step ==
  \/ \E c \in Callers, r \in Rows : BeginTrash(c, r) \/ BeginRestore(c, r) \/ PurgeNow(c, r)
  \/ PurgeExpired
  \/ \E c \in Processes : Work(c) \/ Fail(c)
  \/ \E r \in Rows : ComesDue(r) \/ Insert(r)

\* A request meets another, or is for a row this has happened to.
Meets(c) ==
  \/ call'[c].root \in spoilt
  \/ \E d \in Processes \ {c} : InHand(call'[c]) \cap InHand(call'[d]) # {}

Observe ==
  LET meeting == {c \in Processes : Meets(c)}
      failing == {c \in Processes : fails' # fails /\ call'[c] # call[c]}
  IN  spoilt' = spoilt \cup (UNION {InHand(call'[c]) : c \in meeting})
                       \cup (UNION {InHand(call[c]) : c \in failing})

Next == Step /\ Observe

\* The queue runs the sweep every day, purging is on, and what has begun goes on.
Fairness ==
  /\ \A c \in Processes : WF_call(Work(c))
  /\ WF_call(PurgeExpired)

Spec == Init /\ [][Next]_vars
FairSpec == Spec /\ Fairness

-----------------------------------------------------------------------------
(* Properties *)

\* Every column holds a value of its type.
TypeOK ==
  /\ rows \in [Rows -> {"unborn", "live", "deleted", "gone"}]
  /\ bin \in [Rows -> Entry]
  /\ due \subseteq {e \in Rows : bin[e].filed}
  /\ earlier \in [Rows -> SUBSET due]
  /\ call \in [Processes -> Request]
  /\ fails \in 0 .. MaxFails
  /\ spoilt \subseteq Rows

\* Rows no accident has befallen.
Sound == Rows \ spoilt

HasWayBack(r) ==
  \/ \E e \in Rows : bin[e].filed /\ r \in Claim(e)
  \/ \E c \in Processes : r \in InHand(call[c])

\* The rows that hang off o, and those a purge of o may have left behind.
Below ==
  [o \in Rows |->
     {s \in Rows :
        \A below \in SUBSET Rows :
          o \in below /\ (\A x \in Rows : Owners[x] \cap below # {} => x \in below)
          => s \in below}]

LeftBehind(r) == \E o \in Rows : rows[o] = "gone" /\ r \in Below[o]

\* A deleted row has a way back: an entry claims it, or the request that is
\* deleting, restoring or purging it is still at work; unless it was in two hands
\* at once or in those of a process that died, or a purge left it behind.
DeletedHasWayBack ==
  \A r \in Sound : rows[r] = "deleted" => HasWayBack(r) \/ LeftBehind(r)

\* What an entry claims is what a restore has to put back: rows that are deleted,
\* each claimed by no other entry, however deletes of overlapping closures,
\* restores and purges follow one another.
EntriesAreExact ==
  \A e \in Rows :
    bin[e].filed /\ (\A c \in Processes : call[c].root # e) =>
      \A r \in Claim(e) \cap Sound :
        /\ rows[r] \in {"deleted", "gone"}
        /\ \A o \in Rows \ {e} : bin[o].filed => r \notin Claim(o)

\* A purge destroys a live row only together with a deleted one it hangs off: an
\* entry is gone before its row can be used again.
DestroysOnlyTrash ==
  [][\A r \in Sound' :
       rows[r] = "live" /\ rows'[r] = "gone" =>
         \E o \in Rows : rows[o] = "deleted" /\ r \in Removed[o]]_vars

\* The sweep is about to end because an entry it holds has been taken from it.
Aborts == call[Sweeper].step = "defer" /\ ~bin[call[Sweeper].root].filed

\* With purging on, an entry past its deadline is purged or put off, however
\* many others wait and however many cannot go, unless the sweep loses an entry to
\* another request and ends early.
DueIsSettled ==
  \A e \in Rows : e \in due ~> (e \notin due \/ Aborts)
=============================================================================
