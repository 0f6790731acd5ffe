----------------------------- MODULE TrashProofs -----------------------------
(***************************************************************************)
(* Proofs about the module Trash, for any rows, kinds and foreign keys, any *)
(* number of administrators and any size of the nightly batch.             *)
(***************************************************************************)
EXTENDS Trash, TLAPS

-----------------------------------------------------------------------------
(* The inductive invariant *)

Union(s) == UNION Range(s)

Trashes(q) == q.step \in {"walk", "read", "write"}
Restores(q) == q.step = "clear"

\* A request that is deleting starts from its root and deals with it last.
TrashShape(q) ==
  /\ q.root \in Rows
  /\ q.step = "walk" =>
       /\ q.groups # <<>> /\ q.groups[1] = {q.root} /\ q.changed = <<>>
       /\ \A i \in 2 .. Len(q.groups) : q.root \notin q.groups[i]
  /\ q.step # "walk" /\ q.groups # <<>> =>
       /\ q.groups[Len(q.groups)] = {q.root}
       /\ \A i \in 1 .. Len(q.groups) - 1 : q.root \notin q.groups[i]
       /\ q.root \notin Union(q.changed)
  /\ q.step = "write" => /\ q.groups # <<>> /\ q.ids # {}
                         /\ q.ids \subseteq q.groups[1]

\* What a request or the sweep has in hand fits the step it has come to.
ShapeOf(q) ==
  /\ q.step = "idle" => q = Idle
  /\ Trashes(q) => TrashShape(q)
  /\ Restores(q) => q.root \in Rows
  /\ q.step \in {"destroy", "drop", "defer"} => q.root \in Rows
  /\ Purges(q) => q.root \notin q.todo
  /\ ~Purges(q) => q.todo = {}
  /\ q.step = "next" => q.root = None
  /\ Purges(q) => q.groups = <<>> /\ q.changed = <<>>

Shapes == \A c \in Processes : ShapeOf(call[c])

\* The rows a request has been asked to deal with.
Asked(q) == q.todo \cup ({q.root} \ {None})

\* Rows with an entry, and those asked about, have once been inserted.
EntriesBorn == \A e \in Rows : bin[e].filed => rows[e] # "unborn"
HandsBorn == \A c \in Processes : \A e \in Asked(call[c]) : rows[e] # "unborn"

\* Whoever meets another, or begins with a row this has happened to, has nothing sound.
Observed ==
  /\ \A c, d \in Processes :
       c # d /\ InHand(call[c]) \cap InHand(call[d]) # {} => InHand(call[c]) \subseteq spoilt
  /\ \A c \in Processes : call[c].root \in spoilt => InHand(call[c]) \subseteq spoilt

TypeInv == TypeOK /\ Shapes /\ EntriesBorn /\ HandsBorn /\ Observed

\* Entries and deletes stay below their root.
EntriesBelow == \A e \in Rows : bin[e].filed => Claim(e) \subseteq Below[e]

BelowRoot(q) ==
  Trashes(q) => Union(q.groups) \cup Union(q.changed) \subseteq Below[q.root]

HandsBelow == \A c \in Processes : BelowRoot(call[c])

\* A delete under way: its root is live until its turn comes, what it is about to
\* stamp is live, what it has stamped is deleted and nobody's entry.
Deleting(c) ==
  LET q == call[c]
  IN  Trashes(q) =>
        /\ \A r \in Union(q.changed) \ spoilt :
             rows[r] = "deleted" /\ \A e \in Rows : bin[e].filed => r \notin Claim(e)
        /\ q.step = "write" => \A r \in q.ids \ spoilt : rows[r] = "live"
        /\ q.root \notin spoilt =>
             IF q.groups # <<>> THEN rows[q.root] = "live" ELSE RootStamped(q)

\* A restore under way: it brings back what its entry claims, and what it has
\* brought back is not deleted.
Bringing(c) ==
  LET q == call[c]
      held == Union(q.groups) \cup Union(q.changed)
  IN  Restores(q) =>
        /\ bin[q.root].filed => Claim(q.root) \subseteq held \cup spoilt
        /\ q.root \notin spoilt => bin[q.root].filed /\ held \subseteq Claim(q.root)
        /\ \A r \in Union(q.changed) \ spoilt : rows[r] # "deleted"

\* A purge under way: its entries are there until it drops them, and then the row
\* is gone.
Clearing(c) ==
  LET q == call[c]
  IN  Purges(q) =>
        /\ \A e \in Asked(q) \ spoilt : bin[e].filed
        /\ q.step = "drop" => rows[q.root] = "gone"

Standing(c) == Deleting(c) /\ Bringing(c) /\ Clearing(c)

BroughtBack(e, r) ==
  \E c \in Processes :
    Restores(call[c]) /\ call[c].root = e /\ r \in Union(call[c].changed)

\* What an entry claims is deleted, but for what a restore of it has brought back.
ClaimsHold ==
  \A e \in Rows : bin[e].filed =>
    \A r \in Claim(e) \ spoilt : rows[r] \in {"deleted", "gone"} \/ BroughtBack(e, r)

\* No row is claimed twice.
ClaimedOnce ==
  \A e, o \in Rows :
    bin[e].filed /\ bin[o].filed /\ e # o => Claim(e) \cap Claim(o) \subseteq spoilt

\* A deleted row is claimed, has just been stamped, or was left behind by a purge.
Accounted ==
  \A r \in Rows \ spoilt : rows[r] = "deleted" =>
    \/ \E e \in Rows : bin[e].filed /\ r \in Claim(e)
    \/ \E c \in Processes : Trashes(call[c]) /\ r \in Union(call[c].changed)
    \/ LeftBehind(r)

TrashInv ==
  /\ TypeInv /\ EntriesBelow /\ HandsBelow
  /\ \A c \in Processes : Standing(c)
  /\ ClaimsHold /\ ClaimedOnce /\ Accounted

-----------------------------------------------------------------------------
(* Lists of sets of rows *)

Groups == Seq(SUBSET Rows)

\* What a list of groups holds are rows.
LEMMA UnionOfGroups ==
  ASSUME NEW s \in Groups
  PROVE  /\ Union(s) \subseteq Rows
         /\ \A i \in 1 .. Len(s) : s[i] \subseteq Union(s)
         /\ \A r \in Union(s) : \E i \in 1 .. Len(s) : r \in s[i]
BY DEF Union, Range, Groups

\* The empty list and the list of one.
LEMMA UnionOfFew ==
  /\ <<>> \in Groups /\ Union(<<>>) = {}
  /\ \A g \in SUBSET Rows : <<g>> \in Groups /\ Union(<<g>>) = g
<1>1. <<>> \in Groups /\ Union(<<>>) = {}
  BY DEF Union, Range, Groups
<1>2. ASSUME NEW g \in SUBSET Rows PROVE <<g>> \in Groups /\ Union(<<g>>) = g
  <2>1. <<g>> \in Groups /\ DOMAIN <<g>> = {1} /\ <<g>>[1] = g
    BY DEF Groups
  <2> QED
    BY <2>1 DEF Union, Range
<1> QED
  BY <1>1, <1>2

\* A group put at the end.
LEMMA UnionOfAppend ==
  ASSUME NEW s \in Groups, NEW g \in SUBSET Rows
  PROVE  /\ Append(s, g) \in Groups /\ Append(s, g) # <<>>
         /\ Len(Append(s, g)) = Len(s) + 1
         /\ Append(s, g)[Len(s) + 1] = g
         /\ \A i \in 1 .. Len(s) : Append(s, g)[i] = s[i]
         /\ Union(Append(s, g)) = Union(s) \cup g
<1> DEFINE t == Append(s, g)
<1>1. /\ t \in Groups /\ t # <<>> /\ Len(t) = Len(s) + 1
      /\ t[Len(s) + 1] = g /\ \A i \in 1 .. Len(s) : t[i] = s[i]
  BY DEF Groups
<1>2. DOMAIN t = 1 .. Len(s) + 1 /\ DOMAIN s = 1 .. Len(s) /\ Len(s) \in Nat
  BY <1>1 DEF Groups
<1>3. Union(t) \subseteq Union(s) \cup g
  <2> SUFFICES ASSUME NEW i \in 1 .. Len(s) + 1, NEW r \in t[i]
               PROVE  r \in Union(s) \cup g
    BY <1>2 DEF Union, Range
  <2>1. CASE i \in 1 .. Len(s)
    BY <2>1, <1>1, UnionOfGroups
  <2>2. CASE i = Len(s) + 1
    BY <2>2, <1>1
  <2> QED
    BY <2>1, <2>2, <1>2
<1>4. Union(s) \subseteq Union(t) /\ g \subseteq Union(t)
  <2> HIDE DEF t
  <2>1. \A i \in 1 .. Len(t) : t[i] \subseteq Union(t)
    BY <1>1, UnionOfGroups
  <2>2. g \subseteq Union(t)
    BY <2>1, <1>1, <1>2
  <2>3. \A i \in 1 .. Len(s) : s[i] \subseteq Union(t)
    BY <2>1, <1>1, <1>2
  <2> QED
    BY <2>2, <2>3, UnionOfGroups
<1> QED
  BY <1>1, <1>3, <1>4

\* The first group taken off.
LEMMA UnionOfTail ==
  ASSUME NEW s \in Groups, s # <<>>
  PROVE  /\ Head(s) = s[1] /\ Head(s) \in SUBSET Rows
         /\ Tail(s) \in Groups /\ Len(Tail(s)) = Len(s) - 1 /\ Len(s) \in Nat \ {0}
         /\ \A i \in 1 .. Len(s) - 1 : Tail(s)[i] = s[i + 1]
         /\ Union(s) = Head(s) \cup Union(Tail(s))
<1> DEFINE t == Tail(s)
<1>1. /\ Head(s) = s[1] /\ Head(s) \in SUBSET Rows /\ Len(s) \in Nat \ {0}
      /\ t \in Groups /\ Len(t) = Len(s) - 1
      /\ \A i \in 1 .. Len(s) - 1 : t[i] = s[i + 1]
  BY DEF Groups
<1> HIDE DEF t
<1>2. Union(t) \subseteq Union(s)
  <2>1. \A i \in 1 .. Len(t) : t[i] \subseteq Union(s)
    <3> SUFFICES ASSUME NEW i \in 1 .. Len(t) PROVE t[i] \subseteq Union(s)
      OBVIOUS
    <3>1. t[i] = s[i + 1] /\ i + 1 \in 1 .. Len(s)
      BY <1>1
    <3> QED
      BY <3>1, UnionOfGroups
  <2> QED
    BY <2>1, <1>1, UnionOfGroups
<1>3. ASSUME NEW r \in Union(s) PROVE r \in Head(s) \cup Union(t)
  <2>1. PICK i \in 1 .. Len(s) : r \in s[i]
    BY UnionOfGroups
  <2>2. CASE i = 1
    BY <2>1, <2>2, <1>1
  <2>3. CASE i # 1
    <3>1. i - 1 \in 1 .. Len(t) /\ t[i - 1] = s[(i - 1) + 1] /\ (i - 1) + 1 = i
      BY <2>3, <1>1
    <3> QED
      BY <3>1, <2>1, <1>1, UnionOfGroups
  <2> QED
    BY <2>2, <2>3
<1>4. Head(s) \subseteq Union(s)
  BY <1>1, UnionOfGroups
<1> QED
  BY <1>1, <1>2, <1>3, <1>4 DEF t

\* The last group taken off.
LEMMA UnionOfFront ==
  ASSUME NEW s \in Groups, s # <<>>
  PROVE  /\ Front(s) \in Groups /\ Last(s) = s[Len(s)]
         /\ Union(s) = Union(Front(s)) \cup Last(s)
<1> DEFINE t == Front(s)
<1>1. /\ Last(s) = s[Len(s)] /\ Len(s) \in Nat \ {0}
      /\ t \in Groups /\ Len(t) = Len(s) - 1
      /\ \A i \in 1 .. Len(s) - 1 : t[i] = s[i]
  <2> DEFINE n == Len(s) - 1
  <2>1. /\ n \in Nat /\ Len(s) = n + 1 /\ s \in Seq(SUBSET Rows)
        /\ \A i \in 1 .. n : s[i] \in SUBSET Rows
    BY DEF Groups
  <2>2. t = SubSeq(s, 1, n) /\ Last(s) = s[Len(s)]
    BY DEF Front, Last
  <2> HIDE DEF n, t
  <2>3. t = [i \in 1 .. n |-> s[i]]
    BY <2>1, <2>2
  <2>4. t \in Seq(SUBSET Rows) /\ Len(t) = n /\ \A i \in 1 .. n : t[i] = s[i]
    BY <2>1, <2>3
  <2> QED
    BY <2>1, <2>2, <2>4 DEF n, Groups
<1> HIDE DEF t
<1>2. Union(t) \subseteq Union(s)
  <2>1. \A i \in 1 .. Len(t) : t[i] \subseteq Union(s)
    BY <1>1, UnionOfGroups
  <2> QED
    BY <2>1, <1>1, UnionOfGroups
<1>3. ASSUME NEW r \in Union(s) PROVE r \in Last(s) \cup Union(t)
  <2>1. PICK i \in 1 .. Len(s) : r \in s[i]
    BY UnionOfGroups
  <2>2. CASE i = Len(s)
    BY <2>1, <2>2, <1>1
  <2>3. CASE i # Len(s)
    <3>1. i \in 1 .. Len(t) /\ t[i] = s[i]
      BY <2>3, <1>1
    <3> QED
      BY <3>1, <2>1, <1>1, UnionOfGroups
  <2> QED
    BY <2>2, <2>3
<1>4. Last(s) \subseteq Union(s)
  BY <1>1, UnionOfGroups
<1> QED
  BY <1>1, <1>2, <1>3, <1>4 DEF t

\* What a restore goes through: the entry's row, then its cascade backwards.
LEMMA UnionOfRestore ==
  ASSUME NEW s \in Groups, NEW g \in SUBSET Rows
  PROVE  /\ <<g>> \o Reverse(s) \in Groups
         /\ Union(<<g>> \o Reverse(s)) = g \cup Union(s)
<1> DEFINE t == Reverse(s)
           u == <<g>> \o t
<1>1. t \in Groups /\ Len(t) = Len(s) /\ \A i \in 1 .. Len(s) : t[i] = s[(Len(s) - i) + 1]
  BY DEF Groups, Reverse
<1> HIDE DEF t
<1>2. u \in Groups /\ Len(u) = Len(s) + 1 /\ u[1] = g /\ Len(s) \in Nat
      /\ \A i \in 1 .. Len(s) : u[i + 1] = t[i]
  BY <1>1 DEF Groups
<1> HIDE DEF u
<1>3. \A i \in 1 .. Len(s) : u[i + 1] = s[(Len(s) - i) + 1]
  BY <1>1, <1>2
<1>4. ASSUME NEW r \in Union(u) PROVE r \in g \cup Union(s)
  <2>1. PICK i \in 1 .. Len(u) : r \in u[i]
    BY <1>2, UnionOfGroups
  <2>2. CASE i = 1
    BY <2>1, <2>2, <1>2
  <2>3. CASE i # 1
    <3> DEFINE j == (Len(s) - (i - 1)) + 1
    <3>1. i - 1 \in 1 .. Len(s) /\ (i - 1) + 1 = i /\ j \in 1 .. Len(s)
      BY <2>3, <1>2
    <3>2. u[i] = s[j]
      BY <3>1, <1>3
    <3> QED
      BY <3>1, <3>2, <2>1, UnionOfGroups
  <2> QED
    BY <2>2, <2>3
<1>5. ASSUME NEW r \in Union(s) PROVE r \in Union(u)
  <2>1. PICK i \in 1 .. Len(s) : r \in s[i]
    BY UnionOfGroups
  <2> DEFINE j == (Len(s) - i) + 1
  <2>2. j \in 1 .. Len(s) /\ (Len(s) - j) + 1 = i /\ j + 1 \in 1 .. Len(u)
    BY <1>2
  <2>3. u[j + 1] = s[i]
    BY <2>2, <1>3
  <2> QED
    BY <2>1, <2>2, <2>3, <1>2, UnionOfGroups
<1>6. g \subseteq Union(u)
  BY <1>2, UnionOfGroups
<1> QED
  BY <1>2, <1>4, <1>5, <1>6 DEF u, t

-----------------------------------------------------------------------------
(* What hangs together, and what a request has in hand *)

\* A row is removed with itself, and hangs below itself and what hangs below it.
LEMMA RemovedAndBelow ==
  ASSUME NEW r \in Rows
  PROVE  /\ Removed[r] \subseteq Rows /\ r \in Removed[r]
         /\ r \in Below[r]
         /\ \A x \in Rows : Owners[x] \cap Below[r] # {} => x \in Below[r]
<1>1. Removed[r] \subseteq Rows /\ r \in Removed[r]
  BY DEF Removed
<1>2. r \in Below[r]
  BY DEF Below
<1>3. ASSUME NEW x \in Rows, Owners[x] \cap Below[r] # {}
      PROVE  x \in Below[r]
  <2>1. PICK o \in Owners[x] : o \in Below[r]
    BY <1>3
  <2>2. ASSUME NEW below \in SUBSET Rows, r \in below,
               \A z \in Rows : Owners[z] \cap below # {} => z \in below
        PROVE  x \in below
    <3>1. o \in below
      BY <2>1, <2>2 DEF Below
    <3> QED
      BY <3>1, <2>1, <2>2
  <2> QED
    BY <2>2 DEF Below
<1> QED
  BY <1>1, <1>2, <1>3

\* The types of a request's columns.
LEMMA RequestFields ==
  ASSUME NEW q \in Request
  PROVE  /\ q.step \in Steps /\ q.root \in Rows \cup {None} /\ q.groups \in Groups
         /\ q.at \in Nat \X Nat /\ q.ids \in SUBSET Rows /\ q.changed \in Groups
         /\ q.todo \in SUBSET Rows
BY DEF Request, Groups

\* What a request has in hand: its root, its groups, what it has changed, and all
\* that would go with the entries it is to purge.
LEMMA HandHolds ==
  ASSUME NEW q \in Request
  PROVE  /\ InHand(q) \subseteq Rows
         /\ q.root \in Rows => q.root \in InHand(q)
         /\ Union(q.groups) \subseteq InHand(q) /\ Union(q.changed) \subseteq InHand(q)
         /\ \A e \in q.todo : e \in InHand(q) /\ Removed[e] \subseteq InHand(q)
         /\ Purges(q) /\ q.root \in Rows => Removed[q.root] \subseteq InHand(q)
<1> DEFINE entries == q.todo \cup IF Purges(q) THEN {q.root} \ {None} ELSE {}
<1>1. InHand(q) = ({q.root} \ {None}) \cup Union(q.groups) \cup Union(q.changed)
                    \cup UNION {Removed[e] : e \in entries}
  BY DEF InHand, Union
<1>2. entries \subseteq Rows /\ q.todo \subseteq entries
  BY RequestFields
<1>3. None \notin Rows
  BY TrashAssumption
<1>4. Purges(q) /\ q.root \in Rows => q.root \in entries
  BY <1>3
<1> HIDE DEF entries
<1>5. \A e \in entries : Removed[e] \subseteq InHand(q) /\ Removed[e] \subseteq Rows /\ e \in Removed[e]
  BY <1>1, <1>2, RemovedAndBelow
<1>6. UNION {Removed[e] : e \in entries} \subseteq Rows
  BY <1>5
<1>7. Union(q.groups) \subseteq Rows /\ Union(q.changed) \subseteq Rows
  BY RequestFields, UnionOfGroups
<1>8. q.root \in Rows \cup {None}
  BY RequestFields
<1>9. InHand(q) \subseteq Rows
  BY <1>1, <1>6, <1>7, <1>8
<1>10. q.root \in Rows => q.root \in InHand(q)
  BY <1>1, <1>3
<1>11. Union(q.groups) \subseteq InHand(q) /\ Union(q.changed) \subseteq InHand(q)
  BY <1>1
<1> QED
  BY <1>2, <1>4, <1>5, <1>9, <1>10, <1>11

\* A request that is not under way has nothing in hand.
LEMMA IdleHolds ==
  /\ Idle \in Request /\ ShapeOf(Idle) /\ InHand(Idle) = {}
  /\ Idle.step = "idle" /\ Idle.root = None /\ Idle.todo = {} /\ Idle.ids = {}
  /\ Idle.groups = <<>> /\ Idle.changed = <<>> /\ Asked(Idle) = {}
  /\ ~Trashes(Idle) /\ ~Restores(Idle) /\ ~Purges(Idle)
<1>1. /\ Idle.step = "idle" /\ Idle.root = None /\ Idle.todo = {} /\ Idle.ids = {}
      /\ Idle.groups = <<>> /\ Idle.changed = <<>> /\ Idle.at = <<1, 0>>
  BY DEF Idle
<1>2. ~Trashes(Idle) /\ ~Restores(Idle) /\ ~Purges(Idle)
  BY <1>1 DEF Trashes, Restores, Purges
<1>3. ShapeOf(Idle) /\ Asked(Idle) = {}
  BY <1>1, <1>2 DEF ShapeOf, Asked
<1>4. <<>> \in Seq(SUBSET Rows) /\ <<1, 0>> \in Nat \X Nat
  OBVIOUS
<1>5. Idle \in Request
  BY <1>4 DEF Idle, Request, Steps
<1>6. Union(<<>>) = {}
  BY UnionOfFew
<1>7. InHand(Idle) = {}
  BY <1>1, <1>2, <1>6 DEF InHand, Union
<1> QED
  BY <1>1, <1>2, <1>3, <1>5, <1>7

-----------------------------------------------------------------------------
(* Types, shapes, and rows once inserted *)

Statuses == {"unborn", "live", "deleted", "gone"}

Tables ==
  /\ rows \in [Rows -> Statuses]
  /\ bin \in [Rows -> Entry]
  /\ due \subseteq {e \in Rows : bin[e].filed}
  /\ earlier \in [Rows -> SUBSET due]
  /\ fails \in 0 .. MaxFails

Typed ==
  /\ Tables /\ Shapes /\ EntriesBorn /\ HandsBorn
  /\ call \in [Processes -> Request]

\* What a step writes to the rows: nothing is uninserted, nothing comes back once gone.
RowsGoOn ==
  \A r \in Rows : /\ rows'[r] = "unborn" => rows[r] = "unborn"
                  /\ rows[r] = "gone" => rows'[r] = "gone"

\* Only c's request goes on.
OnlyBy(c) == \A d \in Processes \ {c} : call'[d] = call[d]

\* A request that goes on with something of the right shape keeps what holds of requests.
LEMMA RequestGoesOn ==
  ASSUME Typed, NEW c \in Processes, NEW q \in Request, ShapeOf(q), Goto(c, q), RowsGoOn,
         \A e \in Asked(q) : rows[e] # "unborn"
  PROVE  /\ call' \in [Processes -> Request] /\ call'[c] = q /\ OnlyBy(c)
         /\ Shapes' /\ HandsBorn'
<1>1. /\ call' \in [Processes -> Request] /\ call'[c] = q
      /\ \A d \in Processes \ {c} : call'[d] = call[d]
  BY DEF Goto, Typed
<1>2. ASSUME NEW d \in Processes PROVE ShapeOf(call'[d])
  BY <1>1 DEF Typed, Shapes
<1>3. ASSUME NEW d \in Processes, NEW e \in Asked(call'[d]) PROVE rows'[e] # "unborn"
  <2>1. call'[d] \in Request /\ (d # c => call'[d] = call[d])
    BY <1>1
  <2>2. e \in Rows
    BY <2>1, RequestFields DEF Asked
  <2>3. rows[e] # "unborn"
    BY <1>1 DEF Typed, HandsBorn
  <2> QED
    BY <2>2, <2>3 DEF RowsGoOn
<1> QED
  BY <1>1, <1>2, <1>3 DEF Shapes, HandsBorn, OnlyBy

\* Nothing is done to the tables.
LEMMA NothingWritten ==
  ASSUME Typed, UNCHANGED <<rows, fails>>, KeepEntries
  PROVE  Tables' /\ EntriesBorn' /\ RowsGoOn
BY DEF Typed, Tables, EntriesBorn, RowsGoOn, KeepEntries

\* An entry is removed, and its deadline with it.
LEMMA EntryRemoved ==
  ASSUME Typed, NEW e \in Rows, RemoveEntry(e), UNCHANGED <<rows, fails>>
  PROVE  /\ Tables' /\ EntriesBorn' /\ RowsGoOn
         /\ ~bin'[e].filed /\ \A x \in Rows \ {e} : bin'[x] = bin[x]
<1>1. NoEntry \in Entry /\ ~NoEntry.filed
  BY DEF NoEntry, Entry
<1>2. /\ bin' \in [Rows -> Entry] /\ ~bin'[e].filed
      /\ \A x \in Rows \ {e} : bin'[x] = bin[x]
  BY <1>1 DEF RemoveEntry, Typed, Tables
<1>3. due' = due \ {e} /\ due' \subseteq {x \in Rows : bin'[x].filed}
  BY <1>2 DEF RemoveEntry, Typed, Tables
<1>4. earlier' \in [Rows -> SUBSET due']
  BY <1>3 DEF RemoveEntry, Typed, Tables
<1> QED
  BY <1>2, <1>3, <1>4 DEF Typed, Tables, EntriesBorn, RowsGoOn

\* A delete begins with its root in hand.
LEMMA BeginTrashTyped ==
  ASSUME Typed, NEW c \in Callers, NEW r \in Rows, BeginTrash(c, r)
  PROVE  Typed' /\ RowsGoOn /\ OnlyBy(c)
<1> DEFINE q == [Idle EXCEPT !.step = "walk", !.root = r, !.groups = <<{r}>>]
<1>1. /\ q.step = "walk" /\ q.root = r /\ q.groups = <<{r}>> /\ q.ids = {}
      /\ q.changed = <<>> /\ q.todo = {} /\ q \in Request
  BY IdleHolds, UnionOfFew DEF Request, Steps, Groups
<1>2. Goto(c, q) /\ rows[r] = "live"
  BY DEF BeginTrash, Begin
<1> HIDE DEF q
<1>3. ShapeOf(q)
  <2>1. q.groups # <<>> /\ q.groups[1] = {r} /\ Len(q.groups) = 1
    BY <1>1
  <2>2. TrashShape(q)
    BY <1>1, <2>1 DEF TrashShape
  <2> QED
    BY <1>1, <2>2, TrashAssumption DEF ShapeOf, Trashes, Restores, Purges
<1>4. Asked(q) = {r} \ {None}
  BY <1>1 DEF Asked
<1>5. Tables' /\ EntriesBorn' /\ RowsGoOn
  BY NothingWritten DEF BeginTrash
<1> QED
  BY <1>1, <1>2, <1>3, <1>4, <1>5, RequestGoesOn DEF Typed, Processes

\* What a query returns are rows below those it asks about, not seen before.
LEMMA FoundRows ==
  ASSUME NEW q \in Request, q.groups # <<>>, NEW p \in Queries(q)
  PROVE  /\ p \in Nat \X Nat /\ Found(q, p) \in SUBSET Rows
         /\ Found(q, p) \cap Union(q.groups) = {}
         /\ \A s \in Found(q, p) : Owners[s] \cap Union(q.groups) # {}
<1>1. p \in (DOMAIN q.groups) \X (1 .. 7)
  BY DEF Queries
<1>2. q.groups \in Groups /\ DOMAIN q.groups = 1 .. Len(q.groups)
  BY RequestFields DEF Groups
<1>3. p[1] \in 1 .. Len(q.groups) /\ p \in Nat \X Nat
  BY <1>1, <1>2
<1>4. q.groups[p[1]] \subseteq Union(q.groups)
  BY <1>2, <1>3, UnionOfGroups
<1>5. \A s \in Found(q, p) :
        s \in Rows /\ s \notin Union(q.groups) /\ \E o \in q.groups[p[1]] : o \in Owners[s]
  BY DEF Found, References, Union
<1> QED
  BY <1>3, <1>4, <1>5

\* The walk takes rows below its root in hand, each in one group;
LEMMA WalkTyped ==
  ASSUME Typed, NEW c \in Processes, Walk(c)
  PROVE  Typed' /\ RowsGoOn /\ OnlyBy(c)
<1> DEFINE q == call[c]
<1>1. q \in Request /\ q.step = "walk" /\ ShapeOf(q)
  BY DEF Typed, Walk, Shapes
<1>2. PICK p \in Queries(q) : Goto(c, [q EXCEPT !.at = p, !.groups = Append(@, Found(q, p))])
  BY DEF Walk
<1> DEFINE n == [q EXCEPT !.at = p, !.groups = Append(@, Found(q, p))]
<1>3. Tables' /\ EntriesBorn' /\ RowsGoOn /\ \A e \in Asked(q) : rows[e] # "unborn"
  BY NothingWritten DEF Walk, Typed, HandsBorn
<1> HIDE DEF q
<1>4. TrashShape(q) /\ q.todo = {}
  BY <1>1 DEF ShapeOf, Trashes, Purges
<1>5. /\ p \in Nat \X Nat /\ Found(q, p) \in SUBSET Rows
      /\ Found(q, p) \cap Union(q.groups) = {} /\ q.groups \in Groups
  BY <1>1, <1>4, FoundRows, RequestFields DEF TrashShape
<1> DEFINE g == Append(q.groups, Found(q, p))
<1>6. /\ g \in Groups /\ g # <<>> /\ Len(g) = Len(q.groups) + 1
      /\ g[Len(q.groups) + 1] = Found(q, p) /\ \A i \in 1 .. Len(q.groups) : g[i] = q.groups[i]
  BY <1>5, UnionOfAppend
<1>7. /\ n.step = "walk" /\ n.root = q.root /\ n.groups = g /\ n.ids = q.ids
      /\ n.changed = q.changed /\ n.todo = q.todo /\ n \in Request
  BY <1>1, <1>5, <1>6 DEF Request, Groups
<1> HIDE DEF n, g
<1>8. TrashShape(n)
  <2>1. q.groups # <<>> /\ q.groups[1] = {q.root} /\ q.root \in Rows
    BY <1>1, <1>4 DEF TrashShape
  <2>2. Len(q.groups) \in Nat /\ Len(q.groups) # 0
    BY <2>1, <1>5 DEF Groups
  <2>3. g[1] = {q.root}
    BY <2>1, <2>2, <1>6
  <2>4. q.root \notin Found(q, p)
    <3>1. {q.root} \subseteq Union(q.groups)
      BY <2>1, <2>2, <1>5, UnionOfGroups
    <3> QED
      BY <3>1, <1>5
  <2>5. \A i \in 2 .. Len(g) : q.root \notin g[i]
    <3> SUFFICES ASSUME NEW i \in 2 .. Len(g) PROVE q.root \notin g[i]
      OBVIOUS
    <3>1. CASE i = Len(q.groups) + 1
      BY <3>1, <2>4, <1>6
    <3>2. CASE i # Len(q.groups) + 1
      <4>1. i \in 2 .. Len(q.groups) /\ i \in 1 .. Len(q.groups)
        BY <3>2, <2>2, <1>6
      <4> QED
        BY <4>1, <1>1, <1>4, <1>6 DEF TrashShape
    <3> QED
      BY <3>1, <3>2
  <2> QED
    BY <1>1, <1>4, <1>6, <1>7, <2>1, <2>3, <2>5 DEF TrashShape
<1>9. ShapeOf(n) /\ Asked(n) = Asked(q)
  BY <1>4, <1>7, <1>8 DEF ShapeOf, Trashes, Restores, Purges, Asked
<1> QED
  BY <1>2, <1>3, <1>7, <1>9, RequestGoesOn DEF Typed, n

\* it ends with the groups to be stamped, the root last.
LEMMA EndWalkTyped ==
  ASSUME Typed, NEW c \in Processes, EndWalk(c)
  PROVE  Typed' /\ RowsGoOn /\ OnlyBy(c)
<1> DEFINE q == call[c]
           g == Append(Tail(q.groups), Head(q.groups))
           n == [q EXCEPT !.step = "read", !.at = <<1, 0>>, !.groups = g]
<1>1. q \in Request /\ q.step = "walk" /\ ShapeOf(q) /\ Goto(c, n)
  BY DEF Typed, EndWalk, Shapes
<1>2. Tables' /\ EntriesBorn' /\ RowsGoOn /\ \A e \in Asked(q) : rows[e] # "unborn"
  BY NothingWritten DEF EndWalk, Typed, HandsBorn
<1> HIDE DEF q
<1>3. TrashShape(q) /\ q.todo = {} /\ q.groups \in Groups /\ q.groups # <<>>
  BY <1>1, RequestFields DEF ShapeOf, Trashes, Purges, TrashShape
<1> DEFINE t == Tail(q.groups)
<1>4. /\ Head(q.groups) = q.groups[1] /\ Head(q.groups) \in SUBSET Rows
      /\ t \in Groups /\ Len(t) = Len(q.groups) - 1 /\ Len(q.groups) \in Nat \ {0}
      /\ \A i \in 1 .. Len(q.groups) - 1 : t[i] = q.groups[i + 1]
  BY <1>3, UnionOfTail
<1> HIDE DEF t
<1>5. /\ g \in Groups /\ g # <<>> /\ Len(g) = Len(t) + 1
      /\ g[Len(t) + 1] = Head(q.groups) /\ \A i \in 1 .. Len(t) : g[i] = t[i]
  BY <1>4, UnionOfAppend DEF t
<1>6. /\ n.step = "read" /\ n.root = q.root /\ n.groups = g /\ n.ids = q.ids
      /\ n.changed = q.changed /\ n.todo = q.todo /\ n \in Request
  BY <1>1, <1>5 DEF Request, Groups, Steps
<1> HIDE DEF n, g
<1>7. TrashShape(n)
  <2>1. /\ q.groups[1] = {q.root} /\ q.root \in Rows /\ q.changed = <<>>
        /\ \A i \in 2 .. Len(q.groups) : q.root \notin q.groups[i]
    BY <1>1, <1>3 DEF TrashShape
  <2>2. g[Len(g)] = {q.root}
    BY <2>1, <1>4, <1>5
  <2>3. \A i \in 1 .. Len(g) - 1 : q.root \notin g[i]
    <3> SUFFICES ASSUME NEW i \in 1 .. Len(g) - 1 PROVE q.root \notin g[i]
      OBVIOUS
    <3>1. i \in 1 .. Len(t) /\ i + 1 \in 2 .. Len(q.groups)
      BY <1>4, <1>5
    <3> QED
      BY <3>1, <2>1, <1>4, <1>5
  <2>4. Union(n.changed) = {}
    BY <2>1, <1>6, UnionOfFew
  <2> QED
    BY <1>6, <2>1, <2>2, <2>3, <2>4 DEF TrashShape
<1>8. ShapeOf(n) /\ Asked(n) = Asked(q)
  BY <1>3, <1>6, <1>7 DEF ShapeOf, Trashes, Restores, Purges, Asked
<1> QED
  BY <1>1, <1>2, <1>6, <1>8, RequestGoesOn DEF Typed

\* Taking a group off the list leaves the root the last.
LEMMA TailShape ==
  ASSUME NEW q \in Request, NEW n \in Request, TrashShape(q), q.step \in {"read", "write"},
         q.groups # <<>>, n.step = "read", n.root = q.root, n.groups = Tail(q.groups),
         n.groups # <<>> => q.root \notin Union(n.changed)
  PROVE  TrashShape(n)
<1> DEFINE t == Tail(q.groups)
<1>1. /\ t \in Groups /\ Len(t) = Len(q.groups) - 1 /\ Len(q.groups) \in Nat \ {0}
      /\ \A i \in 1 .. Len(q.groups) - 1 : t[i] = q.groups[i + 1]
  BY RequestFields, UnionOfTail
<1> HIDE DEF t
<1>2. /\ q.groups[Len(q.groups)] = {q.root} /\ q.root \in Rows
      /\ \A i \in 1 .. Len(q.groups) - 1 : q.root \notin q.groups[i]
  BY DEF TrashShape
<1>3. CASE t # <<>>
  <2>1. Len(t) \in Nat \ {0}
    BY <1>1, <1>3 DEF Groups
  <2>2. t[Len(t)] = {q.root}
    <3> DEFINE m == Len(t)
               k == Len(q.groups)
    <3>0. m \in Nat \ {0} /\ k \in Nat \ {0} /\ m = k - 1
      BY <2>1, <1>1
    <3> HIDE DEF m, k
    <3>1. m \in 1 .. k - 1 /\ m + 1 = k
      BY <3>0
    <3> USE DEF m, k
    <3> QED
      BY <3>1, <1>1, <1>2
  <2>3. \A i \in 1 .. Len(t) - 1 : q.root \notin t[i]
    <3> SUFFICES ASSUME NEW i \in 1 .. Len(t) - 1 PROVE q.root \notin t[i]
      OBVIOUS
    <3>1. i \in 1 .. Len(q.groups) - 1 /\ i + 1 \in 1 .. Len(q.groups) - 1
      BY <2>1, <1>1
    <3> QED
      BY <3>1, <1>1, <1>2
  <2> QED
    BY <2>2, <2>3, <1>2, <1>3 DEF TrashShape, t
<1>4. CASE t = <<>>
  BY <1>2, <1>4 DEF TrashShape, t
<1> QED
  BY <1>3, <1>4

\* Of a group, the rows still live are read.
LEMMA ReadGroupTyped ==
  ASSUME Typed, NEW c \in Processes, ReadGroup(c)
  PROVE  Typed' /\ RowsGoOn /\ OnlyBy(c)
<1> DEFINE q == call[c]
           found == LiveOf(Head(q.groups))
           skip == [q EXCEPT !.groups = Tail(q.groups)]
           go == [q EXCEPT !.step = "write", !.ids = found]
<1>1. /\ q \in Request /\ q.step = "read" /\ ShapeOf(q) /\ q.groups # <<>>
      /\ (found = {} /\ Goto(c, skip)) \/ (found # {} /\ Goto(c, go))
  BY DEF Typed, ReadGroup, Shapes
<1>2. Tables' /\ EntriesBorn' /\ RowsGoOn /\ \A e \in Asked(q) : rows[e] # "unborn"
  BY NothingWritten DEF ReadGroup, Typed, HandsBorn
<1>3. found \subseteq Head(q.groups)
  BY DEF LiveOf
<1> HIDE DEF q, found
<1>4. /\ TrashShape(q) /\ q.todo = {} /\ Head(q.groups) = q.groups[1]
      /\ Head(q.groups) \in SUBSET Rows /\ Tail(q.groups) \in Groups
  BY <1>1, RequestFields, UnionOfTail DEF ShapeOf, Trashes, Purges
<1>5. CASE found = {} /\ Goto(c, skip)
  <2>1. /\ skip.step = "read" /\ skip.root = q.root /\ skip.groups = Tail(q.groups)
        /\ skip.changed = q.changed /\ skip.todo = q.todo /\ skip \in Request
    BY <1>1, <1>4 DEF Request, Groups
  <2> HIDE DEF skip
  <2>2. q.root \notin Union(skip.changed)
    BY <1>1, <1>4, <2>1 DEF TrashShape
  <2>3. TrashShape(skip)
    BY <1>1, <1>4, <2>1, <2>2, TailShape
  <2>4. ShapeOf(skip) /\ Asked(skip) = Asked(q)
    BY <1>4, <2>1, <2>3 DEF ShapeOf, Trashes, Restores, Purges, Asked
  <2> QED
    BY <1>2, <1>5, <2>1, <2>4, RequestGoesOn DEF Typed
<1>6. CASE found # {} /\ Goto(c, go)
  <2>1. /\ go.step = "write" /\ go.root = q.root /\ go.groups = q.groups
        /\ go.changed = q.changed /\ go.todo = q.todo /\ go.ids = found
    BY <1>1 DEF Request
  <2>2. go \in Request
    BY <1>1, <1>3, <1>4 DEF Request, Steps
  <2> HIDE DEF go
  <2>3. TrashShape(go)
    BY <1>1, <1>3, <1>4, <1>6, <2>1 DEF TrashShape
  <2>4. ShapeOf(go) /\ Asked(go) = Asked(q)
    BY <1>4, <2>1, <2>3 DEF ShapeOf, Trashes, Restores, Purges, Asked
  <2> QED
    BY <1>2, <1>6, <2>1, <2>2, <2>4, RequestGoesOn DEF Typed
<1> QED
  BY <1>1, <1>5, <1>6

\* Only the rows are written.
LEMMA RowsWritten ==
  ASSUME Typed, UNCHANGED fails, KeepEntries, rows' \in [Rows -> Statuses], RowsGoOn
  PROVE  Tables' /\ EntriesBorn'
BY DEF Typed, Tables, EntriesBorn, RowsGoOn, KeepEntries

\* A list with something left once its first group is taken off.
LEMMA MoreThanOne ==
  ASSUME NEW s \in Groups, s # <<>>, Tail(s) # <<>>
  PROVE  1 \in 1 .. Len(s) - 1
<1> DEFINE t == Tail(s)
           m == Len(t)
           k == Len(s)
<1>1. t \in Groups /\ t # <<>> /\ k \in Nat \ {0} /\ m = k - 1
  BY UnionOfTail
<1>2. m \in Nat /\ m # 0
  <2> HIDE DEF t
  <2> QED
    BY <1>1 DEF Groups
<1> HIDE DEF m, k, t
<1>3. 1 \in 1 .. k - 1
  BY <1>1, <1>2
<1> QED
  BY <1>3 DEF k

\* What was read is deleted, and joins what has changed.
LEMMA StampGroupTyped ==
  ASSUME Typed, NEW c \in Processes, StampGroup(c)
  PROVE  Typed' /\ RowsGoOn /\ OnlyBy(c)
<1> DEFINE q == call[c]
           n == [q EXCEPT !.step = "read", !.groups = Tail(q.groups), !.ids = {},
                          !.changed = Append(q.changed, q.ids)]
<1>1. q \in Request /\ q.step = "write" /\ ShapeOf(q) /\ Goto(c, n)
  BY DEF Typed, StampGroup, Shapes
<1>2. \A e \in Asked(q) : rows[e] # "unborn"
  BY DEF Typed, HandsBorn
<1>3. rows' \in [Rows -> Statuses] /\ RowsGoOn /\ UNCHANGED fails /\ KeepEntries
  <2>1. rows' = [r \in Rows |-> IF r \in q.ids /\ rows[r] = "live" THEN "deleted" ELSE rows[r]]
    BY DEF StampGroup
  <2> HIDE DEF q
  <2> QED
    BY <2>1 DEF StampGroup, Typed, Tables, Statuses, RowsGoOn
<1>4. Tables' /\ EntriesBorn'
  BY <1>3, RowsWritten
<1> HIDE DEF q
<1>5. /\ TrashShape(q) /\ q.todo = {} /\ q.changed \in Groups /\ q.ids \in SUBSET Rows
      /\ q.groups \in Groups /\ q.groups # <<>> /\ q.ids \subseteq q.groups[1]
  BY <1>1, RequestFields DEF ShapeOf, Trashes, Purges, TrashShape
<1>6. /\ Tail(q.groups) \in Groups /\ Len(q.groups) \in Nat \ {0}
      /\ Len(Tail(q.groups)) = Len(q.groups) - 1
      /\ Append(q.changed, q.ids) \in Groups
      /\ Union(Append(q.changed, q.ids)) = Union(q.changed) \cup q.ids
  BY <1>5, UnionOfTail, UnionOfAppend
<1>7. /\ n.step = "read" /\ n.root = q.root /\ n.groups = Tail(q.groups) /\ n.todo = q.todo
      /\ n.changed = Append(q.changed, q.ids) /\ n \in Request
  BY <1>1, <1>6 DEF Request, Groups, Steps
<1> HIDE DEF n
<1>8. ASSUME n.groups # <<>> PROVE q.root \notin Union(n.changed)
  <2>2. 1 \in 1 .. Len(q.groups) - 1
    BY <1>5, <1>7, <1>8, MoreThanOne
  <2>3. q.root \notin q.groups[1] /\ q.root \notin Union(q.changed)
    BY <2>2, <1>1, <1>5 DEF TrashShape
  <2> QED
    BY <2>3, <1>5, <1>6, <1>7
<1>9. TrashShape(n)
  BY <1>1, <1>5, <1>7, <1>8, TailShape
<1>10. ShapeOf(n) /\ Asked(n) = Asked(q)
  BY <1>5, <1>7, <1>9 DEF ShapeOf, Trashes, Restores, Purges, Asked
<1> QED
  BY <1>1, <1>2, <1>3, <1>4, <1>7, <1>10, RequestGoesOn DEF Typed

\* A request that ends.
LEMMA RequestEnds ==
  ASSUME Typed, NEW c \in Processes, Goto(c, Idle), RowsGoOn
  PROVE  /\ call' \in [Processes -> Request] /\ call'[c] = Idle /\ OnlyBy(c)
         /\ Shapes' /\ HandsBorn'
BY RequestGoesOn, IdleHolds

\* The entry filed claims rows that were born.
LEMMA FileEntryTyped ==
  ASSUME Typed, NEW c \in Processes, FileEntry(c)
  PROVE  Typed' /\ RowsGoOn /\ OnlyBy(c)
<1> DEFINE q == call[c]
           new == [filed |-> TRUE, cascade |-> Front(q.changed)]
<1>1. /\ q \in Request /\ q.step = "read" /\ ShapeOf(q) /\ Goto(c, Idle)
      /\ bin' = IF RootStamped(q) /\ ~bin[q.root].filed THEN [bin EXCEPT ![q.root] = new]
                                                        ELSE bin
      /\ UNCHANGED <<rows, due, earlier, fails>>
  BY DEF Typed, FileEntry, Shapes
<1>2. RowsGoOn
  BY <1>1 DEF RowsGoOn
<1>3. rows[q.root] # "unborn" /\ q.root \in Rows
  <2>1. q.root \in Rows
    BY <1>1 DEF ShapeOf, Trashes, TrashShape
  <2>2. q.root \in Asked(call[c])
    BY <2>1, TrashAssumption DEF Asked
  <2> QED
    BY <2>1, <2>2 DEF Typed, HandsBorn
<1> HIDE DEF q
<1>4. RootStamped(q) => new \in Entry
  BY <1>1, RequestFields, UnionOfFront DEF RootStamped, Entry, Groups
<1>5. Tables' /\ EntriesBorn'
  <2>1. CASE RootStamped(q) /\ ~bin[q.root].filed
    <3>1. new \in Entry /\ new.filed /\ bin' = [bin EXCEPT ![q.root] = new]
      BY <2>1, <1>1, <1>4
    <3> HIDE DEF new
    <3>2. /\ bin' \in [Rows -> Entry]
          /\ \A e \in Rows : bin'[e] = IF e = q.root THEN new ELSE bin[e]
      BY <3>1, <1>3 DEF Typed, Tables
    <3>3. due' \subseteq {e \in Rows : bin'[e].filed}
      BY <3>1, <3>2, <1>1 DEF Typed, Tables
    <3> QED
      BY <1>1, <1>3, <3>1, <3>2, <3>3 DEF Typed, Tables, EntriesBorn
  <2>2. CASE ~(RootStamped(q) /\ ~bin[q.root].filed)
    BY <2>2, <1>1 DEF Typed, Tables, EntriesBorn
  <2> QED
    BY <2>1, <2>2
<1> QED
  BY <1>1, <1>2, <1>5, RequestEnds DEF Typed

\* A restore takes in hand what the entry claims.
LEMMA BeginRestoreTyped ==
  ASSUME Typed, NEW c \in Callers, NEW e \in Rows, BeginRestore(c, e)
  PROVE  Typed' /\ RowsGoOn /\ OnlyBy(c)
<1> DEFINE g == <<{e}>> \o Reverse(bin[e].cascade)
           q == [Idle EXCEPT !.step = "clear", !.root = e, !.groups = g]
<1>1. Goto(c, q) /\ bin[e].filed
  BY DEF BeginRestore, Begin
<1>2. g \in Groups
  <2>1. bin[e].cascade \in Groups
    BY DEF Typed, Tables, Entry, Groups
  <2> QED
    BY <2>1, UnionOfRestore
<1> HIDE DEF g
<1>3. /\ q.step = "clear" /\ q.root = e /\ q.groups = g /\ q.ids = {}
      /\ q.changed = <<>> /\ q.todo = {} /\ q \in Request
  BY <1>2, IdleHolds DEF Request, Steps, Groups
<1> HIDE DEF q
<1>4. ShapeOf(q) /\ Asked(q) = {e} \ {None}
  BY <1>3 DEF ShapeOf, Trashes, Restores, Purges, Asked
<1>5. Tables' /\ EntriesBorn' /\ RowsGoOn
  BY NothingWritten DEF BeginRestore
<1>6. rows[e] # "unborn"
  BY <1>1 DEF Typed, EntriesBorn
<1> QED
  BY <1>1, <1>3, <1>4, <1>5, <1>6, RequestGoesOn DEF Typed, Processes

\* A group of it comes back, and nothing that is gone.
LEMMA ClearGroupTyped ==
  ASSUME Typed, NEW c \in Processes, ClearGroup(c)
  PROVE  Typed' /\ RowsGoOn /\ OnlyBy(c)
<1> DEFINE q == call[c]
           n == [q EXCEPT !.groups = Tail(q.groups),
                          !.changed = Append(q.changed, Head(q.groups))]
<1>1. q \in Request /\ q.step = "clear" /\ ShapeOf(q) /\ Goto(c, n) /\ q.groups # <<>>
  BY DEF Typed, ClearGroup, Shapes
<1>2. \A e \in Asked(q) : rows[e] # "unborn"
  BY DEF Typed, HandsBorn
<1>3. rows' \in [Rows -> Statuses] /\ RowsGoOn /\ UNCHANGED fails /\ KeepEntries
  <2> DEFINE h == Head(q.groups)
  <2>1. rows' = [r \in Rows |-> IF r \in h /\ rows[r] = "deleted" THEN "live" ELSE rows[r]]
    BY DEF ClearGroup
  <2> HIDE DEF h
  <2> QED
    BY <2>1 DEF ClearGroup, Typed, Tables, Statuses, RowsGoOn
<1>4. Tables' /\ EntriesBorn'
  BY <1>3, RowsWritten
<1> HIDE DEF q
<1>5. q.changed \in Groups /\ q.groups \in Groups
  BY <1>1, RequestFields
<1>6. Tail(q.groups) \in Groups /\ Append(q.changed, Head(q.groups)) \in Groups
  BY <1>1, <1>5, UnionOfTail, UnionOfAppend
<1>7. /\ n.step = "clear" /\ n.root = q.root /\ n.todo = q.todo /\ n.ids = q.ids
      /\ n \in Request
  BY <1>1, <1>6 DEF Request, Groups
<1> HIDE DEF n
<1>8. ShapeOf(n) /\ Asked(n) = Asked(q)
  BY <1>1, <1>7 DEF ShapeOf, Trashes, Restores, Purges, Asked
<1> QED
  BY <1>1, <1>2, <1>3, <1>4, <1>7, <1>8, RequestGoesOn DEF Typed

\* A restore ends by removing its entry.
LEMMA EndRestoreTyped ==
  ASSUME Typed, NEW c \in Processes, EndRestore(c)
  PROVE  Typed' /\ RowsGoOn /\ OnlyBy(c)
<1> DEFINE e == call[c].root
<1>1. e \in Rows /\ Goto(c, Idle) /\ UNCHANGED <<rows, fails>>
  BY DEF EndRestore, Typed, Shapes, ShapeOf, Restores
<1>2. RemoveEntry(e) \/ KeepEntries
  BY DEF EndRestore
<1> HIDE DEF e
<1>3. Tables' /\ EntriesBorn' /\ RowsGoOn
  BY <1>1, <1>2, EntryRemoved, NothingWritten
<1> QED
  BY <1>1, <1>3, RequestEnds DEF Typed

\* A purge by hand has one entry to destroy;
LEMMA PurgeNowTyped ==
  ASSUME Typed, NEW c \in Callers, NEW e \in Rows, PurgeNow(c, e)
  PROVE  Typed' /\ RowsGoOn /\ OnlyBy(c)
<1> DEFINE q == [Idle EXCEPT !.step = "next", !.todo = {e}]
<1>1. Goto(c, q) /\ bin[e].filed
  BY DEF PurgeNow, Begin
<1>2. /\ q.step = "next" /\ q.root = None /\ q.groups = <<>> /\ q.ids = {}
      /\ q.changed = <<>> /\ q.todo = {e} /\ q \in Request
  BY IdleHolds DEF Request, Steps
<1> HIDE DEF q
<1>3. ShapeOf(q) /\ Asked(q) = {e}
  BY <1>2, TrashAssumption DEF ShapeOf, Trashes, Restores, Purges, Asked
<1>4. Tables' /\ EntriesBorn' /\ RowsGoOn
  BY NothingWritten DEF PurgeNow
<1>5. rows[e] # "unborn"
  BY <1>1 DEF Typed, EntriesBorn
<1> QED
  BY <1>1, <1>2, <1>3, <1>4, <1>5, RequestGoesOn DEF Typed, Processes

\* What the sweep begins with.
LEMMA SweepBegins ==
  ASSUME Typed, PurgeExpired
  PROVE  \E es \in SUBSET due :
           /\ call[Sweeper] = Idle
           /\ Goto(Sweeper, [Idle EXCEPT !.step = "next", !.todo = es])
BY DEF PurgeExpired, OldestDue, Begin

\* the sweep has a batch of those that are due.
LEMMA PurgeExpiredTyped ==
  ASSUME Typed, PurgeExpired
  PROVE  Typed' /\ RowsGoOn /\ OnlyBy(Sweeper)
<1>1. PICK es \in SUBSET due : Goto(Sweeper, [Idle EXCEPT !.step = "next", !.todo = es])
  BY SweepBegins
<1> DEFINE q == [Idle EXCEPT !.step = "next", !.todo = es]
<1>2. es \in SUBSET Rows /\ \A e \in es : bin[e].filed
  BY DEF Typed, Tables
<1>3. /\ q.step = "next" /\ q.root = None /\ q.groups = <<>> /\ q.ids = {}
      /\ q.changed = <<>> /\ q.todo = es /\ q \in Request
  BY <1>2, IdleHolds DEF Request, Steps
<1>4. Goto(Sweeper, q)
  BY <1>1
<1> HIDE DEF q
<1>5. ShapeOf(q) /\ Asked(q) = es
  BY <1>2, <1>3, TrashAssumption DEF ShapeOf, Trashes, Restores, Purges, Asked
<1>6. Tables' /\ EntriesBorn' /\ RowsGoOn
  BY NothingWritten DEF PurgeExpired
<1>7. \A e \in es : rows[e] # "unborn"
  BY <1>2 DEF Typed, EntriesBorn
<1> QED
  BY <1>3, <1>4, <1>5, <1>6, <1>7, RequestGoesOn DEF Typed, Processes

\* What a purge is at when it has an entry in hand.
LEMMA PurgeShape ==
  ASSUME NEW q \in Request, ShapeOf(q), Purges(q)
  PROVE  /\ q.todo \in SUBSET Rows /\ q.root \notin q.todo
         /\ q.groups = <<>> /\ q.changed = <<>>
         /\ q.step = "next" => q.root = None
         /\ q.step # "next" => q.root \in Rows /\ q.root # None /\ q.root \in Asked(q)
         /\ ~Trashes(q) /\ ~Restores(q)
BY RequestFields, TrashAssumption DEF ShapeOf, Purges, Trashes, Restores, Asked

\* A purge that goes on to something of the same kind.
LEMMA PurgeGoesOn ==
  ASSUME NEW q \in Request, ShapeOf(q), Purges(q), NEW n \in Request,
         n.step \in {"destroy", "drop", "defer"}, n.root \in Rows, n.root \notin n.todo,
         n.groups = q.groups, n.changed = q.changed
  PROVE  ShapeOf(n) /\ Purges(n)
BY PurgeShape DEF ShapeOf, Purges, Trashes, Restores

\* A purge takes the rows of its next entry in hand.
LEMMA NextEntryTyped ==
  ASSUME Typed, NEW c \in Processes, NextEntry(c)
  PROVE  Typed' /\ RowsGoOn /\ OnlyBy(c)
<1> DEFINE q == call[c]
<1>1. q \in Request /\ q.step = "next" /\ ShapeOf(q)
  BY DEF Typed, NextEntry, Shapes
<1>2. \A e \in Asked(q) : rows[e] # "unborn"
  BY DEF Typed, HandsBorn
<1>3. Tables' /\ EntriesBorn' /\ RowsGoOn
  BY NothingWritten DEF NextEntry
<1>4. PICK e \in q.todo :
        Goto(c, [q EXCEPT !.step = IF Kept(e) THEN "defer" ELSE "destroy",
                          !.root = e, !.todo = q.todo \ {e}])
  BY DEF NextEntry
<1> HIDE DEF q
<1>5. PICK s \in {"destroy", "defer"} :
        Goto(c, [q EXCEPT !.step = s, !.root = e, !.todo = q.todo \ {e}])
  BY <1>4
<1> DEFINE n == [q EXCEPT !.step = s, !.root = e, !.todo = q.todo \ {e}]
<1>6. Purges(q) /\ q.todo \in SUBSET Rows
  BY <1>1, RequestFields DEF Purges
<1>7. /\ n.step = s /\ n.root = e /\ n.todo = q.todo \ {e} /\ n.groups = q.groups
      /\ n.changed = q.changed /\ n \in Request
  BY <1>1, <1>6 DEF Request, Steps
<1>8. Goto(c, n)
  BY <1>5
<1> HIDE DEF n
<1>9. ShapeOf(n)
  BY <1>1, <1>6, <1>7, PurgeGoesOn
<1>10. Asked(n) \subseteq Asked(q)
  BY <1>7 DEF Asked
<1> QED
  BY <1>2, <1>3, <1>7, <1>8, <1>9, <1>10, RequestGoesOn DEF Typed

\* A row is destroyed with what the database takes along, and for good.
LEMMA DestroyTyped ==
  ASSUME Typed, NEW c \in Processes, Destroy(c)
  PROVE  Typed' /\ RowsGoOn /\ OnlyBy(c)
<1> DEFINE q == call[c]
           taken == {r \in Removed[q.root] : Exists(r)}
<1>1. q \in Request /\ q.step = "destroy" /\ ShapeOf(q) /\ UNCHANGED fails /\ KeepEntries
  BY DEF Typed, Destroy, Shapes
<1>2. \A e \in Asked(q) : rows[e] # "unborn"
  BY DEF Typed, HandsBorn
<1>3. PICK s \in {"drop", "defer"} : Goto(c, [q EXCEPT !.step = s])
  BY DEF Destroy
<1>4. \/ UNCHANGED rows
      \/ rows' = [r \in Rows |-> IF Exists(q.root) /\ r \in taken THEN "gone" ELSE rows[r]]
  BY DEF Destroy
<1>5. \A r \in taken : rows[r] # "unborn"
  BY DEF Exists
<1> HIDE DEF q, taken
<1>6. rows' \in [Rows -> Statuses] /\ RowsGoOn
  BY <1>4, <1>5 DEF Typed, Tables, Statuses, RowsGoOn
<1>7. Tables' /\ EntriesBorn'
  BY <1>1, <1>6, RowsWritten
<1> DEFINE n == [q EXCEPT !.step = s]
<1>8. /\ n.step = s /\ n.root = q.root /\ n.todo = q.todo /\ n.groups = q.groups
      /\ n.changed = q.changed /\ n \in Request
  BY <1>1 DEF Request, Steps
<1>9. Goto(c, n)
  BY <1>3
<1> HIDE DEF n
<1>10. Purges(q)
  BY <1>1 DEF Purges
<1>11. ShapeOf(n) /\ Asked(n) = Asked(q)
  BY <1>1, <1>8, <1>10, PurgeShape, PurgeGoesOn DEF Asked
<1> QED
  BY <1>2, <1>6, <1>7, <1>8, <1>9, <1>11, RequestGoesOn DEF Typed

\* A purge that is done with an entry takes the next, or ends.
LEMMA ProceedShape ==
  ASSUME NEW q \in Request, ShapeOf(q), Purges(q)
  PROVE  /\ Proceed(q) \in Request /\ ShapeOf(Proceed(q)) /\ Asked(Proceed(q)) = q.todo
         /\ Proceed(q).todo = q.todo /\ Proceed(q).root = None
         /\ Proceed(q).groups = <<>> /\ Proceed(q).changed = <<>>
         /\ Proceed(q).step \in {"idle", "next"}
<1>1. CASE q.todo = {}
  BY <1>1, IdleHolds DEF Proceed
<1>2. CASE q.todo # {}
  <2> DEFINE n == [q EXCEPT !.step = "next", !.root = None]
  <2>1. /\ n.step = "next" /\ n.root = None /\ n.todo = q.todo /\ n.groups = q.groups
        /\ n.changed = q.changed /\ n \in Request
    BY DEF Request, Steps
  <2> HIDE DEF n
  <2>2. None \notin q.todo /\ q.groups = <<>> /\ q.changed = <<>>
    BY PurgeShape, TrashAssumption
  <2>3. ShapeOf(n) /\ Asked(n) = q.todo
    BY <2>1, <2>2 DEF ShapeOf, Purges, Trashes, Restores, Asked
  <2>4. Proceed(q) = n
    BY <1>2 DEF Proceed, n
  <2> QED
    BY <2>1, <2>2, <2>3, <2>4
<1> QED
  BY <1>1, <1>2

\* The entry of what is destroyed is removed,
LEMMA DropEntryTyped ==
  ASSUME Typed, NEW c \in Processes, DropEntry(c)
  PROVE  Typed' /\ RowsGoOn /\ OnlyBy(c)
<1> DEFINE q == call[c]
           n == [q EXCEPT !.step = "defer"]
<1>1. /\ q \in Request /\ q.step = "drop" /\ ShapeOf(q) /\ UNCHANGED <<rows, fails>>
      /\ \/ RemoveEntry(q.root) /\ Goto(c, Proceed(q))
         \/ KeepEntries /\ Goto(c, n)
  BY DEF Typed, DropEntry, Shapes
<1>2. \A e \in Asked(q) : rows[e] # "unborn"
  BY DEF Typed, HandsBorn
<1> HIDE DEF q
<1>3. Purges(q)
  BY <1>1 DEF Purges
<1>4. q.root \in Rows /\ q.root \notin q.todo /\ q.todo \subseteq Asked(q)
  BY <1>1, <1>3, PurgeShape DEF Asked
<1>5. CASE RemoveEntry(q.root) /\ Goto(c, Proceed(q))
  <2>1. Tables' /\ EntriesBorn' /\ RowsGoOn
    BY <1>1, <1>4, <1>5, EntryRemoved
  <2>2. Proceed(q) \in Request /\ ShapeOf(Proceed(q)) /\ Asked(Proceed(q)) = q.todo
    BY <1>1, <1>3, ProceedShape
  <2> QED
    BY <1>2, <1>4, <1>5, <2>1, <2>2, RequestGoesOn DEF Typed
<1>6. CASE KeepEntries /\ Goto(c, n)
  <2>1. Tables' /\ EntriesBorn' /\ RowsGoOn
    BY <1>1, <1>6, NothingWritten
  <2>2. /\ n.step = "defer" /\ n.root = q.root /\ n.todo = q.todo /\ n.groups = q.groups
        /\ n.changed = q.changed /\ n \in Request
    BY <1>1 DEF Request, Steps
  <2> HIDE DEF n
  <2>3. ShapeOf(n) /\ Asked(n) = Asked(q)
    BY <1>1, <1>3, <1>4, <2>2, PurgeGoesOn DEF Asked
  <2> QED
    BY <1>2, <1>6, <2>1, <2>2, <2>3, RequestGoesOn DEF Typed
<1> QED
  BY <1>1, <1>5, <1>6

\* and that of what could not be is put off.
LEMMA DeferTyped ==
  ASSUME Typed, NEW c \in Processes, Defer(c)
  PROVE  Typed' /\ RowsGoOn /\ OnlyBy(c)
<1> DEFINE q == call[c]
<1>1. /\ q \in Request /\ q.step = "defer" /\ ShapeOf(q) /\ UNCHANGED <<rows, bin, fails>>
      /\ \/ /\ due' = due \ {q.root} /\ Goto(c, Proceed(q))
            /\ earlier' = [x \in Rows |-> IF x = q.root THEN {} ELSE earlier[x] \ {q.root}]
         \/ Goto(c, Idle) /\ UNCHANGED <<due, earlier>>
  BY DEF Typed, Defer, Shapes
<1>2. \A e \in Asked(q) : rows[e] # "unborn"
  BY DEF Typed, HandsBorn
<1> HIDE DEF q
<1>3. Purges(q)
  BY <1>1 DEF Purges
<1>4. Tables' /\ EntriesBorn' /\ RowsGoOn
  <2>1. due' \subseteq due /\ earlier' \in [Rows -> SUBSET due']
    BY <1>1 DEF Typed, Tables
  <2> QED
    BY <1>1, <2>1 DEF Typed, Tables, EntriesBorn, RowsGoOn
<1>5. /\ Proceed(q) \in Request /\ ShapeOf(Proceed(q)) /\ Asked(Proceed(q)) = q.todo
      /\ q.todo \subseteq Asked(q)
  BY <1>1, <1>3, ProceedShape DEF Asked
<1>6. CASE Goto(c, Proceed(q))
  BY <1>2, <1>4, <1>5, <1>6, RequestGoesOn DEF Typed
<1>7. CASE Goto(c, Idle)
  BY <1>4, <1>7, RequestEnds DEF Typed
<1> QED
  BY <1>1, <1>6, <1>7

\* A failure ends a request, and writes nothing.
LEMMA FailTyped ==
  ASSUME Typed, NEW c \in Processes, Fail(c)
  PROVE  Typed' /\ RowsGoOn /\ OnlyBy(c) /\ call'[c] = Idle
<1>1. Goto(c, Idle) /\ KeepEntries /\ UNCHANGED rows /\ fails' \in 0 .. MaxFails
  BY TrashAssumption DEF Fail, Typed, Tables
<1>2. Tables' /\ EntriesBorn' /\ RowsGoOn
  BY <1>1 DEF Typed, Tables, EntriesBorn, RowsGoOn, KeepEntries
<1> QED
  BY <1>1, <1>2, RequestEnds DEF Typed

\* What happens outside the requests.
LEMMA ElsewhereTyped ==
  ASSUME Typed, NEW r \in Rows, ComesDue(r) \/ Insert(r)
  PROVE  Typed' /\ RowsGoOn /\ UNCHANGED <<call, bin, fails>>
<1>1. CASE ComesDue(r)
  <2>1. due' \subseteq {e \in Rows : bin[e].filed} /\ earlier' \in [Rows -> SUBSET due']
    BY <1>1 DEF ComesDue, Typed, Tables
  <2>2. Tables' /\ EntriesBorn' /\ RowsGoOn /\ UNCHANGED <<call, rows, bin, fails>>
    BY <1>1, <2>1 DEF ComesDue, Typed, Tables, EntriesBorn, RowsGoOn
  <2> QED
    BY <2>2 DEF Typed, Shapes, HandsBorn
<1>2. CASE Insert(r)
  <2>1. /\ rows' \in [Rows -> Statuses] /\ RowsGoOn /\ UNCHANGED <<call, bin, fails>> /\ KeepEntries
    BY <1>2 DEF Insert, Typed, Tables, RowsGoOn, Statuses, KeepEntries
  <2>2. Tables' /\ EntriesBorn'
    BY <2>1, RowsWritten
  <2>3. HandsBorn'
    <3> SUFFICES ASSUME NEW c \in Processes, NEW e \in Asked(call'[c]) PROVE rows'[e] # "unborn"
      BY DEF HandsBorn
    <3>1. call'[c] \in Request /\ rows[e] # "unborn"
      BY <2>1 DEF Typed, HandsBorn
    <3>2. e \in Rows
      BY <3>1, RequestFields DEF Asked
    <3> QED
      BY <3>1, <3>2, <2>1 DEF RowsGoOn
  <2> QED
    BY <2>1, <2>2, <2>3 DEF Typed, Shapes
<1> QED
  BY <1>1, <1>2

\* Every step is a request's or happens outside them, and keeps the types.
LEMMA StepTyped ==
  ASSUME Typed, Step
  PROVE  /\ Typed' /\ RowsGoOn
         /\ \E c \in Processes : OnlyBy(c) /\ (fails' # fails => call'[c] = Idle)
<1>1. ASSUME NEW c \in Callers, NEW r \in Rows,
             BeginTrash(c, r) \/ BeginRestore(c, r) \/ PurgeNow(c, r)
      PROVE  Typed' /\ RowsGoOn /\ OnlyBy(c) /\ fails' = fails /\ c \in Processes
  <2>1. CASE BeginTrash(c, r)
    BY <2>1, BeginTrashTyped DEF BeginTrash, Processes
  <2>2. CASE BeginRestore(c, r)
    BY <2>2, BeginRestoreTyped DEF BeginRestore, Processes
  <2>3. CASE PurgeNow(c, r)
    BY <2>3, PurgeNowTyped DEF PurgeNow, Processes
  <2> QED
    BY <1>1, <2>1, <2>2, <2>3
<1>2. CASE PurgeExpired
  BY <1>2, PurgeExpiredTyped DEF PurgeExpired, Processes
<1>3. ASSUME NEW c \in Processes, Work(c)
      PROVE  Typed' /\ RowsGoOn /\ OnlyBy(c) /\ fails' = fails
  <2>1. CASE Walk(c)
    BY <2>1, WalkTyped DEF Walk
  <2>2. CASE EndWalk(c)
    BY <2>2, EndWalkTyped DEF EndWalk
  <2>3. CASE ReadGroup(c)
    BY <2>3, ReadGroupTyped DEF ReadGroup
  <2>4. CASE StampGroup(c)
    BY <2>4, StampGroupTyped DEF StampGroup
  <2>5. CASE FileEntry(c)
    BY <2>5, FileEntryTyped DEF FileEntry
  <2>6. CASE ClearGroup(c)
    BY <2>6, ClearGroupTyped DEF ClearGroup
  <2>7. CASE EndRestore(c)
    BY <2>7, EndRestoreTyped DEF EndRestore
  <2>8. CASE NextEntry(c)
    BY <2>8, NextEntryTyped DEF NextEntry
  <2>9. CASE Destroy(c)
    BY <2>9, DestroyTyped DEF Destroy
  <2>10. CASE DropEntry(c)
    BY <2>10, DropEntryTyped DEF DropEntry
  <2>11. CASE Defer(c)
    BY <2>11, DeferTyped DEF Defer
  <2> QED
    BY <1>3, <2>1, <2>2, <2>3, <2>4, <2>5, <2>6, <2>7, <2>8, <2>9, <2>10, <2>11
       DEF Work, Trashing, Restoring, Purging
<1>4. ASSUME NEW c \in Processes, Fail(c)
      PROVE  Typed' /\ RowsGoOn /\ OnlyBy(c) /\ call'[c] = Idle
  BY <1>4, FailTyped
<1>5. ASSUME NEW r \in Rows, ComesDue(r) \/ Insert(r)
      PROVE  /\ Typed' /\ RowsGoOn /\ fails' = fails /\ Sweeper \in Processes
             /\ OnlyBy(Sweeper)
  BY <1>5, ElsewhereTyped DEF OnlyBy, Processes
<1> QED
  BY <1>1, <1>2, <1>3, <1>4, <1>5 DEF Step

\* Whoever meets another, or is for a row this has happened to, is noted at once.
LEMMA MeetingsNoted ==
  ASSUME Typed, Typed', Observed, Observe, spoilt \subseteq Rows, NEW c \in Processes,
         OnlyBy(c), fails' # fails => call'[c] = Idle
  PROVE  /\ Observed' /\ spoilt \subseteq spoilt' /\ spoilt' \subseteq Rows
         /\ fails' # fails /\ call[c] # Idle => InHand(call[c]) \subseteq spoilt'
<1> DEFINE meeting == {d \in Processes : Meets(d)}
           failing == {d \in Processes : fails' # fails /\ call'[d] # call[d]}
           met == UNION {InHand(call'[d]) : d \in meeting}
           failed == UNION {InHand(call[d]) : d \in failing}
<1>1. spoilt' = spoilt \cup met \cup failed
  BY DEF Observe
<1>2. met \subseteq Rows /\ failed \subseteq Rows
  <2>1. \A d \in Processes : InHand(call'[d]) \subseteq Rows /\ InHand(call[d]) \subseteq Rows
    BY HandHolds DEF Typed
  <2> QED
    BY <2>1
<1>3. failing \subseteq {c}
  BY DEF OnlyBy
<1>4. fails' # fails /\ call[c] # Idle => c \in failing
  OBVIOUS
<1>5. \A d \in meeting : InHand(call'[d]) \subseteq met
  OBVIOUS
<1>6. \A d \in failing : InHand(call[d]) \subseteq failed
  OBVIOUS
<1>7. failed \subseteq InHand(call[c]) /\ (failed # {} => call'[c] = Idle)
  BY <1>3
<1> HIDE DEF met, failed, failing
<1>8. ASSUME NEW d \in Processes, NEW x \in Processes, d # x,
             InHand(call'[d]) \cap InHand(call'[x]) # {}
      PROVE  d \in meeting
  BY <1>8 DEF Meets
<1>9. ASSUME NEW d \in Processes, call'[d].root \in spoilt'
      PROVE  InHand(call'[d]) \subseteq spoilt'
  <2> DEFINE r == call'[d].root
  <2>0. r \in Rows /\ r \in InHand(call'[d])
    <3>1. r \in Rows
      BY <1>1, <1>2, <1>9
    <3> QED
      BY <3>1, HandHolds DEF Typed
  <2>1. CASE r \in spoilt
    BY <2>1, <1>1, <1>5 DEF Meets
  <2>2. CASE r \in met
    <3>1. PICK x \in meeting : r \in InHand(call'[x])
      BY <2>2 DEF met
    <3>2. d \in meeting
      BY <3>1, <2>0, <1>8
    <3> QED
      BY <3>2, <1>1, <1>5
  <2>3. CASE r \in failed
    <3>1. call'[c] = Idle /\ r \in InHand(call[c])
      BY <2>3, <1>7
    <3>2. d # c
      BY <3>1, <2>0, IdleHolds
    <3>3. call'[d] = call[d]
      BY <3>2 DEF OnlyBy
    <3>4. InHand(call[d]) \subseteq spoilt
      BY <3>1, <3>2, <3>3, <2>0 DEF Observed
    <3> QED
      BY <3>3, <3>4, <1>1
  <2> QED
    BY <2>1, <2>2, <2>3, <1>1, <1>9
<1>10. Observed'
  <2>1. ASSUME NEW d \in Processes, NEW x \in Processes, d # x,
               InHand(call'[d]) \cap InHand(call'[x]) # {}
        PROVE  InHand(call'[d]) \subseteq spoilt'
    BY <2>1, <1>8, <1>5, <1>1
  <2> QED
    BY <2>1, <1>9 DEF Observed
<1> QED
  BY <1>1, <1>2, <1>4, <1>6, <1>10

\* Nothing has happened yet.
LEMMA InitTyped == Init => Typed /\ Observed /\ spoilt \subseteq Rows
<1> SUFFICES ASSUME Init PROVE Typed /\ Observed /\ spoilt \subseteq Rows
  OBVIOUS
<1>1. NoEntry \in Entry /\ ~NoEntry.filed
  BY DEF NoEntry, Entry
<1>2. Tables
  BY <1>1, TrashAssumption DEF Init, Tables, Statuses
<1>3. EntriesBorn
  BY <1>1 DEF Init, EntriesBorn
<1>4. call \in [Processes -> Request] /\ \A c \in Processes : call[c] = Idle
  BY IdleHolds DEF Init
<1>5. Shapes /\ HandsBorn
  BY <1>4, IdleHolds DEF Shapes, HandsBorn
<1>6. Observed /\ spoilt = {}
  BY <1>4, IdleHolds DEF Observed, Init
<1> QED
  BY <1>2, <1>3, <1>4, <1>5, <1>6 DEF Typed

\* The invariant of the types is what the lemmas above are about.
LEMMA TypesRestated == TypeInv <=> Typed /\ Observed /\ spoilt \subseteq Rows
BY DEF TypeInv, TypeOK, Typed, Tables, Statuses

\* Every step keeps it.
LEMMA TypeStep == TypeInv /\ [Next]_vars => TypeInv'
<1> SUFFICES ASSUME TypeInv, [Next]_vars PROVE TypeInv'
  OBVIOUS
<1>1. CASE Next
  <2>1. Step /\ Observe /\ Typed /\ Observed /\ spoilt \subseteq Rows
    BY <1>1, TypesRestated DEF Next
  <2>2. /\ Typed'
        /\ \E c \in Processes : OnlyBy(c) /\ (fails' # fails => call'[c] = Idle)
    BY <2>1, StepTyped
  <2>3. Observed' /\ spoilt' \subseteq Rows
    BY <2>1, <2>2, MeetingsNoted
  <2> QED
    BY <2>2, <2>3 DEF TypeInv, TypeOK, Typed, Tables, Statuses
<1>2. CASE UNCHANGED vars
  BY <1>2 DEF vars, TypeInv, TypeOK, Shapes, EntriesBorn, HandsBorn, Observed
<1> QED
  BY <1>1, <1>2

\* What is known of the columns, the requests and the rows in hand.
LEMMA TypesHold == Spec => []TypeInv
<1>1. Init => TypeInv
  BY InitTyped, TypesRestated
<1> QED
  BY <1>1, TypeStep, PTL DEF Spec

-----------------------------------------------------------------------------
(* What stands whatever others do *)

\* A step that keeps the types, with what is known before it.
Going ==
  /\ TrashInv /\ TypeInv' /\ RowsGoOn
  /\ spoilt \subseteq spoilt' /\ spoilt' \subseteq Rows

\* The step changes rows, and files or removes entries, among H only.
Within(H) ==
  /\ \A r \in Rows : rows'[r] # rows[r] => r \in H \/ (rows[r] = "unborn" /\ rows'[r] = "live")
  /\ \A e \in Rows : bin'[e] # bin[e] =>
       e \in H /\ (bin'[e].filed => Claim(e)' \subseteq H)

\* What a request of another relies on stands when the rows in the hand of the one
\* that acts are not in its own, or are spoilt.
LEMMA OthersStand ==
  ASSUME Going, NEW d \in Processes, call'[d] = call[d], NEW H, Within(H),
         H \cap InHand(call[d]) # {} => H \cup InHand(call[d]) \subseteq spoilt
  PROVE  Standing(d)'
<1>0. PICK q : q = call[d] /\ q = call'[d]
  OBVIOUS
<1>1. /\ q \in Request /\ ShapeOf(q) /\ Deleting(d) /\ Bringing(d) /\ Clearing(d)
  BY <1>0 DEF Going, TrashInv, TypeInv, TypeOK, Shapes, Standing
<1>2. /\ Union(q.groups) \subseteq InHand(q) /\ Union(q.changed) \subseteq InHand(q)
      /\ InHand(q) \subseteq Rows /\ Asked(q) \subseteq InHand(q)
      /\ q.root \in Rows => q.root \in InHand(q)
      /\ q.step = "write" => q.ids \subseteq InHand(q)
  <2>1. /\ Union(q.groups) \subseteq InHand(q) /\ Union(q.changed) \subseteq InHand(q)
        /\ InHand(q) \subseteq Rows /\ q.todo \subseteq InHand(q)
        /\ q.root \in Rows => q.root \in InHand(q)
    BY <1>1, HandHolds
  <2>2. q.root \in Rows \cup {None} /\ q.groups \in Groups
    BY <1>1, RequestFields
  <2>3. Asked(q) \subseteq InHand(q)
    BY <2>1, <2>2 DEF Asked
  <2>4. ASSUME q.step = "write" PROVE q.ids \subseteq InHand(q)
    <3>1. q.groups # <<>> /\ q.ids \subseteq q.groups[1]
      BY <2>4, <1>1 DEF ShapeOf, Trashes, TrashShape
    <3>2. q.groups[1] \subseteq Union(q.groups)
      BY <3>1, <2>2, UnionOfTail
    <3> QED
      BY <3>1, <3>2, <2>1
  <2> QED
    BY <2>1, <2>3, <2>4
<1>3. /\ \A r \in InHand(q) \ spoilt' :
           \/ rows'[r] = rows[r]
           \/ rows[r] = "unborn" /\ rows'[r] = "live"
      /\ \A e \in InHand(q) \ spoilt' : bin'[e] = bin[e]
      /\ \A e \in Rows, r \in InHand(q) \ spoilt' :
           bin'[e].filed /\ r \in Claim(e)' => bin'[e] = bin[e]
  <2>1. ASSUME NEW r \in InHand(q) \ spoilt' PROVE r \in Rows /\ r \notin H
    BY <2>1, <1>0, <1>2 DEF Going
  <2>2. ASSUME NEW r \in InHand(q) \ spoilt'
        PROVE  \/ rows'[r] = rows[r]
               \/ rows[r] = "unborn" /\ rows'[r] = "live"
    BY <2>1, <2>2 DEF Within
  <2>3. ASSUME NEW e \in InHand(q) \ spoilt' PROVE bin'[e] = bin[e]
    BY <2>1, <2>3 DEF Within
  <2>4. ASSUME NEW e \in Rows, NEW r \in InHand(q) \ spoilt', bin'[e].filed, r \in Claim(e)'
        PROVE  bin'[e] = bin[e]
    BY <2>1, <2>4 DEF Within
  <2>5. \A r \in InHand(q) \ spoilt' :
          \/ rows'[r] = rows[r]
          \/ rows[r] = "unborn" /\ rows'[r] = "live"
    BY <2>2
  <2>6. \A e \in InHand(q) \ spoilt' : bin'[e] = bin[e]
    BY <2>3
  <2>7. \A e \in Rows, r \in InHand(q) \ spoilt' :
          bin'[e].filed /\ r \in Claim(e)' => bin'[e] = bin[e]
    BY <2>4
  <2> QED
    BY <2>5, <2>6, <2>7
<1>4. \A e \in Rows : bin'[e] = bin[e] => Claim(e)' = Claim(e)
  BY DEF Claim
<1>5. Deleting(d)'
  <2> SUFFICES ASSUME Trashes(q)
               PROVE  /\ \A r \in Union(q.changed) \ spoilt' :
                           /\ rows'[r] = "deleted"
                           /\ \A e \in Rows : bin'[e].filed => r \notin Claim(e)'
                      /\ q.step = "write" => \A r \in q.ids \ spoilt' : rows'[r] = "live"
                      /\ q.root \notin spoilt' =>
                           IF q.groups # <<>> THEN rows'[q.root] = "live" ELSE RootStamped(q)
    BY <1>0 DEF Deleting
  <2>1. /\ \A r \in Union(q.changed) \ spoilt :
             rows[r] = "deleted" /\ \A e \in Rows : bin[e].filed => r \notin Claim(e)
        /\ q.step = "write" => \A r \in q.ids \ spoilt : rows[r] = "live"
        /\ q.root \notin spoilt =>
             IF q.groups # <<>> THEN rows[q.root] = "live" ELSE RootStamped(q)
    BY <1>0, <1>1 DEF Deleting
  <2>2. spoilt \subseteq spoilt' /\ q.root \in Rows
    BY <1>1 DEF Going, ShapeOf, TrashShape
  <2>3. \A r \in Union(q.changed) \ spoilt' : rows'[r] = "deleted"
    BY <2>1, <2>2, <1>2, <1>3
  <2>4. ASSUME NEW r \in Union(q.changed) \ spoilt', NEW e \in Rows, bin'[e].filed
        PROVE  r \notin Claim(e)'
    BY <2>1, <2>2, <2>4, <1>2, <1>3, <1>4
  <2>5. q.step = "write" => \A r \in q.ids \ spoilt' : rows'[r] = "live"
    BY <2>1, <2>2, <1>2, <1>3
  <2>6. q.root \notin spoilt' =>
          IF q.groups # <<>> THEN rows'[q.root] = "live" ELSE RootStamped(q)
    BY <2>1, <2>2, <1>2, <1>3
  <2> QED
    BY <2>3, <2>4, <2>5, <2>6
<1>6. Bringing(d)'
  <2> DEFINE held == Union(q.groups) \cup Union(q.changed)
  <2> SUFFICES ASSUME Restores(q)
               PROVE  /\ bin'[q.root].filed => Claim(q.root)' \subseteq held \cup spoilt'
                      /\ q.root \notin spoilt' =>
                           bin'[q.root].filed /\ held \subseteq Claim(q.root)'
                      /\ \A r \in Union(q.changed) \ spoilt' : rows'[r] # "deleted"
    BY <1>0 DEF Bringing
  <2>1. /\ bin[q.root].filed => Claim(q.root) \subseteq held \cup spoilt
        /\ q.root \notin spoilt => bin[q.root].filed /\ held \subseteq Claim(q.root)
        /\ \A r \in Union(q.changed) \ spoilt : rows[r] # "deleted"
    BY <1>0, <1>1 DEF Bringing
  <2>2. spoilt \subseteq spoilt' /\ q.root \in Rows /\ q.root \in InHand(q)
    BY <1>1, <1>2 DEF Going, ShapeOf
  <2>3. ASSUME bin'[q.root].filed PROVE Claim(q.root)' \subseteq held \cup spoilt'
    <3>1. CASE bin'[q.root] = bin[q.root]
      BY <3>1, <2>1, <2>2, <2>3, <1>4
    <3>2. CASE bin'[q.root] # bin[q.root]
      <4>1. q.root \in H /\ Claim(q.root)' \subseteq H
        BY <3>2, <2>2, <2>3 DEF Within
      <4>2. H \subseteq spoilt
        BY <4>1, <2>2, <1>0
      <4> QED
        BY <4>1, <4>2, <2>2
    <3> QED
      BY <3>1, <3>2
  <2>4. ASSUME q.root \notin spoilt'
        PROVE  bin'[q.root].filed /\ held \subseteq Claim(q.root)'
    BY <2>1, <2>2, <2>4, <1>3, <1>4
  <2>5. \A r \in Union(q.changed) \ spoilt' : rows'[r] # "deleted"
    BY <2>1, <2>2, <1>2, <1>3
  <2> QED
    BY <2>3, <2>4, <2>5
<1>7. Clearing(d)'
  <2> SUFFICES ASSUME Purges(q)
               PROVE  /\ \A e \in Asked(q) \ spoilt' : bin'[e].filed
                      /\ q.step = "drop" => rows'[q.root] = "gone"
    BY <1>0 DEF Clearing
  <2>1. /\ \A e \in Asked(q) \ spoilt : bin[e].filed
        /\ q.step = "drop" => rows[q.root] = "gone"
    BY <1>0, <1>1 DEF Clearing
  <2>2. spoilt \subseteq spoilt'
    BY DEF Going
  <2>3. q.step = "drop" => q.root \in Rows
    BY <1>1 DEF ShapeOf
  <2> QED
    BY <2>1, <2>2, <2>3, <1>2, <1>3 DEF Going, RowsGoOn
<1> QED
  BY <1>5, <1>6, <1>7 DEF Standing

-----------------------------------------------------------------------------
(* What holds of the tables *)

\* The parts of the invariant that a step of c has to show.
LEMMA InvariantGoesOn ==
  ASSUME Going, NEW c \in Processes, OnlyBy(c), Within(InHand(call[c])),
         BelowRoot(call'[c]), Standing(c)', EntriesBelow', ClaimsHold', ClaimedOnce',
         Accounted'
  PROVE  TrashInv'
<1>1. ASSUME NEW d \in Processes, d # c PROVE Standing(d)' /\ call'[d] = call[d]
  <2>1. call'[d] = call[d]
    BY <1>1 DEF OnlyBy
  <2>2. InHand(call[c]) \cap InHand(call[d]) # {} =>
          InHand(call[c]) \cup InHand(call[d]) \subseteq spoilt
    <3>1. /\ InHand(call[c]) \cap InHand(call[d]) # {} => InHand(call[c]) \subseteq spoilt
          /\ InHand(call[d]) \cap InHand(call[c]) # {} => InHand(call[d]) \subseteq spoilt
      BY <1>1 DEF Going, TrashInv, TypeInv, Observed
    <3> QED
      BY <3>1
  <2> DEFINE H == InHand(call[c])
  <2>3. PICK h : h = H
    OBVIOUS
  <2>4. Within(h)
    BY <2>3
  <2> HIDE DEF H
  <2> QED
    BY <2>1, <2>2, <2>3, <2>4, OthersStand DEF H
<1>2. \A d \in Processes : Standing(d)'
  BY <1>1
<1>3. ASSUME NEW d \in Processes PROVE BelowRoot(call'[d])
  BY <1>1 DEF Going, TrashInv, HandsBelow
<1>4. HandsBelow'
  BY <1>3 DEF HandsBelow
<1> QED
  BY <1>2, <1>4 DEF TrashInv, Going

\* What a request has in hand once it is for a spoilt row is spoilt.
LEMMA SpoiltRoot ==
  ASSUME Going, NEW c \in Processes
  PROVE  /\ call[c].root \in spoilt => InHand(call[c]) \subseteq spoilt
         /\ call'[c].root \in spoilt' => InHand(call'[c]) \subseteq spoilt'
BY DEF Going, TrashInv, TypeInv, Observed

\* The claims hold on when no entry is filed, no row is brought back, and what
\* a restore has brought back is still known, or does not matter any more.
LEMMA ClaimsKept ==
  ASSUME Going, NEW c \in Processes, OnlyBy(c),
         \A e \in Rows : bin'[e].filed => bin'[e] = bin[e],
         \A r \in Rows : rows[r] \in {"deleted", "gone"} => rows'[r] \in {"deleted", "gone"},
         Restores(call[c]) =>
           \/ InHand(call[c]) \subseteq spoilt'
           \/ ~bin'[call[c].root].filed
           \/ /\ Restores(call'[c]) /\ call'[c].root = call[c].root
              /\ Union(call[c].changed) \subseteq Union(call'[c].changed)
  PROVE  EntriesBelow' /\ ClaimsHold' /\ ClaimedOnce'
<1>1. ASSUME NEW e \in Rows, bin'[e].filed
      PROVE  bin[e].filed /\ Claim(e)' = Claim(e) /\ bin'[e] = bin[e]
  BY <1>1 DEF Claim
<1>2. EntriesBelow' /\ ClaimedOnce'
  BY <1>1 DEF Going, TrashInv, EntriesBelow, ClaimedOnce
<1>3. ClaimsHold'
  <2> SUFFICES ASSUME NEW e \in Rows, bin'[e].filed, NEW r \in Claim(e)' \ spoilt'
               PROVE  rows'[r] \in {"deleted", "gone"} \/ BroughtBack(e, r)'
    BY DEF ClaimsHold
  <2>1. bin[e].filed /\ r \in Claim(e) \ spoilt /\ r \in Rows
    <3>1. bin[e] \in Entry
      BY DEF Going, TrashInv, TypeInv, TypeOK
    <3>2. Union(bin[e].cascade) \subseteq Rows
      BY <3>1, UnionOfGroups DEF Entry, Groups
    <3> QED
      BY <1>1, <3>2 DEF Going, Claim, Union
  <2>2. CASE rows[r] \in {"deleted", "gone"}
    BY <2>1, <2>2
  <2>3. CASE BroughtBack(e, r)
    <3>1. PICK x \in Processes :
            Restores(call[x]) /\ call[x].root = e /\ r \in Union(call[x].changed)
      BY <2>3 DEF BroughtBack
    <3>2. CASE x # c
      BY <3>1, <3>2 DEF OnlyBy, BroughtBack
    <3>3. CASE x = c
      <4>1. r \in InHand(call[c])
        BY <3>1, <3>3, HandHolds DEF Going, TrashInv, TypeInv, TypeOK
      <4>2. bin'[call[c].root].filed
        BY <3>1, <3>3
      <4>3. /\ Restores(call'[c]) /\ call'[c].root = call[c].root
            /\ Union(call[c].changed) \subseteq Union(call'[c].changed)
        BY <3>1, <3>3, <4>1, <4>2
      <4> QED
        BY <3>1, <3>3, <4>3 DEF BroughtBack
    <3> QED
      BY <3>2, <3>3
  <2> QED
    BY <2>1, <2>2, <2>3 DEF Going, TrashInv, ClaimsHold
<1> QED
  BY <1>2, <1>3

\* Deleted rows stay accounted for when no row is deleted, no entry removed, and
\* what a delete has stamped is still known, or does not matter any more.
LEMMA AccountsKept ==
  ASSUME Going, NEW c \in Processes, OnlyBy(c),
         \A r \in Rows : rows'[r] = "deleted" => rows[r] = "deleted",
         \A e \in Rows : bin[e].filed => bin'[e] = bin[e],
         Trashes(call[c]) =>
           \/ InHand(call[c]) \subseteq spoilt'
           \/ /\ Trashes(call'[c])
              /\ Union(call[c].changed) \subseteq Union(call'[c].changed)
  PROVE  Accounted'
<1> SUFFICES ASSUME NEW r \in Rows \ spoilt', rows'[r] = "deleted"
             PROVE  \/ \E e \in Rows : bin'[e].filed /\ r \in Claim(e)'
                    \/ \E x \in Processes : Trashes(call'[x]) /\ r \in Union(call'[x].changed)
                    \/ LeftBehind(r)'
  BY DEF Accounted
<1>1. r \in Rows \ spoilt /\ rows[r] = "deleted"
  BY DEF Going
<1>2. CASE \E e \in Rows : bin[e].filed /\ r \in Claim(e)
  BY <1>2 DEF Claim
<1>3. CASE LeftBehind(r)
  BY <1>3 DEF LeftBehind, Going, RowsGoOn
<1>4. ASSUME NEW x \in Processes, Trashes(call[x]), r \in Union(call[x].changed)
      PROVE  Trashes(call'[x]) /\ r \in Union(call'[x].changed)
  <2>1. r \in InHand(call[x])
    BY <1>4, HandHolds DEF Going, TrashInv, TypeInv, TypeOK
  <2>2. CASE x # c
    BY <1>4, <2>2 DEF OnlyBy
  <2>3. CASE x = c
    BY <1>4, <2>1, <2>3
  <2> QED
    BY <2>2, <2>3
<1> QED
  BY <1>1, <1>2, <1>3, <1>4 DEF Going, TrashInv, Accounted

-----------------------------------------------------------------------------
(* The steps of a delete *)

\* A step that writes neither rows nor entries.
LEMMA QuietStep ==
  ASSUME Going, NEW c \in Processes, OnlyBy(c), UNCHANGED <<rows, bin>>,
         BelowRoot(call'[c]), Standing(c)',
         Restores(call[c]) =>
           \/ InHand(call[c]) \subseteq spoilt'
           \/ ~bin[call[c].root].filed
           \/ /\ Restores(call'[c]) /\ call'[c].root = call[c].root
              /\ Union(call[c].changed) \subseteq Union(call'[c].changed),
         Trashes(call[c]) =>
           \/ InHand(call[c]) \subseteq spoilt'
           \/ /\ Trashes(call'[c])
              /\ Union(call[c].changed) \subseteq Union(call'[c].changed)
  PROVE  TrashInv'
<1>1. \A r \in Rows : rows'[r] = rows[r]
  OBVIOUS
<1>2. \A e \in Rows : bin'[e] = bin[e]
  OBVIOUS
<1>3. Restores(call[c]) =>
        \/ InHand(call[c]) \subseteq spoilt'
        \/ ~bin'[call[c].root].filed
        \/ /\ Restores(call'[c]) /\ call'[c].root = call[c].root
           /\ Union(call[c].changed) \subseteq Union(call'[c].changed)
  OBVIOUS
<1>4. EntriesBelow' /\ ClaimsHold' /\ ClaimedOnce'
  BY <1>1, <1>2, <1>3, ClaimsKept
<1>5. Accounted'
  BY <1>1, <1>2, AccountsKept
<1>6. Within(InHand(call[c]))
  BY <1>1, <1>2 DEF Within
<1> QED
  BY <1>4, <1>5, <1>6, InvariantGoesOn

\* What is known of the request that acts, and where it goes.
LEMMA Acting ==
  ASSUME Going, NEW c \in Processes
  PROVE  /\ call[c] \in Request /\ ShapeOf(call[c]) /\ BelowRoot(call[c])
         /\ Deleting(c) /\ Bringing(c) /\ Clearing(c)
         /\ \A n : Goto(c, n) => call'[c] = n /\ OnlyBy(c)
BY DEF Going, TrashInv, TypeInv, TypeOK, Shapes, HandsBelow, Standing, Goto, OnlyBy

\* Nothing is expected of a request that is not under way.
LEMMA IdleStands ==
  ASSUME NEW c \in Processes, call'[c] = Idle
  PROVE  BelowRoot(call'[c]) /\ Standing(c)'
BY IdleHolds DEF BelowRoot, Standing, Deleting, Bringing, Clearing, Trashes, Restores, Purges

\* A delete that begins has stamped nothing, and its root is live.
LEMMA BeginTrashHolds ==
  ASSUME Going, NEW c \in Callers, NEW r \in Rows, BeginTrash(c, r)
  PROVE  TrashInv'
<1> DEFINE q == [Idle EXCEPT !.step = "walk", !.root = r, !.groups = <<{r}>>]
<1>1. /\ q.step = "walk" /\ q.root = r /\ q.groups = <<{r}>> /\ q.changed = <<>>
  BY IdleHolds DEF Idle
<1>2. /\ Goto(c, q) /\ rows[r] = "live" /\ call[c] = Idle /\ c \in Processes
      /\ UNCHANGED <<rows, bin>>
  BY DEF BeginTrash, Begin, KeepEntries, Processes
<1> HIDE DEF q
<1>3. call'[c] = q /\ OnlyBy(c)
  BY <1>2, Acting
<1>4. Union(q.groups) = {r} /\ Union(q.changed) = {} /\ q.groups # <<>>
  <2>1. <<{r}>> # <<>>
    OBVIOUS
  <2> QED
    BY <2>1, <1>1, UnionOfFew
<1>5. BelowRoot(q)
  BY <1>1, <1>4, RemovedAndBelow DEF BelowRoot
<1>6. Trashes(q) /\ ~Restores(q) /\ ~Purges(q)
  BY <1>1 DEF Trashes, Restores, Purges
<1>7. Deleting(c)'
  BY <1>1, <1>2, <1>3, <1>4 DEF Deleting
<1>8. Standing(c)'
  BY <1>3, <1>6, <1>7 DEF Standing, Bringing, Clearing
<1> QED
  BY <1>2, <1>3, <1>5, <1>8, IdleHolds, QuietStep

\* The walk only looks: what it reaches is below its root.
LEMMA WalkHolds ==
  ASSUME Going, NEW c \in Processes, Walk(c)
  PROVE  TrashInv'
<1>0. PICK q : q = call[c]
  OBVIOUS
<1>1. /\ q \in Request /\ ShapeOf(q) /\ BelowRoot(q) /\ Deleting(c) /\ q.step = "walk"
      /\ UNCHANGED <<rows, bin>>
  BY <1>0, Acting DEF Walk, KeepEntries
<1>2. PICK p \in Queries(q) : Goto(c, [q EXCEPT !.at = p, !.groups = Append(@, Found(q, p))])
  BY <1>0 DEF Walk
<1>3. PICK found : found = Found(q, p)
  OBVIOUS
<1> DEFINE n == [q EXCEPT !.at = p, !.groups = Append(@, found)]
<1>4. call'[c] = n /\ OnlyBy(c)
  BY <1>2, <1>3, Acting
<1>5. /\ Trashes(q) /\ q.root \in Rows /\ q.groups # <<>> /\ q.changed = <<>>
      /\ q.groups \in Groups
  BY <1>1, RequestFields DEF ShapeOf, Trashes, TrashShape
<1>6. found \in SUBSET Rows /\ \A s \in found : Owners[s] \cap Union(q.groups) # {}
  BY <1>1, <1>3, <1>5, FoundRows
<1>7. /\ n.step = "walk" /\ n.root = q.root /\ n.groups = Append(q.groups, found)
      /\ n.changed = q.changed
  BY <1>1 DEF Request
<1> HIDE DEF n
<1>8. Union(n.groups) = Union(q.groups) \cup found /\ n.groups # <<>> /\ Union(n.changed) = {}
  BY <1>5, <1>6, <1>7, UnionOfAppend, UnionOfFew
<1>9. BelowRoot(n)
  <2>1. Union(q.groups) \subseteq Below[q.root]
    BY <1>1, <1>5 DEF BelowRoot
  <2>2. \A s \in found : s \in Below[q.root]
    BY <2>1, <1>5, <1>6, RemovedAndBelow
  <2> QED
    BY <2>1, <2>2, <1>7, <1>8 DEF BelowRoot
<1>10. Trashes(n) /\ ~Restores(n) /\ ~Purges(n) /\ ~Restores(q)
  BY <1>1, <1>7 DEF Trashes, Restores, Purges
<1>11. q.root \notin spoilt => rows[q.root] = "live"
  BY <1>0, <1>1, <1>5 DEF Deleting
<1>12. Deleting(c)'
  BY <1>1, <1>4, <1>7, <1>8, <1>11 DEF Deleting, Going
<1>13. Standing(c)'
  BY <1>4, <1>10, <1>12 DEF Standing, Bringing, Clearing
<1>14. Union(q.changed) \subseteq Union(n.changed)
  BY <1>5, <1>7
<1> QED
  BY <1>0, <1>1, <1>4, <1>9, <1>10, <1>13, <1>14, QuietStep

\* The root comes last: it is live until every group before it is stamped.
LEMMA EndWalkHolds ==
  ASSUME Going, NEW c \in Processes, EndWalk(c)
  PROVE  TrashInv'
<1>0. PICK q : q = call[c]
  OBVIOUS
<1> DEFINE g == Append(Tail(q.groups), Head(q.groups))
           n == [q EXCEPT !.step = "read", !.at = <<1, 0>>, !.groups = g]
<1>1. /\ q \in Request /\ ShapeOf(q) /\ BelowRoot(q) /\ Deleting(c) /\ q.step = "walk"
      /\ UNCHANGED <<rows, bin>> /\ Goto(c, n)
  BY <1>0, Acting DEF EndWalk, KeepEntries
<1>2. call'[c] = n /\ OnlyBy(c)
  BY <1>1, Acting
<1>3. /\ Trashes(q) /\ q.root \in Rows /\ q.groups # <<>> /\ q.changed = <<>>
      /\ q.groups \in Groups
  BY <1>1, RequestFields DEF ShapeOf, Trashes, TrashShape
<1>4. g # <<>> /\ Union(g) = Union(q.groups)
  <2>1. /\ Tail(q.groups) \in Groups /\ Head(q.groups) \in SUBSET Rows
        /\ Union(q.groups) = Head(q.groups) \cup Union(Tail(q.groups))
    BY <1>3, UnionOfTail
  <2>2. g # <<>> /\ Union(g) = Union(Tail(q.groups)) \cup Head(q.groups)
    BY <2>1, UnionOfAppend
  <2> QED
    BY <2>1, <2>2
<1> HIDE DEF g
<1>5. n.step = "read" /\ n.root = q.root /\ n.groups = g /\ n.changed = q.changed
  BY <1>1 DEF Request
<1> HIDE DEF n
<1>6. BelowRoot(n)
  BY <1>1, <1>3, <1>4, <1>5 DEF BelowRoot
<1>7. Trashes(n) /\ ~Restores(n) /\ ~Purges(n) /\ ~Restores(q)
  BY <1>1, <1>5 DEF Trashes, Restores, Purges
<1>8. q.root \notin spoilt => rows[q.root] = "live"
  BY <1>0, <1>1, <1>3 DEF Deleting
<1>9. Union(n.changed) = {}
  BY <1>3, <1>5, UnionOfFew
<1>10. Deleting(c)'
  BY <1>1, <1>2, <1>4, <1>5, <1>8, <1>9 DEF Deleting, Going
<1>11. Standing(c)'
  BY <1>2, <1>7, <1>10 DEF Standing, Bringing, Clearing
<1> QED
  BY <1>0, <1>1, <1>2, <1>5, <1>6, <1>7, <1>11, QuietStep

\* The root is the last of the groups.
LEMMA LastGroup ==
  ASSUME NEW q \in Request, ShapeOf(q), q.step \in {"read", "write"}, q.groups # <<>>,
         Tail(q.groups) = <<>>
  PROVE  Head(q.groups) = {q.root} /\ q.groups[1] = {q.root}
<1>1. /\ q.groups \in Groups /\ q.groups[Len(q.groups)] = {q.root}
  BY RequestFields DEF ShapeOf, Trashes, TrashShape
<1>2. /\ Head(q.groups) = q.groups[1] /\ Len(Tail(q.groups)) = Len(q.groups) - 1
      /\ Len(q.groups) \in Nat
  BY <1>1, UnionOfTail
<1>3. Len(Tail(q.groups)) = 0
  <2>1. Len(<<>>) = 0
    OBVIOUS
  <2> DEFINE t == Tail(q.groups)
  <2>2. t = <<>>
    OBVIOUS
  <2> HIDE DEF t
  <2>3. Len(t) = 0
    BY <2>1, <2>2
  <2> QED
    BY <2>3 DEF t
<1>4. Len(q.groups) = 1
  BY <1>2, <1>3
<1> QED
  BY <1>1, <1>2, <1>4

\* What is read of a group is live, or another has it in hand as well.
LEMMA ReadGroupHolds ==
  ASSUME Going, NEW c \in Processes, ReadGroup(c)
  PROVE  TrashInv'
<1>00. PICK q : q = call[c]
  OBVIOUS
<1>01. PICK found : found = LiveOf(Head(q.groups))
  OBVIOUS
<1>0. q = call[c] /\ found = LiveOf(Head(q.groups))
  BY <1>00, <1>01
<1> DEFINE skip == [q EXCEPT !.groups = Tail(q.groups)]
           go == [q EXCEPT !.step = "write", !.ids = found]
<1>1. /\ q \in Request /\ ShapeOf(q) /\ BelowRoot(q) /\ Deleting(c) /\ q.step = "read"
      /\ q.groups # <<>> /\ UNCHANGED <<rows, bin>>
      /\ (found = {} /\ Goto(c, skip)) \/ (found # {} /\ Goto(c, go))
  BY <1>0, Acting DEF ReadGroup, KeepEntries
<1>2. /\ Trashes(q) /\ ~Restores(q) /\ q.root \in Rows /\ q.groups \in Groups
  BY <1>1, RequestFields DEF ShapeOf, Trashes, TrashShape, Restores
<1>3. /\ \A r \in Union(q.changed) \ spoilt :
           rows[r] = "deleted" /\ \A e \in Rows : bin[e].filed => r \notin Claim(e)
      /\ q.root \notin spoilt => rows[q.root] = "live"
      /\ spoilt \subseteq spoilt'
  BY <1>0, <1>1, <1>2 DEF Deleting, Going
<1>4. \A r \in found : rows[r] = "live"
  BY <1>0 DEF LiveOf
<1>5. \A e \in Rows : Claim(e)' = Claim(e) /\ bin'[e] = bin[e]
  BY <1>1 DEF Claim
<1>6. CASE found = {} /\ Goto(c, skip)
  <2>1. call'[c] = skip /\ OnlyBy(c)
    BY <1>6, Acting
  <2>2. /\ skip.step = "read" /\ skip.root = q.root /\ skip.groups = Tail(q.groups)
        /\ skip.changed = q.changed
    BY <1>1 DEF Request
  <2> HIDE DEF skip
  <2>3. Trashes(skip) /\ ~Restores(skip) /\ ~Purges(skip)
    BY <2>2 DEF Trashes, Restores, Purges
  <2>4. BelowRoot(skip)
    BY <1>1, <1>2, <2>2, UnionOfTail DEF BelowRoot
  <2>5. q.root \notin spoilt => skip.groups # <<>>
    <3> SUFFICES ASSUME q.root \notin spoilt, Tail(q.groups) = <<>> PROVE FALSE
      BY <2>2
    <3>1. Head(q.groups) = {q.root}
      BY <1>1, LastGroup
    <3>2. q.root \in found
      BY <3>1, <1>0, <1>3 DEF LiveOf
    <3> QED
      BY <3>2, <1>6
  <2>6. Deleting(c)'
    BY <1>1, <1>3, <1>5, <2>1, <2>2, <2>5 DEF Deleting
  <2>7. Standing(c)'
    BY <2>1, <2>3, <2>6 DEF Standing, Bringing, Clearing
  <2> QED
    BY <1>0, <1>1, <1>2, <2>1, <2>2, <2>3, <2>4, <2>7, QuietStep
<1>7. CASE found # {} /\ Goto(c, go)
  <2>1. call'[c] = go /\ OnlyBy(c)
    BY <1>7, Acting
  <2>2. /\ go.step = "write" /\ go.root = q.root /\ go.groups = q.groups
        /\ go.changed = q.changed /\ go.ids = found
    BY <1>1 DEF Request
  <2> HIDE DEF go
  <2>3. Trashes(go) /\ ~Restores(go) /\ ~Purges(go)
    BY <2>2 DEF Trashes, Restores, Purges
  <2>4. BelowRoot(go)
    BY <1>1, <1>2, <2>2 DEF BelowRoot
  <2>5. Deleting(c)'
    BY <1>1, <1>3, <1>4, <1>5, <2>1, <2>2 DEF Deleting
  <2>6. Standing(c)'
    BY <2>1, <2>3, <2>5 DEF Standing, Bringing, Clearing
  <2> QED
    BY <1>0, <1>1, <1>2, <2>1, <2>2, <2>3, <2>4, <2>6, QuietStep
<1> QED
  BY <1>1, <1>6, <1>7

\* What is stamped was live, or another has it in hand as well.
LEMMA StampGroupHolds ==
  ASSUME Going, NEW c \in Processes, StampGroup(c)
  PROVE  TrashInv'
<1>0. PICK q : q = call[c]
  OBVIOUS
<1> DEFINE n == [q EXCEPT !.step = "read", !.groups = Tail(q.groups), !.ids = {},
                          !.changed = Append(q.changed, q.ids)]
<1>1. /\ q \in Request /\ ShapeOf(q) /\ BelowRoot(q) /\ Deleting(c) /\ q.step = "write"
      /\ Goto(c, n) /\ UNCHANGED bin
      /\ rows' = [r \in Rows |-> IF r \in q.ids /\ rows[r] = "live" THEN "deleted"
                                 ELSE rows[r]]
  BY <1>0, Acting DEF StampGroup, KeepEntries
<1>2. call'[c] = n /\ OnlyBy(c)
  BY <1>1, Acting
<1>3. /\ Trashes(q) /\ ~Restores(q) /\ TrashShape(q) /\ q.root \in Rows
      /\ q.groups \in Groups /\ q.groups # <<>> /\ q.changed \in Groups
      /\ q.ids \in SUBSET Rows /\ q.ids # {} /\ q.ids \subseteq q.groups[1]
  BY <1>1, RequestFields DEF ShapeOf, Trashes, TrashShape, Restores
<1> DEFINE changed == Append(q.changed, q.ids)
<1>4. /\ changed # <<>> /\ Union(changed) = Union(q.changed) \cup q.ids
      /\ Last(changed) = q.ids
  <2>1. /\ changed \in Groups /\ changed # <<>> /\ Len(changed) = Len(q.changed) + 1
        /\ changed[Len(q.changed) + 1] = q.ids
        /\ Union(changed) = Union(q.changed) \cup q.ids
    BY <1>3, UnionOfAppend
  <2> HIDE DEF changed
  <2>2. Last(changed) = changed[Len(changed)]
    BY <2>1, UnionOfFront
  <2> QED
    BY <2>1, <2>2
<1> HIDE DEF changed
<1>5. /\ n.step = "read" /\ n.root = q.root /\ n.groups = Tail(q.groups)
      /\ n.changed = changed
  BY <1>1 DEF Request, changed
<1> HIDE DEF n
<1>6. /\ Head(q.groups) = q.groups[1] /\ Union(q.groups) = Head(q.groups) \cup Union(Tail(q.groups))
  BY <1>3, UnionOfTail
<1>7. q.ids \subseteq InHand(q) /\ Union(q.changed) \subseteq InHand(q)
  BY <1>1, <1>3, <1>6, HandHolds
<1>8. Trashes(n) /\ ~Restores(n) /\ ~Purges(n)
  BY <1>5 DEF Trashes, Restores, Purges
<1>9. BelowRoot(n)
  BY <1>1, <1>3, <1>4, <1>5, <1>6 DEF BelowRoot
<1>10. /\ \A r \in Union(q.changed) \ spoilt :
            rows[r] = "deleted" /\ \A e \in Rows : bin[e].filed => r \notin Claim(e)
       /\ \A r \in q.ids \ spoilt : rows[r] = "live"
       /\ q.root \notin spoilt => rows[q.root] = "live"
       /\ spoilt \subseteq spoilt'
  BY <1>0, <1>1, <1>3 DEF Deleting, Going
<1>11. \A e \in Rows : Claim(e)' = Claim(e) /\ bin'[e] = bin[e]
  BY <1>1 DEF Claim
<1>12. Within(InHand(call[c]))
  BY <1>0, <1>1, <1>7 DEF Within
<1>13. EntriesBelow' /\ ClaimsHold' /\ ClaimedOnce'
  BY <1>0, <1>1, <1>2, <1>3, ClaimsKept
<1>14. ASSUME NEW r \in q.ids \ spoilt', NEW e \in Rows, bin[e].filed PROVE r \notin Claim(e)
  <2> SUFFICES ASSUME r \in Claim(e) PROVE FALSE
    OBVIOUS
  <2>1. rows[r] = "live" /\ r \notin spoilt
    BY <1>10
  <2>2. BroughtBack(e, r)
    BY <2>1, <1>14 DEF Going, TrashInv, ClaimsHold
  <2>3. PICK x \in Processes : Restores(call[x]) /\ r \in Union(call[x].changed)
    BY <2>2 DEF BroughtBack
  <2>4. x # c /\ r \in InHand(call[x]) /\ r \in InHand(call[c])
    BY <2>3, <1>0, <1>3, <1>7, HandHolds DEF Going, TrashInv, TypeInv, TypeOK
  <2> QED
    BY <2>1, <2>4 DEF Going, TrashInv, TypeInv, Observed
<1>15. q.root \notin spoilt' =>
         IF n.groups # <<>> THEN rows'[q.root] = "live" ELSE RootStamped(n)
  <2>1. CASE Tail(q.groups) # <<>>
    <3>1. 1 \in 1 .. Len(q.groups) - 1
      BY <2>1, <1>3, MoreThanOne
    <3>2. q.root \notin q.ids
      BY <3>1, <1>1, <1>3 DEF TrashShape
    <3> QED
      BY <2>1, <3>2, <1>1, <1>3, <1>5, <1>10
  <2>2. CASE Tail(q.groups) = <<>>
    <3>1. q.ids = {q.root}
      BY <2>2, <1>1, <1>3, LastGroup
    <3> QED
      BY <2>2, <3>1, <1>4, <1>5 DEF RootStamped
  <2> QED
    BY <2>1, <2>2
<1>16. \A r \in Union(n.changed) \ spoilt' :
         rows'[r] = "deleted" /\ \A e \in Rows : bin'[e].filed => r \notin Claim(e)'
  <2> SUFFICES ASSUME NEW r \in Union(n.changed) \ spoilt'
               PROVE  /\ rows'[r] = "deleted"
                      /\ \A e \in Rows : bin[e].filed => r \notin Claim(e)
    BY <1>11
  <2>1. r \in Rows /\ (r \in Union(q.changed) \/ r \in q.ids)
    BY <1>3, <1>4, <1>5, UnionOfGroups
  <2>2. CASE r \in Union(q.changed)
    BY <2>1, <2>2, <1>1, <1>10
  <2>3. CASE r \in q.ids
    BY <2>1, <2>3, <1>1, <1>10, <1>14
  <2> QED
    BY <2>1, <2>2, <2>3
<1>17. Deleting(c)'
  BY <1>2, <1>5, <1>15, <1>16 DEF Deleting
<1>18. Standing(c)'
  BY <1>2, <1>8, <1>17 DEF Standing, Bringing, Clearing
<1>19. Accounted'
  <2> SUFFICES ASSUME NEW r \in Rows \ spoilt', rows'[r] = "deleted"
               PROVE  \/ \E e \in Rows : bin[e].filed /\ r \in Claim(e)
                      \/ \E x \in Processes : Trashes(call'[x]) /\ r \in Union(call'[x].changed)
                      \/ LeftBehind(r)'
    BY <1>11 DEF Accounted
  <2>1. Trashes(call'[c]) /\ Union(call'[c].changed) = Union(q.changed) \cup q.ids
    BY <1>2, <1>4, <1>5, <1>8
  <2>2. CASE r \in q.ids
    BY <2>1, <2>2
  <2>3. CASE r \notin q.ids
    <3>1. rows[r] = "deleted" /\ r \in Rows \ spoilt
      BY <2>3, <1>1, <1>10
    <3>2. CASE LeftBehind(r)
      BY <3>2 DEF LeftBehind, Going, RowsGoOn
    <3>3. ASSUME NEW x \in Processes, Trashes(call[x]), r \in Union(call[x].changed)
          PROVE  Trashes(call'[x]) /\ r \in Union(call'[x].changed)
      BY <3>3, <2>1, <1>0, <1>2 DEF OnlyBy
    <3> QED
      BY <3>1, <3>2, <3>3 DEF Going, TrashInv, Accounted
  <2> QED
    BY <2>2, <2>3
<1> QED
  BY <1>2, <1>9, <1>12, <1>13, <1>18, <1>19, InvariantGoesOn

\* The entry takes over what was stamped.
LEMMA FileEntryHolds ==
  ASSUME Going, NEW c \in Processes, FileEntry(c)
  PROVE  TrashInv'
<1>0. PICK q : q = call[c]
  OBVIOUS
<1> DEFINE new == [filed |-> TRUE, cascade |-> Front(q.changed)]
<1>1. /\ q \in Request /\ ShapeOf(q) /\ BelowRoot(q) /\ Deleting(c) /\ q.step = "read"
      /\ q.groups = <<>> /\ Goto(c, Idle) /\ UNCHANGED rows
      /\ bin' = IF RootStamped(q) /\ ~bin[q.root].filed THEN [bin EXCEPT ![q.root] = new]
                                                        ELSE bin
  BY <1>0, Acting DEF FileEntry
<1>2. call'[c] = Idle /\ OnlyBy(c)
  BY <1>1, Acting
<1>3. /\ Trashes(q) /\ ~Restores(q) /\ q.root \in Rows /\ q.changed \in Groups
      /\ q.root \in InHand(q) /\ Union(q.changed) \subseteq InHand(q)
  BY <1>1, RequestFields, HandHolds DEF ShapeOf, Trashes, TrashShape, Restores
<1>4. /\ \A r \in Union(q.changed) \ spoilt :
           rows[r] = "deleted" /\ \A e \in Rows : bin[e].filed => r \notin Claim(e)
      /\ q.root \notin spoilt => RootStamped(q)
      /\ spoilt \subseteq spoilt'
  BY <1>0, <1>1, <1>3 DEF Deleting, Going
<1>5. RootStamped(q) => Union(q.changed) = Union(Front(q.changed)) \cup {q.root}
  BY <1>3, UnionOfFront DEF RootStamped
<1>6. q.root \notin spoilt => ~bin[q.root].filed
  BY <1>3, <1>4, <1>5 DEF Claim
<1>7. BelowRoot(call'[c]) /\ Standing(c)'
  BY <1>2, IdleStands
<1>8. CASE ~(RootStamped(q) /\ ~bin[q.root].filed)
  <2>1. UNCHANGED bin /\ InHand(q) \subseteq spoilt'
    BY <1>0, <1>1, <1>4, <1>6, <1>8, SpoiltRoot
  <2> QED
    BY <2>1, <1>0, <1>1, <1>2, <1>3, <1>7, QuietStep
<1>9. CASE RootStamped(q) /\ ~bin[q.root].filed
  <2>1. /\ bin'[q.root] = new /\ \A e \in Rows \ {q.root} : bin'[e] = bin[e]
        /\ new.filed /\ new.cascade = Front(q.changed)
    BY <1>1, <1>3, <1>9 DEF Going, TrashInv, TypeInv, TypeOK
  <2> HIDE DEF new
  <2>2. Claim(q.root)' = Union(q.changed)
    BY <2>1, <1>5, <1>9 DEF Claim, Union
  <2>3. \A e \in Rows \ {q.root} : Claim(e)' = Claim(e)
    BY <2>1 DEF Claim
  <2>4. Within(InHand(call[c]))
    <3> SUFFICES ASSUME NEW e \in Rows, bin'[e] # bin[e]
                 PROVE  e \in InHand(q) /\ Claim(e)' \subseteq InHand(q)
      BY <1>0, <1>1 DEF Within
    <3>1. e = q.root
      BY <2>1
    <3> QED
      BY <3>1, <2>2, <1>3
  <2>5. EntriesBelow'
    <3> SUFFICES ASSUME NEW e \in Rows, bin'[e].filed PROVE Claim(e)' \subseteq Below[e]
      BY DEF EntriesBelow
    <3>1. CASE e = q.root
      BY <3>1, <2>2, <1>1, <1>3 DEF BelowRoot
    <3>2. CASE e # q.root
      BY <3>2, <2>1, <2>3 DEF Going, TrashInv, EntriesBelow
    <3> QED
      BY <3>1, <3>2
  <2>6. ClaimsHold'
    <3> SUFFICES ASSUME NEW e \in Rows, bin'[e].filed, NEW r \in Claim(e)' \ spoilt'
                 PROVE  rows[r] \in {"deleted", "gone"} \/ BroughtBack(e, r)'
      BY <1>1 DEF ClaimsHold
    <3>1. CASE e = q.root
      BY <3>1, <2>2, <1>4
    <3>2. CASE e # q.root
      <4>1. bin[e].filed /\ r \in Claim(e) \ spoilt
        BY <3>2, <2>1, <2>3, <1>4
      <4>2. CASE BroughtBack(e, r)
        <5>1. PICK x \in Processes :
                Restores(call[x]) /\ call[x].root = e /\ r \in Union(call[x].changed)
          BY <4>2 DEF BroughtBack
        <5>2. x # c
          BY <5>1, <1>0, <1>3
        <5> QED
          BY <5>1, <5>2, <1>2 DEF OnlyBy, BroughtBack
      <4> QED
        BY <4>1, <4>2 DEF Going, TrashInv, ClaimsHold
    <3> QED
      BY <3>1, <3>2
  <2>7. ClaimedOnce'
    <3>1. ASSUME NEW o \in Rows, o # q.root, bin[o].filed
          PROVE  Union(q.changed) \cap Claim(o) \subseteq spoilt'
      BY <3>1, <1>4
    <3> SUFFICES ASSUME NEW e \in Rows, NEW o \in Rows, bin'[e].filed, bin'[o].filed, e # o
                 PROVE  Claim(e)' \cap Claim(o)' \subseteq spoilt'
      BY DEF ClaimedOnce
    <3>2. CASE e = q.root
      BY <3>1, <3>2, <2>1, <2>2, <2>3
    <3>3. CASE o = q.root
      BY <3>1, <3>3, <2>1, <2>2, <2>3
    <3>4. CASE e # q.root /\ o # q.root
      <4>1. Claim(e) \cap Claim(o) \subseteq spoilt
        BY <3>4, <2>1 DEF Going, TrashInv, ClaimedOnce
      <4> QED
        BY <3>4, <4>1, <2>3, <1>4
    <3> QED
      BY <3>2, <3>3, <3>4
  <2>8. Accounted'
    <3> SUFFICES ASSUME NEW r \in Rows \ spoilt', rows[r] = "deleted"
                 PROVE  \/ \E e \in Rows : bin'[e].filed /\ r \in Claim(e)'
                        \/ \E x \in Processes : Trashes(call'[x]) /\ r \in Union(call'[x].changed)
                        \/ LeftBehind(r)'
      BY <1>1 DEF Accounted
    <3>1. r \in Rows \ spoilt
      BY <1>4
    <3>2. CASE LeftBehind(r)
      BY <3>2 DEF LeftBehind, Going, RowsGoOn
    <3>3. CASE \E e \in Rows : bin[e].filed /\ r \in Claim(e)
      BY <3>3, <2>1, <2>3, <1>9
    <3>4. CASE \E x \in Processes : Trashes(call[x]) /\ r \in Union(call[x].changed)
      <4>1. PICK x \in Processes : Trashes(call[x]) /\ r \in Union(call[x].changed)
        BY <3>4
      <4>2. CASE x = c
        BY <4>1, <4>2, <2>1, <2>2, <1>0, <1>3
      <4>3. CASE x # c
        BY <4>1, <4>3, <1>2 DEF OnlyBy
      <4> QED
        BY <4>2, <4>3
    <3> QED
      BY <3>1, <3>2, <3>3, <3>4 DEF Going, TrashInv, Accounted
  <2> QED
    BY <1>2, <1>7, <2>4, <2>5, <2>6, <2>7, <2>8, InvariantGoesOn
<1> QED
  BY <1>8, <1>9

-----------------------------------------------------------------------------
(* The steps of a restore *)

\* A restore has everything its entry claims still to bring back.
LEMMA BeginRestoreHolds ==
  ASSUME Going, NEW c \in Callers, NEW e \in Rows, BeginRestore(c, e)
  PROVE  TrashInv'
<1> DEFINE g == <<{e}>> \o Reverse(bin[e].cascade)
           n == [Idle EXCEPT !.step = "clear", !.root = e, !.groups = g]
<1>1. /\ Goto(c, n) /\ bin[e].filed /\ call[c] = Idle /\ c \in Processes
      /\ UNCHANGED <<rows, bin>>
  BY DEF BeginRestore, Begin, KeepEntries, Processes
<1>2. Union(g) = {e} \cup Union(bin[e].cascade)
  <2>1. bin[e].cascade \in Groups
    BY DEF Going, TrashInv, TypeInv, TypeOK, Entry, Groups
  <2> QED
    BY <2>1, UnionOfRestore
<1>3. Claim(e) = Union(g) /\ Claim(e)' = Union(g)
  BY <1>1, <1>2 DEF Claim, Union
<1> HIDE DEF g
<1>4. n.step = "clear" /\ n.root = e /\ n.groups = g /\ n.changed = <<>>
  BY IdleHolds DEF Idle
<1>5. call'[c] = n /\ OnlyBy(c)
  BY <1>1, Acting
<1>6. PICK q : q = n
  OBVIOUS
<1> HIDE DEF n
<1>7. /\ call'[c] = q /\ q.root = e /\ Union(q.groups) = Claim(e)' /\ Union(q.changed) = {}
      /\ ~Trashes(q) /\ ~Purges(q)
  BY <1>3, <1>4, <1>5, <1>6, UnionOfFew DEF Trashes, Purges
<1>8. BelowRoot(q)
  BY <1>7 DEF BelowRoot
<1>9. Bringing(c)'
  BY <1>1, <1>7 DEF Bringing
<1>10. Standing(c)'
  BY <1>7, <1>9 DEF Standing, Deleting, Clearing
<1> QED
  BY <1>1, <1>5, <1>7, <1>8, <1>10, IdleHolds, QuietStep

\* What comes back is no longer claimed, the rest of the entry still is.
LEMMA ClearGroupHolds ==
  ASSUME Going, NEW c \in Processes, ClearGroup(c)
  PROVE  TrashInv'
<1>00. PICK q : q = call[c]
  OBVIOUS
<1>01. PICK h : h = Head(q.groups)
  OBVIOUS
<1>0. PICK e : e = q.root
  OBVIOUS
<1> DEFINE n == [q EXCEPT !.groups = Tail(q.groups), !.changed = Append(q.changed, h)]
<1>1. /\ q \in Request /\ ShapeOf(q) /\ Bringing(c) /\ q.step = "clear"
      /\ q.groups # <<>> /\ Goto(c, n) /\ UNCHANGED bin
      /\ rows' = [r \in Rows |-> IF r \in h /\ rows[r] = "deleted" THEN "live" ELSE rows[r]]
  BY <1>00, <1>01, Acting DEF ClearGroup, KeepEntries
<1>2. call'[c] = n /\ OnlyBy(c)
  BY <1>1, Acting
<1>3. /\ Restores(q) /\ ~Trashes(q) /\ e \in Rows /\ q.groups \in Groups /\ q.changed \in Groups
  BY <1>0, <1>1, RequestFields DEF ShapeOf, Restores, Trashes
<1>4. /\ h \in SUBSET Rows /\ Union(q.groups) = h \cup Union(Tail(q.groups))
  BY <1>01, <1>1, <1>3, UnionOfTail
<1>5. Union(Append(q.changed, h)) = Union(q.changed) \cup h
  BY <1>3, <1>4, UnionOfAppend
<1>6. /\ n.step = "clear" /\ n.root = e /\ n.groups = Tail(q.groups)
      /\ n.changed = Append(q.changed, h)
  BY <1>0, <1>1 DEF Request
<1>7. PICK x : x = n
  OBVIOUS
<1> HIDE DEF n
<1>8. /\ call'[c] = x /\ x.root = e /\ Union(x.changed) = Union(q.changed) \cup h
      /\ Union(x.groups) \cup Union(x.changed) = Union(q.groups) \cup Union(q.changed)
      /\ Restores(x) /\ ~Trashes(x) /\ ~Purges(x)
  BY <1>2, <1>4, <1>5, <1>6, <1>7 DEF Restores, Trashes, Purges
<1>9. h \subseteq InHand(q) /\ h \subseteq InHand(x) /\ Union(q.changed) \subseteq Rows
  <2>1. x \in Request
    BY <1>8 DEF Going, TypeInv, TypeOK
  <2> QED
    BY <2>1, <1>1, <1>3, <1>4, <1>8, HandHolds, UnionOfGroups
<1>10. LET held == Union(q.groups) \cup Union(q.changed)
       IN  /\ bin[e].filed => Claim(e) \subseteq held \cup spoilt
           /\ e \notin spoilt => bin[e].filed /\ held \subseteq Claim(e)
           /\ \A r \in Union(q.changed) \ spoilt : rows[r] # "deleted"
  BY <1>00, <1>0, <1>1, <1>3 DEF Bringing
<1>11. \A o \in Rows : Claim(o)' = Claim(o) /\ bin'[o] = bin[o]
  BY <1>1 DEF Claim
<1>12. spoilt \subseteq spoilt'
  BY DEF Going
<1>13. BelowRoot(call'[c])
  BY <1>8 DEF BelowRoot
<1>14. \A r \in Union(x.changed) \ spoilt' : rows'[r] # "deleted"
  BY <1>1, <1>4, <1>8, <1>9, <1>10, <1>12
<1>15. Bringing(c)'
  <2>1. /\ bin'[e].filed => Claim(e)' \subseteq Union(x.groups) \cup Union(x.changed) \cup spoilt'
        /\ e \notin spoilt' =>
             bin'[e].filed /\ Union(x.groups) \cup Union(x.changed) \subseteq Claim(e)'
    BY <1>3, <1>8, <1>10, <1>11, <1>12
  <2> QED
    BY <1>8, <1>14, <2>1 DEF Bringing
<1>16. Standing(c)'
  BY <1>8, <1>15 DEF Standing, Deleting, Clearing
<1>17. Within(InHand(call[c]))
  BY <1>00, <1>1, <1>9, <1>11 DEF Within
<1>18. EntriesBelow' /\ ClaimedOnce'
  BY <1>11, <1>12 DEF Going, TrashInv, EntriesBelow, ClaimedOnce
<1>19. ASSUME NEW o \in Rows, bin[o].filed, NEW r \in Claim(o) \ spoilt'
       PROVE  rows'[r] \in {"deleted", "gone"} \/ BroughtBack(o, r)'
  <2>1. r \in Rows /\ r \notin spoilt
    <3>1. bin[o] \in Entry
      BY DEF Going, TrashInv, TypeInv, TypeOK
    <3>2. Union(bin[o].cascade) \subseteq Rows
      BY <3>1, UnionOfGroups DEF Entry, Groups
    <3> QED
      BY <1>12, <3>2 DEF Claim, Union
  <2>2. CASE rows[r] \in {"deleted", "gone"} /\ rows'[r] \notin {"deleted", "gone"}
    <3>1. r \in h
      BY <2>1, <2>2, <1>1
    <3>2. e \notin spoilt
      <4>1. call'[c].root \notin spoilt'
        BY <3>1, <1>8, <1>9, SpoiltRoot
      <4> QED
        BY <4>1, <1>8, <1>12
    <3>3. bin[e].filed /\ r \in Claim(e)
      BY <3>1, <3>2, <1>4, <1>10
    <3>4. o = e
      BY <3>3, <2>1, <1>3, <1>19 DEF Going, TrashInv, ClaimedOnce
    <3> QED
      BY <3>1, <3>4, <1>8 DEF BroughtBack
  <2>3. CASE BroughtBack(o, r)
    <3>1. PICK d \in Processes :
            Restores(call[d]) /\ call[d].root = o /\ r \in Union(call[d].changed)
      BY <2>3 DEF BroughtBack
    <3>2. CASE d = c
      BY <3>1, <3>2, <1>00, <1>0, <1>8 DEF BroughtBack
    <3>3. CASE d # c
      BY <3>1, <3>3, <1>2 DEF BroughtBack, OnlyBy
    <3> QED
      BY <3>2, <3>3
  <2>4. rows[r] \in {"deleted", "gone"} \/ BroughtBack(o, r)
    BY <1>19, <2>1 DEF Going, TrashInv, ClaimsHold
  <2> QED
    BY <2>2, <2>3, <2>4
<1>20. ClaimsHold'
  BY <1>11, <1>19 DEF ClaimsHold
<1>21. Accounted'
  BY <1>00, <1>1, <1>2, <1>3, AccountsKept
<1> QED
  BY <1>2, <1>13, <1>16, <1>17, <1>18, <1>20, <1>21, InvariantGoesOn

\* An entry that is removed: nobody else needs it, and what it claims is accounted
\* for by other means.
LEMMA RemovalHolds ==
  ASSUME Going, NEW c \in Processes, OnlyBy(c), NEW e \in Rows, e = call[c].root,
         RemoveEntry(e), UNCHANGED rows, ~Trashes(call[c]),
         BelowRoot(call'[c]), Standing(c)',
         \A r \in Claim(e) \ spoilt' : rows[r] = "deleted" => LeftBehind(r)
  PROVE  TrashInv'
<1>1. /\ ~bin'[e].filed /\ \A o \in Rows \ {e} : bin'[o] = bin[o]
  BY DEF RemoveEntry, NoEntry, Going, TrashInv, TypeInv, TypeOK
<1>2. e \in InHand(call[c])
  BY HandHolds DEF Going, TrashInv, TypeInv, TypeOK
<1>3. Within(InHand(call[c]))
  BY <1>1, <1>2 DEF Within
<1>4. EntriesBelow' /\ ClaimsHold' /\ ClaimedOnce'
  BY <1>1, ClaimsKept
<1>5. Accounted'
  <2> SUFFICES ASSUME NEW r \in Rows \ spoilt', rows[r] = "deleted"
               PROVE  \/ \E o \in Rows : bin'[o].filed /\ r \in Claim(o)'
                      \/ \E x \in Processes : Trashes(call'[x]) /\ r \in Union(call'[x].changed)
                      \/ LeftBehind(r)'
    BY DEF Accounted
  <2>1. r \in Rows \ spoilt
    BY DEF Going
  <2>2. CASE LeftBehind(r)
    BY <2>2 DEF LeftBehind, Going, RowsGoOn
  <2>3. CASE \E o \in Rows \ {e} : bin[o].filed /\ r \in Claim(o)
    BY <2>3, <1>1 DEF Claim
  <2>4. CASE r \in Claim(e)
    BY <2>2, <2>4
  <2>5. CASE \E x \in Processes : Trashes(call[x]) /\ r \in Union(call[x].changed)
    BY <2>5 DEF OnlyBy
  <2> QED
    BY <2>1, <2>2, <2>3, <2>4, <2>5 DEF Going, TrashInv, Accounted
<1> QED
  BY <1>3, <1>4, <1>5, InvariantGoesOn

\* An entry goes when all it claimed is back.
LEMMA EndRestoreHolds ==
  ASSUME Going, NEW c \in Processes, EndRestore(c)
  PROVE  TrashInv'
<1>00. PICK q : q = call[c]
  OBVIOUS
<1>0. PICK e : e = q.root
  OBVIOUS
<1>1. /\ q \in Request /\ ShapeOf(q) /\ Bringing(c) /\ q.step = "clear" /\ q.groups = <<>>
      /\ Goto(c, Idle) /\ UNCHANGED rows
      /\ IF bin[e].filed THEN RemoveEntry(e) ELSE UNCHANGED bin
  BY <1>00, <1>0, Acting DEF EndRestore, KeepEntries
<1>2. call'[c] = Idle /\ OnlyBy(c)
  BY <1>1, Acting
<1>3. BelowRoot(call'[c]) /\ Standing(c)'
  BY <1>2, IdleStands
<1>4. Restores(q) /\ ~Trashes(q) /\ e \in Rows
  BY <1>0, <1>1 DEF ShapeOf, Restores, Trashes
<1>5. CASE bin[e].filed
  <2>1. Union(q.groups) = {}
    BY <1>1, UnionOfFew
  <2>2. ASSUME NEW r \in Claim(e) \ spoilt' PROVE rows[r] # "deleted"
    <3>1. r \in Union(q.changed) \ spoilt
      BY <2>1, <1>00, <1>0, <1>1, <1>4, <1>5 DEF Bringing, Going
    <3> QED
      BY <3>1, <1>00, <1>1, <1>4 DEF Bringing
  <2> QED
    BY <2>2, <1>00, <1>0, <1>1, <1>2, <1>3, <1>4, <1>5, RemovalHolds
<1>6. CASE ~bin[e].filed
  BY <1>6, <1>00, <1>0, <1>1, <1>2, <1>3, <1>4, QuietStep
<1> QED
  BY <1>5, <1>6

-----------------------------------------------------------------------------
(* The steps of a purge *)

\* What a purge expects when it is not at the point of dropping an entry.
LEMMA PurgeStands ==
  ASSUME NEW c \in Processes, NEW n, call'[c] = n, ~Trashes(n), ~Restores(n),
         \A e \in Asked(n) \ spoilt' : bin'[e].filed,
         n.step = "drop" => rows'[n.root] = "gone"
  PROVE  BelowRoot(call'[c]) /\ Standing(c)'
BY DEF BelowRoot, Standing, Deleting, Bringing, Clearing

\* A purge by hand relies on an entry that is filed,
LEMMA PurgeNowHolds ==
  ASSUME Going, NEW c \in Callers, NEW e \in Rows, PurgeNow(c, e)
  PROVE  TrashInv'
<1> DEFINE n == [Idle EXCEPT !.step = "next", !.todo = {e}]
<1>1. n.step = "next" /\ n.root = None /\ n.todo = {e}
  BY IdleHolds DEF Idle
<1>2. /\ Goto(c, n) /\ bin[e].filed /\ call[c] = Idle /\ c \in Processes
      /\ UNCHANGED <<rows, bin>>
  BY DEF PurgeNow, Begin, KeepEntries, Processes
<1> HIDE DEF n
<1>3. call'[c] = n /\ OnlyBy(c)
  BY <1>2, Acting
<1>4. ~Trashes(n) /\ ~Restores(n) /\ Asked(n) = {e}
  BY <1>1 DEF Trashes, Restores, Asked
<1>5. BelowRoot(call'[c]) /\ Standing(c)'
  BY <1>1, <1>2, <1>3, <1>4, PurgeStands
<1> QED
  BY <1>2, <1>3, <1>5, IdleHolds, QuietStep

\* and the sweep on the batch it has read.
LEMMA PurgeExpiredHolds ==
  ASSUME Going, PurgeExpired
  PROVE  TrashInv'
<1>1. PICK es \in SUBSET due :
        /\ call[Sweeper] = Idle
        /\ Goto(Sweeper, [Idle EXCEPT !.step = "next", !.todo = es])
  BY SweepBegins, TypesRestated DEF Going, TrashInv
<1> DEFINE n == [Idle EXCEPT !.step = "next", !.todo = es]
<1>2. n.step = "next" /\ n.root = None /\ n.todo = es
  BY IdleHolds DEF Idle
<1>3. /\ Goto(Sweeper, n) /\ Sweeper \in Processes /\ UNCHANGED <<rows, bin>>
      /\ \A e \in es : bin[e].filed
  BY <1>1 DEF PurgeExpired, KeepEntries, Processes, Going, TrashInv, TypeInv, TypeOK
<1> HIDE DEF n
<1>4. call'[Sweeper] = n /\ OnlyBy(Sweeper)
  BY <1>3, Acting
<1>5. ~Trashes(n) /\ ~Restores(n) /\ Asked(n) = es
  BY <1>2 DEF Trashes, Restores, Asked
<1>6. BelowRoot(call'[Sweeper]) /\ Standing(Sweeper)'
  BY <1>2, <1>3, <1>4, <1>5, PurgeStands
<1> QED
  BY <1>1, <1>3, <1>4, <1>6, IdleHolds, QuietStep

\* A purge is neither a delete nor a restore, and its entries are filed.
LEMMA PurgeActs ==
  ASSUME Going, NEW c \in Processes, Purges(call[c])
  PROVE  /\ ~Trashes(call[c]) /\ ~Restores(call[c])
         /\ \A e \in Asked(call[c]) \ spoilt : bin[e].filed
         /\ call[c].step = "drop" => rows[call[c].root] = "gone"
         /\ spoilt \subseteq spoilt'
BY Acting, PurgeShape DEF Clearing, Going

\* A purge turns to an entry, and writes nothing.
LEMMA NextEntryHolds ==
  ASSUME Going, NEW c \in Processes, NextEntry(c)
  PROVE  TrashInv'
<1>0. PICK q : q = call[c]
  OBVIOUS
<1>1. q \in Request /\ q.step = "next" /\ UNCHANGED <<rows, bin>> /\ Purges(q)
  BY <1>0, Acting DEF NextEntry, KeepEntries, Purges
<1>2. PICK e \in q.todo :
        Goto(c, [q EXCEPT !.step = IF Kept(e) THEN "defer" ELSE "destroy",
                          !.root = e, !.todo = q.todo \ {e}])
  BY <1>0 DEF NextEntry
<1>3. PICK s \in {"destroy", "defer"} :
        Goto(c, [q EXCEPT !.step = s, !.root = e, !.todo = q.todo \ {e}])
  BY <1>2
<1> DEFINE n == [q EXCEPT !.step = s, !.root = e, !.todo = q.todo \ {e}]
<1>4. n.step = s /\ n.root = e /\ n.todo = q.todo \ {e}
  BY <1>1 DEF Request
<1>5. call'[c] = n /\ OnlyBy(c)
  BY <1>3, Acting
<1> HIDE DEF n
<1>6. ~Trashes(n) /\ ~Restores(n) /\ Asked(n) \subseteq Asked(q)
  BY <1>4 DEF Trashes, Restores, Asked
<1>7. /\ ~Trashes(q) /\ ~Restores(q) /\ spoilt \subseteq spoilt'
      /\ \A x \in Asked(q) \ spoilt : bin[x].filed
  BY <1>0, <1>1, PurgeActs
<1>8. BelowRoot(call'[c]) /\ Standing(c)'
  BY <1>1, <1>4, <1>5, <1>6, <1>7, PurgeStands
<1> QED
  BY <1>0, <1>1, <1>5, <1>7, <1>8, QuietStep

\* What the database destroys is below the root of the entry.
LEMMA DestroyHolds ==
  ASSUME Going, NEW c \in Processes, Destroy(c)
  PROVE  TrashInv'
<1>0. PICK q : q = call[c]
  OBVIOUS
<1>00. PICK e : e = q.root
  OBVIOUS
<1> DEFINE taken == {r \in Removed[e] : Exists(r)}
<1>1. q \in Request /\ ShapeOf(q) /\ q.step = "destroy" /\ UNCHANGED bin /\ Purges(q)
  BY <1>0, Acting DEF Destroy, KeepEntries, Purges
<1>2. PICK s \in {"drop", "defer"} :
        /\ Goto(c, [q EXCEPT !.step = s])
        /\ IF s = "drop"
             THEN rows' = [r \in Rows |-> IF Exists(e) /\ r \in taken THEN "gone" ELSE rows[r]]
             ELSE UNCHANGED rows
  BY <1>0, <1>00 DEF Destroy
<1> DEFINE n == [q EXCEPT !.step = s]
<1>3. n.step = s /\ n.root = e /\ n.todo = q.todo
  BY <1>00, <1>1, <1>2 DEF Request
<1>4. call'[c] = n /\ OnlyBy(c)
  BY <1>2, Acting
<1> HIDE DEF n
<1>5. /\ e \in Rows /\ e \in Asked(q) /\ Removed[e] \subseteq InHand(q) /\ e \in Removed[e]
  BY <1>00, <1>1, PurgeShape, HandHolds, RemovedAndBelow
<1>6. ~Trashes(n) /\ ~Restores(n) /\ Asked(n) = Asked(q)
  BY <1>00, <1>2, <1>3 DEF Trashes, Restores, Asked
<1>7. /\ ~Trashes(q) /\ ~Restores(q) /\ spoilt \subseteq spoilt'
      /\ \A x \in Asked(q) \ spoilt : bin[x].filed
  BY <1>0, <1>1, PurgeActs
<1>8. ASSUME s = "drop" PROVE rows'[e] = "gone"
  <2>1. rows[e] \in Statuses /\ rows[e] # "unborn"
    BY <1>0, <1>5 DEF Going, TrashInv, TypeInv, TypeOK, HandsBorn, Statuses
  <2>2. CASE Exists(e)
    BY <2>2, <1>2, <1>5, <1>8
  <2>3. CASE ~Exists(e)
    BY <2>1, <2>3, <1>2, <1>5, <1>8 DEF Exists, Statuses
  <2> QED
    BY <2>2, <2>3
<1>9. BelowRoot(call'[c]) /\ Standing(c)'
  BY <1>1, <1>3, <1>4, <1>6, <1>7, <1>8, PurgeStands
<1>10. \A r \in Rows : rows'[r] # rows[r] => r \in InHand(q) /\ rows'[r] = "gone"
  BY <1>2, <1>5
<1>11. Within(InHand(call[c]))
  BY <1>0, <1>1, <1>10 DEF Within
<1>12. EntriesBelow' /\ ClaimsHold' /\ ClaimedOnce'
  BY <1>0, <1>1, <1>4, <1>7, <1>10, ClaimsKept
<1>13. Accounted'
  BY <1>0, <1>1, <1>4, <1>7, <1>10, AccountsKept
<1> QED
  BY <1>4, <1>9, <1>11, <1>12, <1>13, InvariantGoesOn

\* A purge that is done with an entry expects what it did of the others.
LEMMA ProceedStands ==
  ASSUME Going, NEW c \in Processes, Purges(call[c]), call'[c] = Proceed(call[c]),
         \A e \in call[c].todo : bin'[e] = bin[e]
  PROVE  BelowRoot(call'[c]) /\ Standing(c)'
<1>0. PICK q : q = call[c]
  OBVIOUS
<1>1. q \in Request /\ ShapeOf(q) /\ Purges(q)
  BY <1>0, Acting
<1>2. PICK n : n = Proceed(q)
  OBVIOUS
<1>3. /\ Asked(n) = q.todo /\ n.step \in {"idle", "next"} /\ q.todo \subseteq Asked(q)
  BY <1>1, <1>2, ProceedShape DEF Asked
<1>4. \A e \in Asked(q) \ spoilt : bin[e].filed
  BY <1>0, <1>1, PurgeActs
<1>5. \A e \in Asked(n) \ spoilt' : bin'[e].filed
  BY <1>0, <1>3, <1>4 DEF Going
<1>6. ~Trashes(n) /\ ~Restores(n) /\ n.step # "drop"
  BY <1>3 DEF Trashes, Restores
<1> QED
  BY <1>0, <1>2, <1>5, <1>6, PurgeStands

\* The entry goes after its row.
LEMMA DropEntryHolds ==
  ASSUME Going, NEW c \in Processes, DropEntry(c)
  PROVE  TrashInv'
<1>0. PICK q : q = call[c]
  OBVIOUS
<1>00. PICK e : e = q.root
  OBVIOUS
<1> DEFINE n == [q EXCEPT !.step = "defer"]
<1>1. /\ q \in Request /\ ShapeOf(q) /\ q.step = "drop" /\ UNCHANGED rows /\ Purges(q)
      /\ \/ bin[e].filed /\ RemoveEntry(e) /\ Goto(c, Proceed(q))
         \/ ~bin[e].filed /\ UNCHANGED bin /\ Goto(c, n)
  BY <1>0, <1>00, Acting DEF DropEntry, KeepEntries, Purges
<1>2. /\ ~Trashes(q) /\ ~Restores(q) /\ spoilt \subseteq spoilt'
      /\ \A x \in Asked(q) \ spoilt : bin[x].filed
      /\ rows[e] = "gone"
  BY <1>0, <1>00, <1>1, PurgeActs
<1>3. e \in Rows /\ e \notin q.todo /\ q.todo \in SUBSET Rows
  BY <1>00, <1>1, PurgeShape
<1>4. CASE bin[e].filed /\ RemoveEntry(e) /\ Goto(c, Proceed(q))
  <2>1. call'[c] = Proceed(q) /\ OnlyBy(c)
    BY <1>4, Acting
  <2>2. \A x \in q.todo : bin'[x] = bin[x]
    BY <1>3, <1>4 DEF RemoveEntry, Going, TrashInv, TypeInv, TypeOK
  <2>3. BelowRoot(call'[c]) /\ Standing(c)'
    BY <1>0, <1>1, <2>1, <2>2, ProceedStands
  <2>4. \A r \in Claim(e) : LeftBehind(r)
    BY <1>2, <1>3, <1>4 DEF Going, TrashInv, EntriesBelow, LeftBehind
  <2> QED
    BY <1>0, <1>00, <1>1, <1>2, <1>3, <1>4, <2>1, <2>3, <2>4, RemovalHolds
<1>5. CASE UNCHANGED bin /\ Goto(c, n)
  <2>1. n.step = "defer" /\ n.root = q.root /\ n.todo = q.todo
    BY <1>1 DEF Request
  <2>2. call'[c] = n /\ OnlyBy(c)
    BY <1>5, Acting
  <2> HIDE DEF n
  <2>3. ~Trashes(n) /\ ~Restores(n) /\ Asked(n) = Asked(q)
    BY <2>1 DEF Trashes, Restores, Asked
  <2>4. BelowRoot(call'[c]) /\ Standing(c)'
    BY <1>2, <1>5, <2>1, <2>2, <2>3, PurgeStands
  <2> QED
    BY <1>0, <1>1, <1>2, <1>5, <2>2, <2>4, QuietStep
<1> QED
  BY <1>1, <1>4, <1>5

\* An entry put off is filed as it was.
LEMMA DeferHolds ==
  ASSUME Going, NEW c \in Processes, Defer(c)
  PROVE  TrashInv'
<1>0. PICK q : q = call[c]
  OBVIOUS
<1>1. /\ q \in Request /\ ShapeOf(q) /\ UNCHANGED <<rows, bin>> /\ Purges(q)
      /\ Goto(c, Proceed(q)) \/ Goto(c, Idle)
  BY <1>0, Acting DEF Defer, Purges
<1>2. ~Trashes(q) /\ ~Restores(q)
  BY <1>0, <1>1, PurgeActs
<1>3. OnlyBy(c) /\ (call'[c] = Proceed(q) \/ call'[c] = Idle)
  BY <1>1, Acting
<1>4. BelowRoot(call'[c]) /\ Standing(c)'
  BY <1>0, <1>1, <1>3, IdleStands, ProceedStands
<1> QED
  BY <1>0, <1>1, <1>2, <1>3, <1>4, QuietStep

-----------------------------------------------------------------------------
(* Failures, and what happens outside the requests *)

\* What a request had in hand when it failed is spoilt.
LEMMA FailHolds ==
  ASSUME Going, NEW c \in Processes, Fail(c), InHand(call[c]) \subseteq spoilt'
  PROVE  TrashInv'
<1>1. Goto(c, Idle) /\ UNCHANGED <<rows, bin>>
  BY DEF Fail, KeepEntries
<1>2. call'[c] = Idle /\ OnlyBy(c)
  BY <1>1, Acting
<1>3. BelowRoot(call'[c]) /\ Standing(c)'
  BY <1>2, IdleStands
<1> QED
  BY <1>1, <1>2, <1>3, QuietStep

\* A deadline passes, or a row that nobody has in hand is inserted.
LEMMA ElsewhereHolds ==
  ASSUME Going, NEW r \in Rows, ComesDue(r) \/ Insert(r)
  PROVE  TrashInv'
<1>1. UNCHANGED <<call, bin>>
  BY DEF ComesDue, Insert, KeepEntries
<1>2. \A x \in Rows : rows'[x] # rows[x] => rows[x] = "unborn" /\ rows'[x] = "live"
  BY DEF ComesDue, Insert, Going, TrashInv, TypeInv, TypeOK
<1>3. Sweeper \in Processes /\ OnlyBy(Sweeper)
  BY <1>1 DEF Processes, OnlyBy
<1>4. Within({}) /\ Within(InHand(call[Sweeper]))
  BY <1>1, <1>2 DEF Within
<1>5. ASSUME NEW d \in Processes PROVE Standing(d)' /\ call'[d] = call[d]
  BY <1>1, <1>4, OthersStand
<1>6. BelowRoot(call'[Sweeper])
  BY <1>3, <1>5, Acting
<1>7. EntriesBelow' /\ ClaimsHold' /\ ClaimedOnce'
  BY <1>1, <1>2, <1>3, ClaimsKept
<1>8. Accounted'
  BY <1>1, <1>2, <1>3, AccountsKept
<1> QED
  BY <1>3, <1>4, <1>5, <1>6, <1>7, <1>8, InvariantGoesOn

-----------------------------------------------------------------------------
(* The invariant *)

\* Every step of a request keeps the invariant,
LEMMA WorkHolds ==
  ASSUME Going, NEW c \in Processes, Work(c)
  PROVE  TrashInv'
BY WalkHolds, EndWalkHolds, ReadGroupHolds, StampGroupHolds, FileEntryHolds,
   ClearGroupHolds, EndRestoreHolds, NextEntryHolds, DestroyHolds, DropEntryHolds, DeferHolds
   DEF Work, Trashing, Restoring, Purging

\* and so does every step.
LEMMA TrashStep == TrashInv /\ [Next]_vars => TrashInv'
<1> SUFFICES ASSUME TrashInv, [Next]_vars PROVE TrashInv'
  OBVIOUS
<1>1. CASE Next
  <2>1. Step /\ Observe /\ TypeInv /\ Typed /\ Observed /\ spoilt \subseteq Rows
    BY <1>1, TypesRestated DEF Next, TrashInv
  <2>2. TypeInv'
    BY <2>1, <1>1, TypeStep
  <2>3. PICK c \in Processes : OnlyBy(c) /\ (fails' # fails => call'[c] = Idle)
    BY <2>1, StepTyped
  <2>4. Typed' /\ RowsGoOn
    BY <2>1, StepTyped
  <2>5. spoilt \subseteq spoilt' /\ spoilt' \subseteq Rows
    BY <2>1, <2>3, <2>4, MeetingsNoted
  <2>6. Going
    BY <2>2, <2>4, <2>5 DEF Going
  <2>7. ASSUME NEW d \in Callers, NEW r \in Rows,
               BeginTrash(d, r) \/ BeginRestore(d, r) \/ PurgeNow(d, r)
        PROVE  TrashInv'
    BY <2>6, <2>7, BeginTrashHolds, BeginRestoreHolds, PurgeNowHolds
  <2>8. CASE PurgeExpired
    BY <2>6, <2>8, PurgeExpiredHolds
  <2>9. ASSUME NEW d \in Processes, Work(d) PROVE TrashInv'
    BY <2>6, <2>9, WorkHolds
  <2>10. ASSUME NEW d \in Processes, Fail(d) PROVE TrashInv'
    <3>1. /\ OnlyBy(d) /\ call'[d] = Idle /\ call[d] # Idle /\ fails' # fails
      BY <2>1, <2>10, FailTyped DEF Fail, Typed, Tables
    <3>2. InHand(call[d]) \subseteq spoilt'
      BY <2>1, <2>4, <3>1, MeetingsNoted
    <3> QED
      BY <2>6, <2>10, <3>2, FailHolds
  <2>11. ASSUME NEW r \in Rows, ComesDue(r) \/ Insert(r) PROVE TrashInv'
    BY <2>6, <2>11, ElsewhereHolds
  <2> QED
    BY <2>1, <2>7, <2>8, <2>9, <2>10, <2>11 DEF Step
<1>2. CASE UNCHANGED vars
  <2>1. TypeInv'
    BY <1>2, TypeStep DEF TrashInv
  <2>2. Going
    BY <1>2, <2>1, TypesRestated DEF vars, TrashInv, Going, RowsGoOn
  <2>3. Sweeper \in Processes /\ OnlyBy(Sweeper) /\ UNCHANGED <<rows, bin>>
    BY <1>2 DEF Processes, OnlyBy, vars
  <2>4. BelowRoot(call'[Sweeper]) /\ Standing(Sweeper)'
    <3>1. Within({}) /\ call'[Sweeper] = call[Sweeper]
      BY <1>2 DEF Within, vars
    <3> QED
      BY <2>2, <2>3, <3>1, OthersStand, Acting
  <2> QED
    BY <1>2, <2>2, <2>3, <2>4, QuietStep DEF vars
<1> QED
  BY <1>1, <1>2

\* Nothing is deleted and nothing filed at the start.
LEMMA InitHolds == Init => TrashInv
<1> SUFFICES ASSUME Init PROVE TrashInv
  OBVIOUS
<1>1. TypeInv
  BY InitTyped, TypesRestated
<1>2. \A e \in Rows : ~bin[e].filed
  BY DEF Init, NoEntry
<1>3. \A c \in Processes : call[c] = Idle
  BY DEF Init
<1>4. \A r \in Rows : rows[r] # "deleted"
  BY DEF Init
<1>5. EntriesBelow /\ ClaimsHold /\ ClaimedOnce
  BY <1>2 DEF EntriesBelow, ClaimsHold, ClaimedOnce
<1>6. Accounted
  BY <1>4 DEF Accounted
<1>7. HandsBelow /\ \A c \in Processes : Standing(c)
  BY <1>3, IdleHolds DEF HandsBelow, BelowRoot, Standing, Deleting, Bringing, Clearing
<1> QED
  BY <1>1, <1>5, <1>6, <1>7 DEF TrashInv

(***************************************************************************)
(* Entries, deleted rows and the requests in hand fit together: what an    *)
(* entry claims is deleted or being brought back, no row is claimed twice, *)
(* every deleted row is accounted for, and each delete, restore and purge  *)
(* finds what it relies on, but for rows an accident has befallen.         *)
(***************************************************************************)
THEOREM TrashInvariant == Spec => []TrashInv
BY InitHolds, TrashStep, PTL DEF Spec

(***************************************************************************)
(* The rows, the entries and what the requests have read keep the types of *)
(* their columns; only an entry that is filed is due.                      *)
(***************************************************************************)
THEOREM TrashTypeCorrect == Spec => []TypeOK
BY TypesHold, PTL DEF TypeInv

(***************************************************************************)
(* A deleted row can be brought back, is being dealt with, or was left     *)
(* behind by a purge, unless an accident has befallen it.                  *)
(***************************************************************************)
THEOREM DeletedComesBack == Spec => []DeletedHasWayBack
<1>1. TrashInv => DeletedHasWayBack
  <2> SUFFICES ASSUME TrashInv, NEW r \in Sound, rows[r] = "deleted"
               PROVE  HasWayBack(r) \/ LeftBehind(r)
    BY DEF DeletedHasWayBack
  <2>1. r \in Rows \ spoilt
    BY DEF Sound
  <2>2. CASE \E e \in Rows : bin[e].filed /\ r \in Claim(e)
    BY <2>2 DEF HasWayBack
  <2>3. CASE \E c \in Processes : Trashes(call[c]) /\ r \in Union(call[c].changed)
    <3>1. PICK c \in Processes : r \in Union(call[c].changed)
      BY <2>3
    <3>2. r \in InHand(call[c])
      BY <3>1, HandHolds DEF TrashInv, TypeInv, TypeOK
    <3> QED
      BY <3>2 DEF HasWayBack
  <2> QED
    BY <2>1, <2>2, <2>3 DEF TrashInv, Accounted
<1> QED
  BY <1>1, TrashInvariant, PTL

(***************************************************************************)
(* What an entry claims while no request is for it is deleted, and claimed *)
(* by no other entry, unless an accident has befallen it.                  *)
(***************************************************************************)
THEOREM EntriesClaimExactly == Spec => []EntriesAreExact
<1>1. TrashInv => EntriesAreExact
  <2> SUFFICES ASSUME TrashInv, NEW e \in Rows, bin[e].filed,
                      \A c \in Processes : call[c].root # e,
                      NEW r \in Claim(e) \cap Sound
               PROVE  /\ rows[r] \in {"deleted", "gone"}
                      /\ \A o \in Rows \ {e} : bin[o].filed => r \notin Claim(o)
    BY DEF EntriesAreExact
  <2>1. r \in Claim(e) \ spoilt /\ ~BroughtBack(e, r)
    BY DEF Sound, BroughtBack
  <2>2. rows[r] \in {"deleted", "gone"}
    BY <2>1 DEF TrashInv, ClaimsHold
  <2>3. \A o \in Rows \ {e} : bin[o].filed => r \notin Claim(o)
    BY <2>1 DEF TrashInv, ClaimedOnce
  <2> QED
    BY <2>2, <2>3
<1> QED
  BY <1>1, TrashInvariant, PTL

\* Rows go only by a purge.
LEMMA OnlyPurgesDestroy ==
  ASSUME Typed, Step, NEW r \in Rows, rows[r] = "live", rows'[r] = "gone"
  PROVE  \E c \in Processes : Destroy(c)
<1>1. \A c \in Processes, e \in Rows :
        /\ ~BeginTrash(c, e) /\ ~BeginRestore(c, e) /\ ~PurgeNow(c, e)
        /\ ~ComesDue(e) /\ ~Insert(e)
  <2>1. rows' # rows
    OBVIOUS
  <2>2. \A e \in Rows : ~Insert(e)
    BY DEF Insert, Typed, Tables
  <2> QED
    BY <2>1, <2>2 DEF BeginTrash, BeginRestore, PurgeNow, ComesDue
<1>2. ~PurgeExpired
  BY DEF PurgeExpired
<1>3. ASSUME NEW c \in Processes PROVE ~Fail(c) /\ ~Trashing(c) /\ ~Restoring(c)
  <2>1. ~Walk(c) /\ ~EndWalk(c) /\ ~ReadGroup(c) /\ ~FileEntry(c) /\ ~Fail(c) /\ ~EndRestore(c)
    BY DEF Walk, EndWalk, ReadGroup, FileEntry, Fail, EndRestore
  <2>2. ~StampGroup(c)
    <3>1. PICK ids : ids = call[c].ids
      OBVIOUS
    <3> QED
      BY <3>1 DEF StampGroup
  <2>3. ~ClearGroup(c)
    <3>1. PICK h : h = Head(call[c].groups)
      OBVIOUS
    <3> QED
      BY <3>1 DEF ClearGroup
  <2> QED
    BY <2>1, <2>2, <2>3 DEF Trashing, Restoring
<1>4. ASSUME NEW c \in Processes, Purging(c) PROVE Destroy(c)
  BY <1>4 DEF Purging, NextEntry, DropEntry, Defer
<1>5. Callers \subseteq Processes
  BY DEF Processes
<1>6. ~ \E c \in Callers, e \in Rows : BeginTrash(c, e) \/ BeginRestore(c, e) \/ PurgeNow(c, e)
  BY <1>1, <1>5
<1>7. Sweeper \in Processes
  BY DEF Processes
<1>8. ~ \E e \in Rows : ComesDue(e) \/ Insert(e)
  BY <1>1, <1>7
<1>9. \E c \in Processes : Work(c) \/ Fail(c)
  BY <1>2, <1>6, <1>8 DEF Step
<1> QED
  BY <1>3, <1>4, <1>9 DEF Work

\* A purge that finds its row live again has met whoever brought it back.
LEMMA PurgeTakesTrash ==
  ASSUME TrashInv, TypeInv', spoilt \subseteq spoilt', NEW c \in Processes, Destroy(c),
         NEW r \in Sound', rows[r] = "live", rows'[r] = "gone"
  PROVE  \E o \in Rows : rows[o] = "deleted" /\ r \in Removed[o]
<1>0. PICK q : q = call[c]
  OBVIOUS
<1>1. PICK e : e = q.root
  OBVIOUS
<1>2. q \in Request /\ ShapeOf(q) /\ q.step = "destroy" /\ Purges(q) /\ Clearing(c)
  BY <1>0 DEF Destroy, TrashInv, TypeInv, TypeOK, Shapes, Purges, Standing
<1>3. /\ r \in Rows \ spoilt' /\ r \in Rows \ spoilt
  BY DEF Sound
<1>4. Exists(e) /\ r \in Removed[e]
  BY <1>0, <1>1, <1>3 DEF Destroy
<1>5. e \in Rows /\ e \in Asked(q) /\ e \in InHand(q) /\ Removed[e] \subseteq InHand(q)
  BY <1>1, <1>2, PurgeShape, HandHolds
<1>6. e \notin spoilt
  BY <1>0, <1>1, <1>3, <1>4, <1>5 DEF TrashInv, TypeInv, Observed
<1>7. bin[e].filed
  BY <1>0, <1>2, <1>5, <1>6 DEF Clearing
<1>8. ~BroughtBack(e, e)
  <2> SUFFICES ASSUME NEW d \in Processes, Restores(call[d]), call[d].root = e PROVE FALSE
    BY DEF BroughtBack
  <2>1. d # c
    BY <1>0, <1>2 DEF Restores
  <2>2. e \in InHand(call[d]) /\ e \in InHand(call[c])
    BY <1>0, <1>5, HandHolds DEF TrashInv, TypeInv, TypeOK
  <2> QED
    BY <2>1, <2>2, <1>6 DEF TrashInv, TypeInv, Observed
<1>9. rows[e] \in {"deleted", "gone"}
  BY <1>5, <1>6, <1>7, <1>8 DEF TrashInv, ClaimsHold, Claim
<1> QED
  BY <1>4, <1>5, <1>9 DEF Exists

(***************************************************************************)
(* A live row goes only together with a deleted one it hangs off, unless   *)
(* an accident has befallen it.                                            *)
(***************************************************************************)
THEOREM PurgesTakeOnlyTrash == Spec => DestroysOnlyTrash
<1> DEFINE Taken == \A r \in Sound' :
                      rows[r] = "live" /\ rows'[r] = "gone" =>
                        \E o \in Rows : rows[o] = "deleted" /\ r \in Removed[o]
<1>1. TrashInv /\ TrashInv' /\ [Next]_vars => [Taken]_vars
  <2> SUFFICES ASSUME TrashInv, TrashInv', Next PROVE Taken
    OBVIOUS
  <2>1. Step /\ Observe /\ Typed
    BY TypesRestated DEF Next, TrashInv
  <2>2. spoilt \subseteq spoilt'
    BY <2>1 DEF Observe
  <2> SUFFICES ASSUME NEW r \in Sound', rows[r] = "live", rows'[r] = "gone"
               PROVE  \E o \in Rows : rows[o] = "deleted" /\ r \in Removed[o]
    OBVIOUS
  <2>3. r \in Rows
    BY DEF Sound
  <2>4. PICK c \in Processes : Destroy(c)
    BY <2>1, <2>3, OnlyPurgesDestroy
  <2> QED
    BY <2>2, <2>4, PurgeTakesTrash DEF TrashInv
<1> QED
  BY <1>1, TrashInvariant, PTL DEF Spec, DestroysOnlyTrash
=============================================================================
