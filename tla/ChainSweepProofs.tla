-------------------------- MODULE ChainSweepProofs --------------------------
(***************************************************************************)
(* Proofs about the module ChainSweep: any number of sweeps that overlap,  *)
(* fail and die, over any transfers.                                       *)
(***************************************************************************)
EXTENDS ChainSweep, TLAPS

\* The overlap covers TronGrid's lag.
LagIsCovered == IndexLag <= Overlap

\* Customers have been quoted one deposit address, the one in force.
AddressStands == issued = {settings.addr}

\* What TronGrid serves for a window fits the pages the sweep fetches.
PagesHold ==
  \A w \in Workers : sweep[w].pc = "fetch" => ~(Cardinality(Window(w)) > MaxRows)

\* A sweep that starts without a cursor finds what is older than its window
\* answered for: as long as the system is younger than the window, and later if the
\* sweeps before the loss of the row had come that far.
ColdStartsReach ==
  \A w \in Workers : sweep[w].pc = "fetch" /\ sweep[w].cursor = 0 =>
    \A h \in Hashes : OnChain(h) /\ chain[h].at < Earlier(sweep[w].now, ColdWindow)
                        => h \in handled

\* What the surroundings must keep to for the sweeps to lose nothing.
WindowsReach == AddressStands /\ PagesHold /\ ColdStartsReach

-----------------------------------------------------------------------------
(* Type correctness *)

\* A sweep that starts over, or begins, has the fields of one.
LEMMA NoSweepType == NoSweep \in Sweep /\ NoSweep.pc = "idle"
BY DEF NoSweep, Sweep

\* A sweep begins with the cursor still to be read, and has seen nothing.
LEMMA BegunSweepType ==
  ASSUME NEW a \in Addresses, NEW t \in Nat
  PROVE  LET s == [NoSweep EXCEPT !.pc = "cursor", !.now = t, !.addr = a]
         IN  /\ s \in Sweep /\ s.addr = a /\ s.pc = "cursor" /\ s.now = t
             /\ s.highest = 0
BY DEF NoSweep, Sweep

\* The types hold at first,
LEMMA InitTypeOK == Init => TypeOK
<1> SUFFICES ASSUME Init PROVE TypeOK
  OBVIOUS
<1>1. settings \in Settings /\ settings.addr \in Addresses
  BY DEF Init, Settings
<1>2. NoTransfer \in Transfer
  BY DEF NoTransfer, Transfer
<1> QED
  BY <1>1, <1>2, NoSweepType DEF Init, TypeOK

\* every step of a sweep keeps them,
LEMMA SweepStepTypeOK ==
  ASSUME TypeOK, NEW w \in Workers, SweepStep(w)
  PROVE  TypeOK'
<1>1. sweep[w] \in Sweep /\ \A h \in Hashes : chain[h] \in Transfer
  BY DEF TypeOK
<1>2. settings.addr \in Addresses /\ settings.addr # None
  BY SweepAssumption DEF TypeOK, Settings
<1>3. CASE BeginSweep(w)
  <2> DEFINE s == [NoSweep EXCEPT !.pc = "cursor", !.now = clock,
                                  !.addr = settings.addr]
  <2>1. s \in Sweep /\ s.addr # None
    BY <1>2, BegunSweepType DEF TypeOK
  <2>2. sweep' = [sweep EXCEPT ![w] = s]
    BY <1>3 DEF BeginSweep
  <2> HIDE DEF s
  <2> QED
    BY <1>3, <2>1, <2>2 DEF BeginSweep, TypeOK
<1>4. CASE ReadCursor(w)
  BY <1>1, <1>4 DEF ReadCursor, TypeOK, Sweep
<1>5. CASE FetchTransfers(w)
  <2>1. PICK rows \in SUBSET Window(w) :
          sweep' = [sweep EXCEPT ![w].pc = "settle", ![w].todo = rows]
    BY <1>5 DEF FetchTransfers
  <2>2. rows \in SUBSET Hashes
    BY DEF Window
  <2> QED
    BY <1>1, <1>5, <2>1, <2>2 DEF FetchTransfers, TypeOK, Sweep
<1>6. ASSUME NEW h \in Hashes, SettleTransfer(w, h)
      PROVE  TypeOK'
  BY <1>1, <1>6 DEF SettleTransfer, TypeOK, Sweep, Transfer, Later
<1>7. CASE WriteCursor(w)
  BY <1>1, <1>7, NoSweepType DEF WriteCursor, TypeOK, Sweep
<1> QED
  BY <1>3, <1>4, <1>5, <1>6, <1>7 DEF SweepStep

\* and so does every step.
LEMMA NextTypeOK == TypeOK /\ [Next]_vars => TypeOK'
<1> SUFFICES ASSUME TypeOK, [Next]_vars PROVE TypeOK'
  OBVIOUS
<1>1. ASSUME NEW w \in Workers, SweepStep(w) PROVE TypeOK'
  BY <1>1, SweepStepTypeOK
<1>2. ASSUME NEW w \in Workers, FailSweep(w) PROVE TypeOK'
  BY <1>2, NoSweepType DEF FailSweep, TypeOK
<1>3. CASE LoseCursor
  BY <1>3 DEF LoseCursor, TypeOK
<1>4. ASSUME NEW new \in Settings, UpdateSettings(new) PROVE TypeOK'
  BY <1>4 DEF UpdateSettings, TypeOK, Settings
<1>5. ASSUME NEW h \in Hashes, ServeTransfer(h) PROVE TypeOK'
  BY <1>5 DEF ServeTransfer, TypeOK, Transfer
<1>6. ASSUME NEW h \in Hashes, NEW a \in Addresses, MakeTransfer(h, a) PROVE TypeOK'
  BY <1>6 DEF MakeTransfer, TypeOK, Transfer
<1>7. CASE Tick
  BY <1>7 DEF Tick, TypeOK
<1>8. CASE UNCHANGED vars
  BY <1>8 DEF vars, TypeOK
<1> QED
  BY <1>1, <1>2, <1>3, <1>4, <1>5, <1>6, <1>7, <1>8 DEF Next

\* Settings, chain, cursor and sweeps keep their types, and a sweep that fetches
\* knows from which address (pollUsdtTransfers returns before it otherwise).
THEOREM SweepTypeCorrect == Spec => []TypeOK
BY InitTypeOK, NextTypeOK, PTL DEF Spec

-----------------------------------------------------------------------------
(* What is answered for *)

\* The transfers that no window starting after x can reach are answered for.
AnsweredUpTo(x) ==
  \A h \in Hashes : OnChain(h) /\ chain[h].at + Overlap < x => h \in handled

\* The chain holds nothing from the future, all of it to the deposit address, and
\* what TronGrid still withholds is recent.
ChainKnown ==
  \A h \in Hashes :
    /\ OnChain(h) => /\ chain[h].to = settings.addr /\ chain[h].at <= clock
                     /\ chain[h].served \/ clock <= chain[h].at + IndexLag
    /\ chain[h].served => OnChain(h)

\* A transfer this sweep neither finds answered for nor has in hand is too recent
\* to be passed by anything the sweep may still write.
MissedIsRecent(w) ==
  \A h \in Hashes :
    OnChain(h) /\ h \notin handled /\ h \notin sweep[w].todo =>
      /\ sweep[w].highest <= chain[h].at + Overlap
      /\ sweep[w].now <= chain[h].at + IndexLag
      /\ \A o \in sweep[w].todo : chain[o].at <= chain[h].at + Overlap

\* What a sweep has read, and what it may rely on, at each point.
SweepKnows(w) ==
  /\ sweep[w].now <= clock /\ sweep[w].highest <= clock
  /\ sweep[w].pc # "idle" => sweep[w].addr = settings.addr
  /\ sweep[w].pc = "fetch" => /\ sweep[w].highest = sweep[w].cursor
                              /\ AnsweredUpTo(sweep[w].cursor)
  /\ sweep[w].pc = "settle" => /\ \A o \in sweep[w].todo : OnChain(o)
                               /\ MissedIsRecent(w)

\* The inductive invariant: a cursor written by any sweep is safe, since it is what
\* that sweep read or a timestamp behind which the sweep has missed nothing.
SweepInv ==
  /\ TypeOK
  /\ ChainKnown
  /\ cursor <= clock /\ AnsweredUpTo(cursor)
  /\ \A w \in Workers : SweepKnows(w)

\* What any step leaves true: time and answers only grow, what is on the chain
\* stays as it is, and what is new there is of this moment.
Grows ==
  /\ clock <= clock' /\ handled \subseteq handled'
  /\ settings'.addr = settings.addr
  /\ \A h \in Hashes :
       /\ OnChain(h) => /\ OnChain(h)' /\ chain'[h].to = chain[h].to
                        /\ chain'[h].at = chain[h].at
       /\ ~OnChain(h) /\ OnChain(h)' => chain'[h].at = clock

-----------------------------------------------------------------------------
(* Each step preserves the inductive invariant *)

\* Every step lets the history grow, while the address stands.
LEMMA NextGrows ==
  ASSUME TypeOK, AddressStands, AddressStands', [Next]_vars
  PROVE  Grows
<1>1. ASSUME NEW w \in Workers, SweepStep(w) \/ FailSweep(w) PROVE Grows
  <2>1. UNCHANGED <<clock, settings, chain>> /\ handled \subseteq handled'
    BY <1>1 DEF SweepStep, BeginSweep, ReadCursor, FetchTransfers, SettleTransfer,
                WriteCursor, FailSweep
  <2> QED
    BY <2>1 DEF TypeOK, Grows, OnChain
<1>2. ASSUME NEW new \in Settings, UpdateSettings(new) PROVE Grows
  <2>1. new.addr = settings.addr
    BY <1>2 DEF UpdateSettings, TypeOK, AddressStands
  <2> QED
    BY <1>2, <2>1 DEF UpdateSettings, TypeOK, Grows, OnChain
<1>3. ASSUME NEW h \in Hashes, ServeTransfer(h) PROVE Grows
  BY <1>3 DEF ServeTransfer, TypeOK, Transfer, Grows, OnChain
<1>4. ASSUME NEW h \in Hashes, NEW a \in Addresses, MakeTransfer(h, a) PROVE Grows
  BY <1>4 DEF MakeTransfer, TypeOK, Transfer, Grows, OnChain
<1>5. CASE LoseCursor \/ Tick \/ UNCHANGED vars
  BY <1>5 DEF LoseCursor, Tick, vars, TypeOK, Grows, OnChain
<1> QED
  BY <1>1, <1>2, <1>3, <1>4, <1>5 DEF Next

\* Every step keeps what the history says of the transfers on the chain.
LEMMA NextChainKnown ==
  ASSUME TypeOK, ChainKnown, AddressStands, AddressStands', [Next]_vars
  PROVE  ChainKnown'
<1> USE SweepAssumption DEF ChainKnown, OnChain
<1>1. ASSUME NEW w \in Workers, SweepStep(w) \/ FailSweep(w) PROVE ChainKnown'
  BY <1>1 DEF SweepStep, BeginSweep, ReadCursor, FetchTransfers, SettleTransfer,
              WriteCursor, FailSweep
<1>2. ASSUME NEW new \in Settings, UpdateSettings(new) PROVE ChainKnown'
  <2>1. new.addr = settings.addr
    BY <1>2 DEF UpdateSettings, TypeOK, AddressStands
  <2> QED
    BY <1>2, <2>1 DEF UpdateSettings
<1>3. ASSUME NEW h \in Hashes, ServeTransfer(h) PROVE ChainKnown'
  BY <1>3 DEF ServeTransfer, TypeOK, Transfer
<1>4. ASSUME NEW h \in Hashes, NEW a \in Addresses, MakeTransfer(h, a)
      PROVE  ChainKnown'
  <2>1. a = settings.addr
    BY <1>4 DEF MakeTransfer, AddressStands
  <2> QED
    BY <1>4, <2>1 DEF MakeTransfer, TypeOK, Transfer
<1>5. CASE Tick
  BY <1>5 DEF Tick, TypeOK, Transfer
<1>6. CASE LoseCursor \/ UNCHANGED vars
  BY <1>6 DEF LoseCursor, vars
<1> QED
  BY <1>1, <1>2, <1>3, <1>4, <1>5, <1>6 DEF Next

\* What was passed stays answered for: what is new on the chain is ahead of it.
LEMMA AnswersStay ==
  ASSUME TypeOK, Grows, NEW x \in Nat, x <= clock, AnsweredUpTo(x)
  PROVE  \A h \in Hashes :
           OnChain(h)' /\ chain'[h].at + Overlap < x => h \in handled'
BY SweepAssumption DEF TypeOK, Grows, AnsweredUpTo

\* A sweep that does nothing keeps what it knows.
LEMMA BystandersKnow ==
  ASSUME SweepInv, TypeOK', Grows, NEW w \in Workers, sweep'[w] = sweep[w]
  PROVE  SweepKnows(w)'
<1>1. /\ SweepKnows(w) /\ TypeOK /\ clock \in Nat /\ clock' \in Nat
      /\ sweep[w] \in Sweep
      /\ \A h \in Hashes : chain[h] \in Transfer /\ chain'[h] \in Transfer
  BY DEF SweepInv, TypeOK
<1>2. clock <= clock' /\ settings'.addr = settings.addr
  BY DEF Grows
<1>3. /\ sweep[w].now \in Nat /\ sweep[w].highest \in Nat /\ sweep[w].cursor \in Nat
      /\ sweep[w].todo \subseteq Hashes
  BY <1>1 DEF Sweep
<1>4. /\ sweep'[w].now <= clock' /\ sweep'[w].highest <= clock'
      /\ sweep'[w].pc # "idle" => sweep'[w].addr = settings'.addr
      /\ sweep'[w].pc = "fetch" => sweep'[w].highest = sweep'[w].cursor
  BY <1>1, <1>2, <1>3 DEF SweepKnows
<1>5. ASSUME sweep[w].pc = "settle"
      PROVE  (\A o \in sweep[w].todo : OnChain(o)') /\ MissedIsRecent(w)'
  <2>1. (\A o \in sweep[w].todo : OnChain(o)) /\ MissedIsRecent(w)
    BY <1>1, <1>5 DEF SweepKnows
  <2>2. \A o \in sweep[w].todo : OnChain(o)' /\ chain'[o].at = chain[o].at
    BY <1>3, <2>1 DEF Grows
  <2>3. \A o \in sweep[w].todo : chain[o].at <= clock
    BY <1>3, <2>1 DEF SweepInv, ChainKnown
  <2>4. ASSUME NEW h \in Hashes, OnChain(h)', h \notin handled', h \notin sweep[w].todo
        PROVE  /\ sweep[w].highest <= chain'[h].at + Overlap
               /\ sweep[w].now <= chain'[h].at + IndexLag
               /\ \A o \in sweep[w].todo : chain[o].at <= chain'[h].at + Overlap
    <3>1. CASE OnChain(h)
      BY <2>1, <2>4, <3>1 DEF Grows, MissedIsRecent
    <3>2. CASE ~OnChain(h)
      <4>1. chain'[h].at = clock
        BY <2>4, <3>2 DEF Grows
      <4> QED
        BY <1>1, <1>3, <2>3, <4>1, SweepAssumption DEF SweepKnows, Transfer
    <3> QED
      BY <3>1, <3>2
  <2> QED
    BY <2>2, <2>4 DEF MissedIsRecent
<1>6. ASSUME sweep[w].pc = "fetch"
      PROVE  AnsweredUpTo(sweep[w].cursor)'
  <2>1. AnsweredUpTo(sweep[w].cursor) /\ sweep[w].cursor <= clock
    BY <1>1, <1>6 DEF SweepKnows
  <2>2. \A h \in Hashes :
          OnChain(h)' /\ chain'[h].at + Overlap < sweep[w].cursor => h \in handled'
    BY <1>1, <1>3, <2>1, AnswersStay
  <2> QED
    BY <2>2 DEF AnsweredUpTo
<1> QED
  BY <1>4, <1>5, <1>6 DEF SweepKnows

\* What a fetch does not return is answered for, or not served yet: nothing lies
\* before the window but what the cursor has passed.
LEMMA FetchMissesOnlyRecent ==
  ASSUME SweepInv, ColdStartsReach, NEW w \in Workers, sweep[w].pc = "fetch",
         NEW h \in Hashes, OnChain(h), h \notin handled, h \notin Window(w)
  PROVE  clock <= chain[h].at + IndexLag
<1>1. /\ SweepKnows(w) /\ clock \in Nat /\ sweep[w] \in Sweep /\ chain[h] \in Transfer
  BY DEF SweepInv, TypeOK
<1>2. /\ sweep[w].now \in Nat /\ sweep[w].cursor \in Nat /\ chain[h].at \in Nat
  BY <1>1 DEF Sweep, Transfer
<1>3. chain[h].to = sweep[w].addr
  BY <1>1 DEF SweepKnows, SweepInv, ChainKnown
<1>4. CASE ~(chain[h].at >= Since(w))
  <2>1. CASE sweep[w].cursor > 0
    <3>1. chain[h].at + Overlap < sweep[w].cursor
      BY <1>2, <1>4, <2>1, SweepAssumption DEF Since, Earlier
    <3> QED
      BY <1>1, <3>1 DEF SweepKnows, AnsweredUpTo
  <2>2. CASE ~(sweep[w].cursor > 0)
    <3>1. sweep[w].cursor = 0 /\ chain[h].at < Earlier(sweep[w].now, ColdWindow)
      BY <1>2, <1>4, <2>2, SweepAssumption DEF Since, Earlier
    <3> QED
      BY <3>1 DEF ColdStartsReach
  <2> QED
    BY <2>1, <2>2
<1>5. CASE ~chain[h].served
  BY <1>5 DEF SweepInv, ChainKnown
<1> QED
  BY <1>3, <1>4, <1>5 DEF Window

\* What a fetch misses is answered for, or too recent to be served.
LEMMA FetchKnows ==
  ASSUME SweepInv, LagIsCovered, PagesHold, ColdStartsReach, NEW w \in Workers,
         FetchTransfers(w)
  PROVE  SweepKnows(w)'
<1> DEFINE rows == Window(w)
<1>1. /\ SweepKnows(w) /\ clock \in Nat /\ sweep[w] \in Sweep
      /\ \A h \in Hashes : chain[h] \in Transfer
  BY DEF SweepInv, TypeOK
<1>2. /\ sweep[w].pc = "fetch"
      /\ UNCHANGED <<clock, settings, chain, handled>>
      /\ sweep' = [sweep EXCEPT ![w].pc = "settle", ![w].todo = rows]
  BY DEF FetchTransfers, PagesHold
<1>3. /\ sweep'[w].pc = "settle" /\ sweep'[w].todo = rows
      /\ sweep'[w].now = sweep[w].now /\ sweep'[w].highest = sweep[w].highest
      /\ sweep'[w].addr = sweep[w].addr
  BY <1>1, <1>2 DEF SweepInv, TypeOK, Sweep
<1>4. \A o \in rows : o \in Hashes /\ OnChain(o) /\ chain[o].at <= clock
  BY DEF Window, SweepInv, ChainKnown
<1>5. /\ sweep[w].now \in Nat /\ sweep[w].highest \in Nat
      /\ sweep[w].now <= clock /\ sweep[w].highest <= clock
      /\ sweep[w].addr = settings.addr
  BY <1>1, <1>2 DEF Sweep, SweepKnows
<1>6. ASSUME NEW h \in Hashes, OnChain(h), h \notin handled, h \notin rows
      PROVE  /\ sweep[w].highest <= chain[h].at + Overlap
             /\ sweep[w].now <= chain[h].at + IndexLag
             /\ \A o \in rows : chain[o].at <= chain[h].at + Overlap
  <2>1. clock <= chain[h].at + IndexLag
    BY <1>2, <1>6, FetchMissesOnlyRecent
  <2>2. chain[h].at \in Nat /\ \A o \in rows : chain[o].at \in Nat
    BY <1>1, <1>4 DEF Transfer
  <2> QED
    BY <1>1, <1>4, <1>5, <2>1, <2>2, SweepAssumption DEF LagIsCovered
<1>7. MissedIsRecent(w)'
  BY <1>2, <1>3, <1>6 DEF MissedIsRecent, OnChain
<1> QED
  BY <1>2, <1>3, <1>4, <1>5, <1>7 DEF SweepKnows, OnChain

\* A transfer settled is answered for, and the others stay in hand.
LEMMA SettleKnows ==
  ASSUME SweepInv, NEW w \in Workers, NEW h \in Hashes, SettleTransfer(w, h)
  PROVE  SweepKnows(w)'
<1>1. /\ SweepKnows(w) /\ clock \in Nat /\ sweep[w] \in Sweep
      /\ \A o \in Hashes : chain[o] \in Transfer
  BY DEF SweepInv, TypeOK
<1>2. /\ sweep[w].pc = "settle" /\ h \in sweep[w].todo
      /\ UNCHANGED <<clock, settings, chain>> /\ handled' = handled \cup {h}
  BY DEF SettleTransfer
<1>3. /\ sweep'[w].pc = "settle" /\ sweep'[w].todo = sweep[w].todo \ {h}
      /\ sweep'[w].highest = Later(sweep[w].highest, chain[h].at)
      /\ sweep'[w].now = sweep[w].now /\ sweep'[w].addr = sweep[w].addr
  BY <1>1, <1>2 DEF SettleTransfer, SweepInv, TypeOK, Sweep
<1>4. chain[h].at <= clock /\ chain[h].at \in Nat /\ sweep[w].highest \in Nat
  BY <1>1, <1>2 DEF SweepKnows, SweepInv, ChainKnown, Transfer, Sweep
<1>5. MissedIsRecent(w)'
  BY <1>1, <1>2, <1>3, <1>4 DEF SweepKnows, MissedIsRecent, OnChain, Later
<1> QED
  BY <1>1, <1>2, <1>3, <1>4, <1>5 DEF SweepKnows, OnChain, Later

\* Every step of a sweep keeps what it knows.
LEMMA SweepStepKnows ==
  ASSUME SweepInv, LagIsCovered, WindowsReach, NEW w \in Workers,
         SweepStep(w) \/ FailSweep(w)
  PROVE  SweepKnows(w)'
<1>1. clock \in Nat /\ settings.addr \in Addresses /\ w \in DOMAIN sweep
  BY DEF SweepInv, TypeOK, Settings
<1>2. CASE BeginSweep(w)
  <2> DEFINE s == [NoSweep EXCEPT !.pc = "cursor", !.now = clock,
                                  !.addr = settings.addr]
  <2>1. /\ s.addr = settings.addr /\ s.pc = "cursor" /\ s.now = clock
        /\ s.highest = 0
    BY <1>1, BegunSweepType
  <2>2. sweep'[w] = s /\ UNCHANGED <<clock, settings>>
    BY <1>1, <1>2 DEF BeginSweep
  <2> HIDE DEF s
  <2> QED
    BY <1>1, <2>1, <2>2 DEF SweepKnows
<1>3. CASE ReadCursor(w)
  <2>1. sweep[w] \in Sweep /\ SweepKnows(w)
    BY DEF SweepInv, TypeOK
  <2>2. UNCHANGED <<clock, settings, chain, handled>>
    BY <1>3 DEF ReadCursor
  <2>3. /\ sweep'[w].pc = "fetch" /\ sweep'[w].cursor = cursor
        /\ sweep'[w].highest = cursor /\ sweep'[w].now = sweep[w].now
        /\ sweep'[w].addr = sweep[w].addr /\ sweep[w].pc = "cursor"
    BY <1>1, <1>3, <2>1 DEF ReadCursor, Sweep
  <2> QED
    BY <2>1, <2>2, <2>3 DEF SweepInv, SweepKnows, AnsweredUpTo, OnChain
<1>4. CASE FetchTransfers(w)
  BY <1>4, FetchKnows DEF WindowsReach
<1>5. ASSUME NEW h \in Hashes, SettleTransfer(w, h) PROVE SweepKnows(w)'
  BY <1>5, SettleKnows
<1>6. CASE WriteCursor(w) \/ FailSweep(w)
  <2>1. sweep'[w] = NoSweep /\ clock' = clock
    BY <1>1, <1>6 DEF WriteCursor, FailSweep
  <2> QED
    BY <1>1, <2>1 DEF SweepKnows, NoSweep
<1> QED
  BY <1>2, <1>3, <1>4, <1>5, <1>6 DEF SweepStep

\* The cursor ends on what it was, what a sweep has established, or nothing.
LEMMA CursorStaysSafe ==
  ASSUME SweepInv, TypeOK', Grows, [Next]_vars
  PROVE  cursor' <= clock' /\ AnsweredUpTo(cursor)'
<1>1. /\ TypeOK /\ clock \in Nat /\ clock' \in Nat /\ cursor \in Nat /\ cursor' \in Nat
      /\ clock <= clock' /\ \A h \in Hashes : chain'[h] \in Transfer
  BY DEF SweepInv, TypeOK, Grows
<1>2. \A h \in Hashes :
        OnChain(h)' /\ chain'[h].at + Overlap < cursor => h \in handled'
  BY <1>1, AnswersStay DEF SweepInv
<1>3. CASE cursor' = cursor
  BY <1>1, <1>2, <1>3 DEF SweepInv, AnsweredUpTo
<1>4. CASE cursor' = 0
  BY <1>1, <1>4, SweepAssumption DEF AnsweredUpTo, Transfer
<1>5. ASSUME NEW w \in Workers, WriteCursor(w), cursor' # cursor
      PROVE  cursor' <= clock' /\ AnsweredUpTo(cursor)'
  <2>1. /\ cursor' = sweep[w].highest /\ sweep[w].pc = "settle" /\ sweep[w].todo = {}
        /\ UNCHANGED <<clock, chain, handled>>
    BY <1>5 DEF WriteCursor
  <2>2. SweepKnows(w) /\ sweep[w].highest \in Nat
    BY <1>1 DEF SweepInv, TypeOK, Sweep
  <2>3. \A h \in Hashes :
          OnChain(h) /\ h \notin handled => sweep[w].highest <= chain[h].at + Overlap
    BY <2>1, <2>2 DEF SweepKnows, MissedIsRecent
  <2>4. \A h \in Hashes : OnChain(h)' <=> OnChain(h)
    BY <2>1 DEF OnChain
  <2>5. \A h \in Hashes : chain'[h].at \in Nat
    BY <1>1 DEF Transfer
  <2>6. ASSUME NEW h \in Hashes, OnChain(h)', chain'[h].at + Overlap < cursor'
        PROVE  h \in handled'
    BY <2>1, <2>2, <2>3, <2>4, <2>5, <2>6, SweepAssumption
  <2> QED
    BY <2>1, <2>2, <2>6 DEF SweepKnows, AnsweredUpTo
<1>6. \/ cursor' = cursor \/ cursor' = 0
      \/ \E w \in Workers : WriteCursor(w) /\ cursor' # cursor
  BY DEF Next, vars, SweepStep, BeginSweep, ReadCursor, FetchTransfers,
         SettleTransfer, FailSweep, LoseCursor, UpdateSettings, ServeTransfer,
         MakeTransfer, Tick
<1> QED
  BY <1>3, <1>4, <1>5, <1>6

\* No sweep is under way at first.
LEMMA InitSweepInv == Init => SweepInv
<1> SUFFICES ASSUME Init PROVE SweepInv
  OBVIOUS
<1>1. TypeOK
  BY InitTypeOK
<1>2. \A h \in Hashes : ~OnChain(h) /\ ~chain[h].served
  BY DEF Init, NoTransfer, OnChain
<1>3. \A w \in Workers : SweepKnows(w)
  BY DEF Init, NoSweep, SweepKnows
<1> QED
  BY <1>1, <1>2, <1>3, SweepAssumption DEF Init, SweepInv, ChainKnown, AnsweredUpTo

\* Only the worker that takes a step moves.
LEMMA NextSweepInv ==
  ASSUME SweepInv, LagIsCovered, WindowsReach, AddressStands', [Next]_vars
  PROVE  SweepInv'
<1>1. TypeOK' /\ ChainKnown' /\ Grows
  BY NextTypeOK, NextChainKnown, NextGrows DEF SweepInv, WindowsReach
<1>2. cursor' <= clock' /\ AnsweredUpTo(cursor)'
  BY <1>1, CursorStaysSafe
<1>3. ASSUME NEW w \in Workers PROVE SweepKnows(w)'
  <2>1. CASE sweep'[w] = sweep[w]
    BY <1>1, <2>1, BystandersKnow
  <2>2. CASE SweepStep(w) \/ FailSweep(w)
    BY <2>2, SweepStepKnows
  <2>3. ASSUME NEW v \in Workers \ {w}, SweepStep(v) \/ FailSweep(v)
        PROVE  sweep'[w] = sweep[w]
    BY <2>3 DEF SweepInv, TypeOK, SweepStep, BeginSweep, ReadCursor, FetchTransfers,
                SettleTransfer, WriteCursor, FailSweep
  <2>4. \/ UNCHANGED sweep
        \/ \E v \in Workers : SweepStep(v) \/ FailSweep(v)
    BY DEF Next, vars, LoseCursor, UpdateSettings, ServeTransfer, MakeTransfer, Tick
  <2> QED
    BY <2>1, <2>2, <2>3, <2>4
<1> QED
  BY <1>1, <1>2, <1>3 DEF SweepInv

-----------------------------------------------------------------------------
(* What follows *)

\* What the sweeps know holds throughout, while the windows reach.
LEMMA SweepInvHolds ==
  ASSUME LagIsCovered
  PROVE  Spec /\ []WindowsReach => []SweepInv
<1>1. SweepInv /\ WindowsReach /\ WindowsReach' /\ [Next]_vars => SweepInv'
  BY NextSweepInv DEF WindowsReach
<1> QED
  BY <1>1, InitSweepInv, PTL DEF Spec

\* "The cursor only advances past transfers that were actually processed"
\* (payments.processor.ts), for any number of overlapping, failing sweeps, while
\* the address stands, the pages hold and cold starts reach.
THEOREM CursorIsSafe ==
  ASSUME LagIsCovered
  PROVE  Spec /\ []WindowsReach => []CursorPassesOnlyHandled
<1>1. SweepInv => CursorPassesOnlyHandled
  BY SweepAssumption
     DEF SweepInv, TypeOK, Settings, AnsweredUpTo, CursorPassesOnlyHandled, OnChain
<1> QED
  BY <1>1, SweepInvHolds, PTL

\* A sweep that completes leaves behind it nothing that TronGrid had to be
\* serving when it began.
THEOREM CompletedSweepsCatchUp ==
  ASSUME LagIsCovered
  PROVE  Spec /\ []WindowsReach => SweepsCatchUp
<1> DEFINE CatchesUp ==
      \A w \in Workers :
        WriteCursor(w) =>
          \A h \in Hashes :
            (chain[h].to = sweep[w].addr /\ chain[h].at + IndexLag < sweep[w].now)
              => h \in handled
<1>1. SweepInv => CatchesUp
  <2> SUFFICES ASSUME SweepInv, NEW w \in Workers, WriteCursor(w), NEW h \in Hashes,
                      chain[h].to = sweep[w].addr,
                      chain[h].at + IndexLag < sweep[w].now,
                      h \notin handled
               PROVE  FALSE
    OBVIOUS
  <2>1. /\ SweepKnows(w) /\ sweep[w].pc = "settle" /\ sweep[w].todo = {}
        /\ sweep[w].addr # None /\ sweep[w] \in Sweep /\ chain[h] \in Transfer
    BY DEF SweepInv, TypeOK, WriteCursor
  <2>2. sweep[w].now <= chain[h].at + IndexLag
    BY <2>1 DEF SweepKnows, MissedIsRecent, OnChain
  <2> QED
    BY <2>1, <2>2, SweepAssumption DEF Sweep, Transfer
<1>2. SweepInv /\ [Next]_vars => [CatchesUp]_vars
  BY <1>1
<1> QED
  BY <1>2, SweepInvHolds, PTL DEF Spec, SweepsCatchUp
=============================================================================
