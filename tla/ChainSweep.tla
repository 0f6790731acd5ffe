----------------------------- MODULE ChainSweep -----------------------------
(***************************************************************************)
(* Which transfers the USDT sweep gets to see: the cursor, the overlap and *)
(* the fetch window of backend/src/jobs/processors/payments.processor.ts   *)
(* and backend/src/config/tron.ts.                                         *)
(*                                                                         *)
(* What a seen transfer does to payments is the module Payments; here the  *)
(* whole of settleTransfer is one step that answers for the transfer.      *)
(* Times are ticks of one clock, which block timestamps share.             *)
(***************************************************************************)
EXTENDS Naturals, FiniteSets

CONSTANTS
  Hashes,      \* Tron transaction hashes
  Addresses,   \* deposit addresses
  Workers,     \* concurrent runs of the sweep
  Overlap,     \* OVERLAP_MS
  ColdWindow,  \* COLD_START_WINDOW_MS
  MaxRows,     \* maxPages * pageSize
  IndexLag,    \* bound: how long TronGrid may take to serve a transfer
  MaxTime,     \* bound: the last tick
  MaxEvents,   \* bound: settings updates, sweeps that throw or die, lost cursors
  None         \* SQL null

ASSUME SweepAssumption ==
  /\ Overlap \in Nat /\ ColdWindow \in Nat /\ IndexLag \in Nat
  /\ MaxRows \in Nat \ {0}
  /\ MaxTime \in Nat /\ MaxEvents \in Nat
  /\ None \notin Addresses \cup Hashes

VARIABLES
  clock,     \* now; block timestamps are read off the same clock
  settings,  \* PaymentSettings: the deposit address, and whether the sweep verifies
  issued,    \* the addresses customers have been quoted
  changes,   \* settings updates made so far
  chain,     \* transfers on the chain
  cursor,    \* ChainSyncCursor.lastBlockTimestamp, 0 while there is no row
  sweep,     \* state of each run of pollUsdtTransfers
  failures,  \* sweeps that have failed so far
  losses,    \* times the cursor row has been lost
  handled    \* transfers settleTransfer has answered for

vars == <<clock, settings, issued, changes, chain, cursor, sweep, failures, losses,
          handled>>

Settings == [addr : Addresses, autoVerify : BOOLEAN]

\* A transfer; `None` in `to` while it has not been made.
Transfer == [to : Addresses \cup {None}, at : Nat, served : BOOLEAN]
NoTransfer == [to |-> None, at |-> 0, served |-> FALSE]

Sweep ==
  [pc : {"idle", "cursor", "fetch", "settle"}, now : Nat,
   addr : Addresses \cup {None}, cursor : Nat, todo : SUBSET Hashes, highest : Nat]

NoSweep ==
  [pc |-> "idle", now |-> 0, addr |-> None, cursor |-> 0, todo |-> {}, highest |-> 0]

OnChain(h) == chain[h].to # None

Later(x, y) == IF x > y THEN x ELSE y

Earlier(x, d) == IF x > d THEN x - d ELSE 0

-----------------------------------------------------------------------------
(* pollUsdtTransfers *)

\* The settings are read first; the sweep idles unless it may verify.
BeginSweep(w) ==
  /\ sweep[w].pc = "idle"
  /\ settings.autoVerify
  /\ sweep' = [sweep EXCEPT ![w] = [NoSweep EXCEPT !.pc = "cursor", !.now = clock,
                                                   !.addr = settings.addr]]
  /\ UNCHANGED <<clock, settings, issued, changes, chain, cursor, failures,
                 losses, handled>>

\* readCursor.
ReadCursor(w) ==
  /\ sweep[w].pc = "cursor"
  /\ sweep' = [sweep EXCEPT ![w].pc = "fetch", ![w].cursor = cursor,
                            ![w].highest = cursor]
  /\ UNCHANGED <<clock, settings, issued, changes, chain, cursor, failures,
                 losses, handled>>

\* Mutant: nothing before the cursor is read again.
SinceCursor(w) ==
  IF sweep[w].cursor > 0 THEN sweep[w].cursor ELSE Earlier(sweep[w].now, ColdWindow)

\* Mutant: a cold start reads from now on.
SinceNow(w) ==
  IF sweep[w].cursor > 0 THEN Earlier(sweep[w].cursor, Overlap) ELSE sweep[w].now

\* Where the window starts.
Since(w) ==
  IF sweep[w].cursor > 0 THEN Earlier(sweep[w].cursor, Overlap)
                         ELSE Earlier(sweep[w].now, ColdWindow)

\* The transfers TronGrid serves for the window.
Window(w) ==
  {h \in Hashes : /\ chain[h].served /\ chain[h].to = sweep[w].addr
                  /\ chain[h].at >= Since(w)}

\* fetchUsdtTransfers: the newest rows of the window, as many as the pages hold.
FetchTransfers(w) ==
  /\ sweep[w].pc = "fetch"
  /\ \E rows \in SUBSET Window(w) :
       /\ \/ rows = Window(w) /\ Cardinality(rows) <= MaxRows
          \/ Cardinality(Window(w)) > MaxRows /\ Cardinality(rows) = MaxRows
       /\ \A h \in rows, o \in Window(w) \ rows : chain[o].at <= chain[h].at
       /\ sweep' = [sweep EXCEPT ![w].pc = "settle", ![w].todo = rows]
  /\ UNCHANGED <<clock, settings, issued, changes, chain, cursor, failures,
                 losses, handled>>

\* settleTransfer, oldest first.
SettleTransfer(w, h) ==
  /\ sweep[w].pc = "settle"
  /\ h \in sweep[w].todo
  /\ \A o \in sweep[w].todo : chain[h].at <= chain[o].at
  /\ handled' = handled \cup {h}
  /\ sweep' = [sweep EXCEPT ![w].todo = @ \ {h},
                            ![w].highest = Later(@, chain[h].at)]
  /\ UNCHANGED <<clock, settings, issued, changes, chain, cursor, failures,
                 losses>>

\* writeCursor: an upsert of what this sweep saw, if that is past what it read.
\* What the sweep does after it concerns payments only.
WriteCursor(w) ==
  /\ sweep[w].pc = "settle" /\ sweep[w].todo = {}
  /\ cursor' = IF sweep[w].highest > sweep[w].cursor THEN sweep[w].highest ELSE cursor
  /\ sweep' = [sweep EXCEPT ![w] = NoSweep]
  /\ UNCHANGED <<clock, settings, issued, changes, chain, failures, losses,
                 handled>>

\* TronGrid answers with an error, a handler throws or the process dies: the job
\* fails where it is and the next run starts over.
FailSweep(w) ==
  /\ sweep[w].pc # "idle"
  /\ changes + failures + losses < MaxEvents
  /\ failures' = failures + 1
  /\ sweep' = [sweep EXCEPT ![w] = NoSweep]
  /\ UNCHANGED <<clock, settings, issued, changes, chain, cursor, losses,
                 handled>>

\* The cursor row is lost with what was in it (an accident; external).
LoseCursor ==
  /\ cursor > 0
  /\ changes + failures + losses < MaxEvents
  /\ losses' = losses + 1
  /\ cursor' = 0
  /\ UNCHANGED <<clock, settings, issued, changes, chain, sweep, failures,
                 handled>>

-----------------------------------------------------------------------------
(* Settings and the chain *)

\* updateSettings: the next sweep reads it; customers are quoted the new address.
UpdateSettings(new) ==
  /\ changes + failures + losses < MaxEvents
  /\ new # settings
  /\ settings' = new
  /\ issued' = issued \cup {new.addr}
  /\ changes' = changes + 1
  /\ UNCHANGED <<clock, chain, cursor, sweep, failures, losses, handled>>

\* A customer pays to the address they were quoted (the Tron network; external).
MakeTransfer(h, a) ==
  /\ ~OnChain(h)
  /\ a \in issued
  /\ clock > 0
  /\ chain' = [chain EXCEPT ![h] = [to |-> a, at |-> clock, served |-> FALSE]]
  /\ UNCHANGED <<clock, settings, issued, changes, cursor, sweep, failures,
                 losses, handled>>

\* TronGrid has indexed the transfer (external).
ServeTransfer(h) ==
  /\ OnChain(h) /\ ~chain[h].served
  /\ chain' = [chain EXCEPT ![h].served = TRUE]
  /\ UNCHANGED <<clock, settings, issued, changes, cursor, sweep, failures,
                 losses, handled>>

\* Time passes; a transfer is served within IndexLag of its block.
Tick ==
  /\ clock < MaxTime
  /\ \A h \in Hashes : OnChain(h) /\ ~chain[h].served => clock < chain[h].at + IndexLag
  /\ clock' = clock + 1
  /\ UNCHANGED <<settings, issued, changes, chain, cursor, sweep, failures,
                 losses, handled>>

-----------------------------------------------------------------------------

Init ==
  /\ clock = 0
  /\ settings \in [addr : Addresses, autoVerify : {TRUE}]
  /\ issued = {settings.addr}
  /\ changes = 0
  /\ chain = [h \in Hashes |-> NoTransfer]
  /\ cursor = 0
  /\ sweep = [w \in Workers |-> NoSweep]
  /\ failures = 0
  /\ losses = 0
  /\ handled = {}

SweepStep(w) ==
  \/ BeginSweep(w) \/ ReadCursor(w) \/ FetchTransfers(w) \/ WriteCursor(w)
  \/ \E h \in Hashes : SettleTransfer(w, h)

Next ==
  \/ \E w \in Workers : SweepStep(w) \/ FailSweep(w)
  \/ LoseCursor
  \/ \E new \in Settings : UpdateSettings(new)
  \/ \E h \in Hashes : ServeTransfer(h) \/ \E a \in Addresses : MakeTransfer(h, a)
  \/ Tick

Spec == Init /\ [][Next]_vars

\* BullMQ starts the next sweep whatever became of the last one, TronGrid serves
\* what is on the chain, and time passes.
FairSpec ==
  /\ Spec /\ WF_vars(Tick)
  /\ \A h \in Hashes : WF_vars(ServeTransfer(h))
  /\ \A w \in Workers : WF_vars(SweepStep(w))

-----------------------------------------------------------------------------
(* What the module promises *)

\* Every variable stays in its domain, and a sweep that fetches knows where.
TypeOK ==
  /\ clock \in Nat /\ changes \in Nat /\ failures \in Nat /\ losses \in Nat
  /\ cursor \in Nat
  /\ settings \in Settings
  /\ issued \in SUBSET Addresses /\ settings.addr \in issued
  /\ chain \in [Hashes -> Transfer]
  /\ sweep \in [Workers -> Sweep]
  /\ \A w \in Workers : sweep[w].pc # "idle" => sweep[w].addr # None
  /\ handled \in SUBSET Hashes

\* "The cursor only advances past transfers that were actually processed": a
\* transfer to the address in force that no later window reaches has been
\* answered for, whatever sweeps overlap, fail or die on the way.
CursorPassesOnlyHandled ==
  \A h \in Hashes :
    chain[h].to = settings.addr /\ chain[h].at + Overlap < cursor => h \in handled

\* A sweep that completes has caught up: what TronGrid was bound to be serving
\* when it began is answered for, by this sweep or an earlier one.
SweepsCatchUp ==
  [][\A w \in Workers :
       WriteCursor(w) =>
         \A h \in Hashes :
           (chain[h].to = sweep[w].addr /\ chain[h].at + IndexLag < sweep[w].now)
             => h \in handled]_vars

\* A lost sweep costs nothing: while the switch stays on, every transfer that
\* reaches the chain is answered for in the end.
EveryTransferAnswered ==
  []<>settings.autoVerify =>
    \A h \in Hashes : OnChain(h) ~> h \in handled
=============================================================================
