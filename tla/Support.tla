------------------------------- MODULE Support -------------------------------
(***************************************************************************)
(* Help threads and who answers them:                                      *)
(* backend/src/modules/support, modules/guest, modules/admin/support and   *)
(* the support queue of jobs/queues.ts.                                    *)
(*                                                                         *)
(* A customer or a visitor of the website opens a thread and writes into   *)
(* it; each message arms one delayed job, which tells them their message   *)
(* was seen unless somebody has answered by then, and looks for an owner   *)
(* if the thread has none.  One action is one round trip of one caller.    *)
(* Internal notes change neither; read markers, previews, attachments and  *)
(* what is announced over sockets are left out.                            *)
(***************************************************************************)
EXTENDS Naturals, FiniteSets

CONSTANTS
  Agents,       \* accounts of staff
  Rotation,     \* those with the auth role staff and the permission support
  Supervisors,  \* those who hold support.all and support.assign
  Threads,      \* Conversation rows of kind SUPPORT
  Guests,       \* the threads opened from the website
  Callers,      \* requests
  None,
  Same,         \* a field an update leaves out
  Updates,      \* what staff may ask for: a new owner and a new status
  Leavers,      \* the accounts that are deactivated, restored or deleted
  MaxMessages,  \* how many messages are written
  MaxAttempts,  \* attempts of a job
  MaxFaults     \* how often Redis, a job or a process fails

ConversationStatus == {"OPEN", "PENDING", "RESOLVED"}

ASSUME SupportAssumption ==
  /\ Rotation \subseteq Agents
  /\ Supervisors \subseteq Agents
  /\ Leavers \subseteq Agents
  /\ Guests \subseteq Threads
  /\ None \notin Agents /\ Same \notin Agents /\ Same # None
  /\ Updates \subseteq (Agents \cup {None, Same}) \X (ConversationStatus \cup {Same})
  /\ MaxMessages \in Nat
  /\ MaxAttempts \in Nat \ {0}
  /\ MaxFaults \in Nat

VARIABLES
  agent,     \* StaffProfile.status of each account
  thread,    \* Conversation, with the newest message the customer can see
  quiet,     \* guest threads past their retention window
  job,       \* the handoff job of each thread
  call,      \* what each request has read
  sent,      \* messages begun; each gets its sentAt from it
  faults,    \* what has failed so far
  told,      \* history: threads whose customer was told about the newest message
  mishaps,   \* history: threads whose handoff a fault or a running job has cost
  excused    \* history: threads that were left without an owner for a reason

vars == <<agent, thread, quiet, job, call, sent, faults, told, mishaps, excused>>

-----------------------------------------------------------------------------
\* "off" is deactivated, with a "gone" agent the account itself is deleted.
AgentState == {"active", "off", "gone"}

\* Rows not inserted yet, there, or deleted; at is the sentAt of the newest message.
Conversation ==
  [row : {"none", "live", "gone"}, owner : Agents \cup {None},
   status : ConversationStatus, newest : {"CUSTOMER", "AGENT"}, at : 0 .. MaxMessages]

NoThread ==
  [row |-> "none", owner |-> None, status |-> "OPEN", newest |-> "CUSTOMER", at |-> 0]

\* decided: what the running job has read.
Job ==
  [state : {"none", "delayed", "active"}, decided : {"no", "waiting", "answered"},
   tries : 0 .. MaxAttempts]

NoJob == [state |-> "none", decided |-> "no", tries |-> 0]

Steps ==
  {"idle", "send", "arm", "owner", "pick", "insert", "route", "reply", "check",
   "write"}

Call ==
  [step : Steps, thread : Threads \cup {None}, new : BOOLEAN, at : 0 .. MaxMessages,
   owner : Agents \cup {None}, pick : Agents \cup {None, Same},
   status : ConversationStatus \cup {Same}]

Idle ==
  [step |-> "idle", thread |-> None, new |-> FALSE, at |-> 0, owner |-> None,
   pick |-> None, status |-> Same]

Goto(c, q) == call' = [call EXCEPT ![c] = q]
Live(t) == thread[t].row = "live"

\* The newest message by sentAt, whichever was committed last.
Newest(t, by, at) ==
  IF at > thread[t].at THEN [thread[t] EXCEPT !.newest = by, !.at = at] ELSE thread[t]

NextMessage == sent < MaxMessages /\ sent' = sent + 1

-----------------------------------------------------------------------------
(* The customer's or the visitor's message *)

\* createConversation, startChat: the owner is chosen first.
BeginChat(c, t) ==
  /\ call[c] = Idle
  /\ thread[t].row = "none" /\ \A d \in Callers : call[d].thread # t
  /\ NextMessage
  /\ Goto(c, [Idle EXCEPT !.step = "pick", !.thread = t, !.new = TRUE, !.at = sent + 1])
  /\ UNCHANGED <<agent, thread, quiet, job, faults, told, mishaps, excused>>

\* sendMessage reads the owner; a visitor's message does not, but needs its window.
BeginMessage(c, t) ==
  /\ call[c] = Idle
  /\ Live(t) /\ t \notin quiet
  /\ NextMessage
  /\ LET owner == IF t \in Guests THEN None ELSE thread[t].owner
     IN  /\ Goto(c, [Idle EXCEPT !.step = "send", !.thread = t, !.at = sent + 1,
                                 !.owner = owner])
         /\ excused' = IF owner = None THEN excused \ {t} ELSE excused
  /\ UNCHANGED <<agent, thread, quiet, job, faults, told, mishaps>>

\* The message and the thread's row, in one transaction.
CommitMessage(c) ==
  LET q == call[c]
      t == q.thread
  IN  /\ q.step = "send"
      /\ IF Live(t)
           THEN /\ thread' = [thread EXCEPT ![t] = [Newest(t, "CUSTOMER", q.at)
                                                      EXCEPT !.status = "OPEN"]]
                /\ told' = told \ {t} /\ mishaps' = mishaps \ {t}
                /\ quiet' = quiet \ {t}
                /\ Goto(c, [q EXCEPT !.step = "arm"])
           ELSE Goto(c, Idle) /\ UNCHANGED <<thread, told, mishaps, quiet>>
      /\ UNCHANGED <<agent, job, sent, faults, excused>>

\* After the job is armed: a new thread is routed already.
AfterArm(q) ==
  IF q.new \/ q.owner # None THEN Idle ELSE [q EXCEPT !.step = "owner"]

\* enqueueSupportHandoff: an id that the queue already holds is not added again.
Arm(c) ==
  LET q == call[c]
      t == q.thread
  IN  /\ q.step = "arm"
      /\ job' = IF job[t].state = "none" THEN [job EXCEPT ![t] = [NoJob EXCEPT !.state = "delayed"]]
                                         ELSE job
      /\ mishaps' = IF job[t].state = "active" /\ job[t].decided = "answered"
                      THEN mishaps \cup {t} ELSE mishaps
      /\ Goto(c, AfterArm(q))
      /\ UNCHANGED <<agent, thread, quiet, sent, faults, told, excused>>

\* Mutant: the refusal is not caught, and the request ends there.
ArmLostThrows(c) ==
  /\ call[c].step = "arm"
  /\ faults < MaxFaults
  /\ faults' = faults + 1
  /\ mishaps' = mishaps \cup {call[c].thread}
  /\ Goto(c, Idle)
  /\ UNCHANGED <<agent, thread, quiet, job, sent, told, excused>>

\* Redis refuses: logged, and the message stands.
ArmLost(c) ==
  /\ call[c].step = "arm"
  /\ faults < MaxFaults
  /\ faults' = faults + 1
  /\ mishaps' = mishaps \cup {call[c].thread}
  /\ Goto(c, AfterArm(call[c]))
  /\ UNCHANGED <<agent, thread, quiet, job, sent, told, excused>>

-----------------------------------------------------------------------------
(* support.assignment.ts *)

\* ensureAssigned: the thread's owner, if it has one.
ReadOwner(c) ==
  LET q == call[c]
  IN  /\ q.step = "owner"
      /\ Goto(c, IF Live(q.thread) /\ thread[q.thread].owner = None
                   THEN [q EXCEPT !.step = "pick"] ELSE Idle)
      /\ UNCHANGED <<agent, thread, quiet, job, sent, faults, told, mishaps, excused>>

\* eligibleAgentIds
Eligible == {a \in Rotation : agent[a] = "active"}

OpenThreads(a) ==
  Cardinality({t \in Threads : Live(t) /\ thread[t].owner = a /\ thread[t].status # "RESOLVED"})

\* leastLoaded, up to the order in which ties are broken
LeastLoaded(agents) == {a \in agents : \A b \in agents : OpenThreads(a) <= OpenThreads(b)}

\* chooseAgent: those who are around, if any are.
ChooseAgent(candidates, online) ==
  LeastLoaded(IF candidates \cap online # {} THEN candidates \cap online ELSE candidates)

\* pickAssignee.  Loads and presence are read after the candidates: as anybody may
\* be around, that lets the code choose no one whom this step does not.
PickAssignee(c) ==
  LET q == call[c]
  IN  /\ q.step = "pick"
      /\ IF Eligible = {}
           THEN /\ Goto(c, IF q.new THEN [q EXCEPT !.step = "insert"] ELSE Idle)
                /\ excused' = excused \cup {q.thread}
           ELSE /\ \E online \in SUBSET Agents : \E a \in ChooseAgent(Eligible, online) :
                     Goto(c, [q EXCEPT !.step = IF q.new THEN "insert" ELSE "route", !.pick = a])
                /\ UNCHANGED excused
      /\ UNCHANGED <<agent, thread, quiet, job, sent, faults, told, mishaps>>

\* A foreign key refuses an owner whose account is deleted.
Refused(q) == q.pick \in Agents /\ agent[q.pick] = "gone"

\* createConversation, startChat: the transaction.
InsertThread(c) ==
  LET q == call[c]
      t == q.thread
  IN  /\ q.step = "insert"
      /\ IF Refused(q)
           THEN Goto(c, Idle) /\ UNCHANGED thread
           ELSE /\ thread' = [thread EXCEPT ![t] =
                     [NoThread EXCEPT !.row = "live", !.owner = q.pick, !.at = q.at]]
                /\ Goto(c, [q EXCEPT !.step = "arm"])
      /\ UNCHANGED <<agent, quiet, job, sent, faults, told, mishaps, excused>>

\* Mutant: the write forgets that somebody may own the thread by now.
Unowned(t) == Live(t)

\* The compare-and-set's predicate.
StillUnowned(t) == Live(t) /\ thread[t].owner = None

\* ensureAssigned, the write: a thread that has got an owner keeps it.
Route(c) ==
  LET q == call[c]
      t == q.thread
  IN  /\ q.step = "route"
      /\ thread' = IF StillUnowned(t) /\ ~Refused(q)
                     THEN [thread EXCEPT ![t].owner = q.pick] ELSE thread
      /\ excused' = IF Refused(q) THEN excused \cup {t} ELSE excused
      /\ Goto(c, Idle)
      /\ UNCHANGED <<agent, quiet, job, sent, faults, told, mishaps>>

-----------------------------------------------------------------------------
(* admin/support *)

\* supportScope: one's own threads, or all of them.
Sees(a, t) ==
  /\ Live(t) /\ agent[a] = "active"
  /\ thread[t].owner = a \/ a \in Supervisors

\* sendMessage, a reply
BeginReply(c, a, t) ==
  /\ call[c] = Idle
  /\ Sees(a, t)
  /\ NextMessage
  /\ Goto(c, [Idle EXCEPT !.step = "reply", !.thread = t, !.at = sent + 1])
  /\ UNCHANGED <<agent, thread, quiet, job, faults, told, mishaps, excused>>

CommitReply(c) ==
  LET q == call[c]
      t == q.thread
  IN  /\ q.step = "reply"
      /\ IF Live(t)
           THEN /\ thread' = [thread EXCEPT ![t] = [Newest(t, "AGENT", q.at)
                                                      EXCEPT !.status = "PENDING"]]
                /\ quiet' = quiet \ {t}
           ELSE UNCHANGED <<thread, quiet>>
      /\ Goto(c, Idle)
      /\ UNCHANGED <<agent, job, sent, faults, told, mishaps, excused>>

\* updateConversation: only a change of owner asks for support.assign.
BeginUpdate(c, a, t, to, status) ==
  /\ call[c] = Idle
  /\ Sees(a, t)
  /\ to \notin {Same, thread[t].owner} => a \in Supervisors
  /\ Goto(c, [Idle EXCEPT !.step = IF to \in Agents THEN "check" ELSE "write",
                          !.thread = t, !.pick = to, !.status = status])
  /\ UNCHANGED <<agent, thread, quiet, job, sent, faults, told, mishaps, excused>>

\* The new owner has to be active.
CheckAgent(c) ==
  LET q == call[c]
  IN  /\ q.step = "check"
      /\ Goto(c, IF agent[q.pick] = "active"
                   THEN [q EXCEPT !.step = "write"] ELSE Idle)
      /\ UNCHANGED <<agent, thread, quiet, job, sent, faults, told, mishaps, excused>>

\* The update, by id.
WriteUpdate(c) ==
  LET q == call[c]
      t == q.thread
  IN  /\ q.step = "write"
      /\ IF Live(t) /\ ~Refused(q)
           THEN /\ thread' = [thread EXCEPT
                     ![t].owner = IF q.pick = Same THEN @ ELSE q.pick,
                     ![t].status = IF q.status = Same THEN @ ELSE q.status]
                /\ excused' = IF q.pick = None THEN excused \cup {t} ELSE excused
           ELSE UNCHANGED <<thread, excused>>
      /\ Goto(c, Idle)
      /\ UNCHANGED <<agent, quiet, job, sent, faults, told, mishaps>>

-----------------------------------------------------------------------------
(* The support queue *)

\* The delay is over and a worker takes the job.
Fire(t) ==
  /\ job[t].state = "delayed"
  /\ job' = [job EXCEPT ![t].state = "active"]
  /\ UNCHANGED <<agent, thread, quiet, call, sent, faults, told, mishaps, excused>>

\* deliverOfflineHandoff: the thread is there, and stillWaiting.
Decide(t) ==
  /\ job[t].state = "active" /\ job[t].decided = "no"
  /\ job' = [job EXCEPT ![t].decided =
               IF Live(t) /\ thread[t].newest = "CUSTOMER" THEN "waiting" ELSE "answered"]
  /\ UNCHANGED <<agent, thread, quiet, call, sent, faults, told, mishaps, excused>>

\* Mutant: a completed job keeps its id.
KeepJob(t) == [job EXCEPT ![t].state = "delayed", ![t].decided = "answered"]

\* removeOnComplete, removeOnFail: the id is free again.
RemoveJob(t) == [job EXCEPT ![t] = NoJob]

\* The mail and the feed row, as far as the customer wants them.
Tell(t) ==
  /\ job[t].state = "active" /\ job[t].decided = "waiting"
  /\ told' = told \cup {t}
  /\ job' = RemoveJob(t)
  /\ UNCHANGED <<agent, thread, quiet, call, sent, faults, mishaps, excused>>

\* Somebody has answered: nothing to do.
Answered(t) ==
  /\ job[t].state = "active" /\ job[t].decided = "answered"
  /\ job' = RemoveJob(t)
  /\ UNCHANGED <<agent, thread, quiet, call, sent, faults, told, mishaps, excused>>

\* Mutant: a job that fails is not tried again.
GiveUp(t) ==
  /\ job[t].state = "active"
  /\ faults < MaxFaults
  /\ faults' = faults + 1
  /\ job' = RemoveJob(t)
  /\ UNCHANGED <<agent, thread, quiet, call, sent, told, mishaps, excused>>

\* A statement of the job fails: tried again after a while, but not for ever.
FailJob(t) ==
  /\ job[t].state = "active"
  /\ faults < MaxFaults
  /\ faults' = faults + 1
  /\ IF job[t].tries + 1 < MaxAttempts
       THEN /\ job' = [job EXCEPT ![t] = [state |-> "delayed", decided |-> "no",
                                          tries |-> job[t].tries + 1]]
            /\ UNCHANGED mishaps
       ELSE job' = RemoveJob(t) /\ mishaps' = mishaps \cup {t}
  /\ UNCHANGED <<agent, thread, quiet, call, sent, told, excused>>

-----------------------------------------------------------------------------
(* Around the threads *)

\* A member is deactivated, restored or purged (module Access).
ChangeAgent(a, state) ==
  /\ agent[a] # "gone" /\ state # agent[a]
  /\ agent' = [agent EXCEPT ![a] = state]
  /\ IF state = "gone"
       THEN LET left == {t \in Threads : thread[t].owner = a}
            IN  /\ thread' = [t \in Threads |-> IF t \in left THEN [thread[t] EXCEPT !.owner = None]
                                                              ELSE thread[t]]
                /\ excused' = excused \cup left
       ELSE UNCHANGED <<thread, excused>>
  /\ UNCHANGED <<quiet, job, call, sent, faults, told, mishaps>>

\* GUEST_CHAT_RETENTION_DAYS without a message.
GoQuiet(t) ==
  /\ t \in Guests \ quiet /\ Live(t)
  /\ quiet' = quiet \cup {t}
  /\ UNCHANGED <<agent, thread, job, call, sent, faults, told, mishaps, excused>>

\* purgeExpired: one statement; the conversations go with their visitors.
PurgeExpired ==
  /\ quiet # {}
  /\ thread' = [t \in Threads |-> IF t \in quiet THEN [NoThread EXCEPT !.row = "gone"]
                                                 ELSE thread[t]]
  /\ quiet' = {}
  /\ UNCHANGED <<agent, job, call, sent, faults, told, mishaps, excused>>

\* The process dies in the middle of a request.
Crash(c) ==
  LET t == call[c].thread
  IN  /\ call[c] # Idle
      /\ faults < MaxFaults
      /\ faults' = faults + 1
      /\ Goto(c, Idle)
      /\ mishaps' = IF call[c].step = "arm" THEN mishaps \cup {t} ELSE mishaps
      /\ excused' = excused \cup {t}
      /\ UNCHANGED <<agent, thread, quiet, job, sent, told>>

-----------------------------------------------------------------------------
Init ==
  /\ agent = [a \in Agents |-> "active"]
  /\ thread = [t \in Threads |-> NoThread]
  /\ quiet = {}
  /\ job = [t \in Threads |-> NoJob]
  /\ call = [c \in Callers |-> Idle]
  /\ sent = 0 /\ faults = 0
  /\ told = {} /\ mishaps = {} /\ excused = {}

Begin(c, t) ==
  \/ BeginChat(c, t) \/ BeginMessage(c, t)
  \/ \E a \in Agents :
       \/ BeginReply(c, a, t)
       \/ \E u \in Updates : BeginUpdate(c, a, t, u[1], u[2])

Proceed(c) ==
  \/ CommitMessage(c) \/ Arm(c) \/ ReadOwner(c) \/ PickAssignee(c)
  \/ InsertThread(c) \/ Route(c) \/ CommitReply(c) \/ CheckAgent(c) \/ WriteUpdate(c)

Handoff(t) == Fire(t) \/ Decide(t) \/ Tell(t) \/ Answered(t)

Next ==
  \/ \E c \in Callers : Proceed(c) \/ ArmLost(c) \/ Crash(c) \/ \E t \in Threads : Begin(c, t)
  \/ \E t \in Threads : Handoff(t) \/ FailJob(t) \/ GoQuiet(t)
  \/ \E a \in Leavers, s \in AgentState : ChangeAgent(a, s)
  \/ PurgeExpired

Spec == Init /\ [][Next]_vars

\* Requests go on once begun, and the worker keeps taking jobs.
FairSpec ==
  /\ Spec
  /\ \A c \in Callers : WF_vars(Proceed(c))
  /\ \A t \in Threads : WF_vars(Handoff(t))

-----------------------------------------------------------------------------
(* What the module promises *)

\* Every variable keeps its type, and every request knows its thread.
TypeOK ==
  /\ agent \in [Agents -> AgentState]
  /\ thread \in [Threads -> Conversation]
  /\ quiet \subseteq Guests
  /\ job \in [Threads -> Job]
  /\ call \in [Callers -> Call]
  /\ \A c \in Callers : call[c] # Idle => call[c].thread \in Threads
  /\ sent \in 0 .. MaxMessages
  /\ faults \in 0 .. MaxFaults
  /\ told \subseteq Threads /\ mishaps \subseteq Threads /\ excused \subseteq Threads

\* The customer has written last and has not been told that it was seen.
Waiting(t) == Live(t) /\ thread[t].newest = "CUSTOMER" /\ t \notin told

\* Somebody who waits has a job that has not looked away yet, or a request about
\* to arm one; the exceptions are a refusal by Redis, a process that died, a job
\* out of attempts, and a message that met a job which had found the thread
\* answered but still held its id.
WaitingIsArmed ==
  \A t \in Threads :
    Waiting(t) /\ t \notin mishaps =>
      \/ job[t].state # "none" /\ job[t].decided # "answered"
      \/ \E c \in Callers : call[c].step = "arm" /\ call[c].thread = t

\* Somebody who waits is answered or told, but for those exceptions.
WaitingEnds == \A t \in Threads : Waiting(t) ~> (~Waiting(t) \/ t \in mishaps)

\* A request that is going to give the thread an owner.
Routes(c, t) ==
  /\ call[c].thread = t /\ ~call[c].new /\ call[c].owner = None
  /\ call[c].step \in {"send", "arm", "owner", "pick", "route"}

\* A thread without an owner, which no agent sees, is one being routed, or one
\* for which nobody was to be had when a message last looked, whose request
\* failed, or which a supervisor or a deleted account has left behind since.
OwnerlessIsExcused ==
  \A t \in Threads :
    Live(t) /\ thread[t].owner = None /\ t \notin excused =>
      \E c \in Callers : Routes(c, t)

\* The router never takes a thread from whoever owns it by the time it writes.
RoutingKeepsOwners ==
  [][\A c \in Callers, t \in Threads :
       call[c].step = "route" /\ call'[c].step # "route" /\ thread[t].owner # None
         => thread'[t].owner = thread[t].owner]_vars
=============================================================================
