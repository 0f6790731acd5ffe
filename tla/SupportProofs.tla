--------------------------- MODULE SupportProofs ---------------------------
(***************************************************************************)
(* Proofs about the module Support, for any threads, agents, requests and  *)
(* any number of messages and failures.                                    *)
(***************************************************************************)
EXTENDS Support, TLAPS

\* What a request has read fits the step it has come to.
ShapeOf(q) ==
  /\ q # Idle => q.thread \in Threads
  /\ q.step = "idle" => q = Idle
  /\ q.step = "insert" => q.new /\ q.pick \in Agents \cup {None}
  /\ q.step = "route" => ~q.new /\ q.pick \in Agents
  /\ q.step = "check" => q.pick \in Agents
  /\ q.step \in {"send", "owner", "reply", "check", "write"} => ~q.new
  /\ q.step \in {"send", "arm", "owner", "pick"} => q.pick # Same

Shapes == \A c \in Callers : ShapeOf(call[c])

TypeInv == TypeOK /\ Shapes

\* A request that goes on with something of the right shape keeps the types.
LEMMA CallTypes ==
  ASSUME TypeInv, NEW c \in Callers, NEW q \in Call, ShapeOf(q), Goto(c, q)
  PROVE  /\ call' \in [Callers -> Call] /\ Shapes'
         /\ \A d \in Callers : call'[d] # Idle => call'[d].thread \in Threads
<1>1. call' = [call EXCEPT ![c] = q]
  BY DEF Goto
<1>2. /\ call' \in [Callers -> Call]
      /\ call'[c] = q /\ \A d \in Callers : d # c => call'[d] = call[d]
  BY <1>1 DEF TypeInv, TypeOK
<1>3. \A d \in Callers : ShapeOf(call'[d])
  BY <1>2 DEF TypeInv, Shapes
<1> QED
  BY <1>2, <1>3 DEF Shapes, ShapeOf, Idle

\* An idle request is a request.
LEMMA IdleIsCall == Idle \in Call /\ ShapeOf(Idle)
  BY SupportAssumption DEF Idle, Call, Steps, ShapeOf

\* So is an update that staff ask for.
LEMMA UpdateIsCall ==
  ASSUME NEW step \in {"check", "write"}, NEW t \in Threads, NEW to \in Agents \cup {None, Same},
         NEW st \in ConversationStatus \cup {Same}, step = "check" => to \in Agents
  PROVE  LET q == [Idle EXCEPT !.step = step, !.thread = t, !.pick = to, !.status = st]
         IN  q \in Call /\ ShapeOf(q)
<1> DEFINE q == [Idle EXCEPT !.step = step, !.thread = t, !.pick = to, !.status = st]
<1>1. 0 \in 0 .. MaxMessages
  BY SupportAssumption
<1>2. q \in Call
  BY <1>1 DEF Idle, Call, Steps
<1>3. ShapeOf(q)
  BY DEF Idle, ShapeOf
<1> QED
  BY <1>2, <1>3

\* A message leaves all of a thread but its newest message as it was.
LEMMA NewestKeeps ==
  ASSUME TypeOK, NEW t \in Threads, NEW by \in {"CUSTOMER", "AGENT"}, NEW at \in 0 .. MaxMessages
  PROVE  /\ Newest(t, by, at) \in Conversation
         /\ Newest(t, by, at).row = thread[t].row
         /\ Newest(t, by, at).owner = thread[t].owner
         /\ by = "AGENT" /\ Newest(t, by, at).newest = "CUSTOMER" => thread[t].newest = "CUSTOMER"
<1>1. CASE at > thread[t].at
  <2>1. Newest(t, by, at) = [thread[t] EXCEPT !.newest = by, !.at = at]
    BY <1>1 DEF Newest
  <2>2. thread[t] \in Conversation
    BY DEF TypeOK
  <2>3. [thread[t] EXCEPT !.newest = by, !.at = at] \in Conversation
    BY <2>2 DEF Conversation
  <2> QED
    BY <2>1, <2>2, <2>3 DEF Conversation
<1>2. CASE ~(at > thread[t].at)
  BY <1>2 DEF Newest, TypeOK
<1> QED
  BY <1>1, <1>2

(***************************************************************************)
(* Every variable keeps its type, and what a request has read fits the     *)
(* step it has come to, in every behaviour.                                *)
(***************************************************************************)
THEOREM TypesHold == Spec => []TypeInv
<1> USE SupportAssumption
<1>1. Init => TypeInv
  BY DEF Init, TypeInv, TypeOK, Shapes, ShapeOf, AgentState, Conversation, ConversationStatus, NoThread, Job, NoJob, Call, Steps, Idle
<1>2. TypeInv /\ [Next]_vars => TypeInv'
  <2> SUFFICES ASSUME TypeInv, [Next]_vars PROVE TypeInv'
    OBVIOUS
  <2>1. ASSUME NEW c \in Callers, CommitMessage(c) PROVE TypeInv'
    <3> DEFINE q == call[c]
    <3>1. q \in Call /\ q.step = "send" /\ ShapeOf(q) /\ q.thread \in Threads
      BY <2>1 DEF CommitMessage, TypeInv, TypeOK, Shapes, ShapeOf, Idle
    <3>2. /\ [q EXCEPT !.step = "arm"] \in Call
          /\ ShapeOf([q EXCEPT !.step = "arm"])
      BY <3>1 DEF Call, Steps, ShapeOf, Idle
    <3>3. /\ call' \in [Callers -> Call] /\ Shapes'
          /\ \A d \in Callers : call'[d] # Idle => call'[d].thread \in Threads
      BY <2>1, <3>1, <3>2, CallTypes, IdleIsCall DEF CommitMessage
    <3>4. thread' \in [Threads -> Conversation]
      <4>1. Newest(q.thread, "CUSTOMER", q.at) \in Conversation
        BY <3>1, NewestKeeps DEF TypeInv, Call
      <4>2. [Newest(q.thread, "CUSTOMER", q.at) EXCEPT !.status = "OPEN"] \in Conversation
        BY <4>1 DEF Conversation, ConversationStatus
      <4> QED
        BY <2>1, <3>1, <4>2 DEF CommitMessage, TypeInv, TypeOK
    <3> QED
      BY <2>1, <3>1, <3>3, <3>4 DEF CommitMessage, TypeInv, TypeOK
  <2>2. ASSUME NEW c \in Callers, Arm(c) PROVE TypeInv'
    <3> DEFINE q == call[c]
    <3>1. q \in Call /\ q.step = "arm" /\ ShapeOf(q) /\ q.thread \in Threads
      BY <2>2 DEF Arm, TypeInv, TypeOK, Shapes, ShapeOf, Idle
    <3>2. AfterArm(q) \in Call /\ ShapeOf(AfterArm(q))
      BY <3>1, IdleIsCall DEF AfterArm, Call, Steps, ShapeOf, Idle
    <3>3. /\ call' \in [Callers -> Call] /\ Shapes'
          /\ \A d \in Callers : call'[d] # Idle => call'[d].thread \in Threads
      BY <2>2, <3>2, CallTypes DEF Arm
    <3>4. job' \in [Threads -> Job]
      <4>1. [NoJob EXCEPT !.state = "delayed"] \in Job
        BY DEF NoJob, Job
      <4> QED
        BY <2>2, <3>1, <4>1 DEF Arm, TypeInv, TypeOK
    <3> QED
      BY <2>2, <3>1, <3>3, <3>4 DEF Arm, TypeInv, TypeOK
  <2>3. ASSUME NEW c \in Callers, ReadOwner(c) PROVE TypeInv'
    <3> DEFINE q == call[c]
    <3>1. q \in Call /\ q.step = "owner" /\ ShapeOf(q) /\ q.thread \in Threads
      BY <2>3 DEF ReadOwner, TypeInv, TypeOK, Shapes, ShapeOf, Idle
    <3>2. /\ [q EXCEPT !.step = "pick"] \in Call
          /\ ShapeOf([q EXCEPT !.step = "pick"])
      BY <3>1 DEF Call, Steps, ShapeOf, Idle
    <3>3. /\ call' \in [Callers -> Call] /\ Shapes'
          /\ \A d \in Callers : call'[d] # Idle => call'[d].thread \in Threads
      BY <2>3, <3>2, IdleIsCall, CallTypes DEF ReadOwner
    <3> QED
      BY <2>3, <3>3 DEF ReadOwner, TypeInv, TypeOK
  <2>4. ASSUME NEW c \in Callers, PickAssignee(c) PROVE TypeInv'
    <3> DEFINE q == call[c]
    <3>0. q.step = "pick"
      BY <2>4 DEF PickAssignee
    <3>1. q \in Call /\ q.step = "pick" /\ ShapeOf(q) /\ q.thread \in Threads
      BY <3>0 DEF TypeInv, TypeOK, Shapes, ShapeOf, Idle
    <3>2. CASE Eligible = {}
      <4>1. /\ [q EXCEPT !.step = "insert"] \in Call
            /\ q.new => ShapeOf([q EXCEPT !.step = "insert"])
        BY <3>1 DEF Call, Steps, ShapeOf, Idle
      <4> QED
        BY <2>4, <3>1, <3>2, <4>1, IdleIsCall, CallTypes DEF PickAssignee, TypeInv, TypeOK
    <3>3. CASE Eligible # {}
      <4> DEFINE next(a) == [q EXCEPT !.step = IF q.new THEN "insert" ELSE "route", !.pick = a]
      <4>1. PICK a \in Agents : Goto(c, next(a))
        BY <2>4, <3>3, SupportAssumption DEF PickAssignee, ChooseAgent, LeastLoaded, Eligible
      <4>2. next(a) \in Call /\ ShapeOf(next(a))
        BY <3>1 DEF Call, Steps, ShapeOf, Idle
      <4>3. /\ call' \in [Callers -> Call] /\ Shapes'
          /\ \A d \in Callers : call'[d] # Idle => call'[d].thread \in Threads
        BY <4>1, <4>2, CallTypes
      <4> QED
        BY <2>4, <3>3, <4>3 DEF PickAssignee, TypeInv, TypeOK
    <3> QED
      BY <3>2, <3>3
  <2>5. ASSUME NEW c \in Callers, InsertThread(c) PROVE TypeInv'
    <3> DEFINE q == call[c]
    <3>1. q \in Call /\ q.step = "insert" /\ ShapeOf(q) /\ q.thread \in Threads
      BY <2>5 DEF InsertThread, TypeInv, TypeOK, Shapes, ShapeOf, Idle
    <3>2. /\ [q EXCEPT !.step = "arm"] \in Call
          /\ ShapeOf([q EXCEPT !.step = "arm"])
      BY <3>1 DEF Call, Steps, ShapeOf, Idle
    <3>3. /\ call' \in [Callers -> Call] /\ Shapes'
          /\ \A d \in Callers : call'[d] # Idle => call'[d].thread \in Threads
      BY <2>5, <3>2, IdleIsCall, CallTypes DEF InsertThread
    <3>4. thread' \in [Threads -> Conversation]
      <4>1. [NoThread EXCEPT !.row = "live", !.owner = q.pick, !.at = q.at] \in Conversation
        BY <3>1 DEF NoThread, Conversation, ConversationStatus, Call, ShapeOf
      <4> QED
        BY <2>5, <3>1, <4>1 DEF InsertThread, TypeInv, TypeOK
    <3> QED
      BY <2>5, <3>3, <3>4 DEF InsertThread, TypeInv, TypeOK
  <2>6. ASSUME NEW c \in Callers, Route(c) PROVE TypeInv'
    <3> DEFINE q == call[c]
    <3>1. q \in Call /\ q.step = "route" /\ ShapeOf(q) /\ q.thread \in Threads
      BY <2>6 DEF Route, TypeInv, TypeOK, Shapes, ShapeOf, Idle
    <3>3. /\ call' \in [Callers -> Call] /\ Shapes'
          /\ \A d \in Callers : call'[d] # Idle => call'[d].thread \in Threads
      BY <2>6, IdleIsCall, CallTypes DEF Route
    <3>4. thread' \in [Threads -> Conversation]
      <4>1. [thread[q.thread] EXCEPT !.owner = q.pick] \in Conversation
        BY <3>1 DEF Conversation, ShapeOf, TypeInv, TypeOK
      <4>2. \/ thread' = thread
            \/ thread' = [thread EXCEPT ![q.thread] = [thread[q.thread] EXCEPT !.owner = q.pick]]
        BY <2>6 DEF Route
      <4> QED
        BY <3>1, <4>1, <4>2 DEF TypeInv, TypeOK
    <3> QED
      BY <2>6, <3>1, <3>3, <3>4 DEF Route, TypeInv, TypeOK
  <2>7. ASSUME NEW c \in Callers, CommitReply(c) PROVE TypeInv'
    <3> DEFINE q == call[c]
    <3>1. q \in Call /\ q.step = "reply" /\ ShapeOf(q) /\ q.thread \in Threads
      BY <2>7 DEF CommitReply, TypeInv, TypeOK, Shapes, ShapeOf, Idle
    <3>3. /\ call' \in [Callers -> Call] /\ Shapes'
          /\ \A d \in Callers : call'[d] # Idle => call'[d].thread \in Threads
      BY <2>7, CallTypes, IdleIsCall DEF CommitReply
    <3>4. thread' \in [Threads -> Conversation]
      <4>1. Newest(q.thread, "AGENT", q.at) \in Conversation
        BY <3>1, NewestKeeps DEF TypeInv, Call
      <4>2. [Newest(q.thread, "AGENT", q.at) EXCEPT !.status = "PENDING"] \in Conversation
        BY <4>1 DEF Conversation, ConversationStatus
      <4> QED
        BY <2>7, <3>1, <4>2 DEF CommitReply, TypeInv, TypeOK
    <3> QED
      BY <2>7, <3>1, <3>3, <3>4 DEF CommitReply, TypeInv, TypeOK
  <2>8. ASSUME NEW c \in Callers, CheckAgent(c) PROVE TypeInv'
    <3> DEFINE q == call[c]
    <3>1. q \in Call /\ q.step = "check" /\ ShapeOf(q) /\ q.thread \in Threads
      BY <2>8 DEF CheckAgent, TypeInv, TypeOK, Shapes, ShapeOf, Idle
    <3>2. /\ [q EXCEPT !.step = "write"] \in Call
          /\ ShapeOf([q EXCEPT !.step = "write"])
      BY <3>1 DEF Call, Steps, ShapeOf, Idle
    <3>3. /\ call' \in [Callers -> Call] /\ Shapes'
          /\ \A d \in Callers : call'[d] # Idle => call'[d].thread \in Threads
      BY <2>8, <3>2, IdleIsCall, CallTypes DEF CheckAgent
    <3> QED
      BY <2>8, <3>3 DEF CheckAgent, TypeInv, TypeOK
  <2>9. ASSUME NEW c \in Callers, WriteUpdate(c) PROVE TypeInv'
    <3> DEFINE q == call[c]
    <3>1. q \in Call /\ q.step = "write" /\ ShapeOf(q) /\ q.thread \in Threads
      BY <2>9 DEF WriteUpdate, TypeInv, TypeOK, Shapes, ShapeOf, Idle
    <3>3. /\ call' \in [Callers -> Call] /\ Shapes'
          /\ \A d \in Callers : call'[d] # Idle => call'[d].thread \in Threads
      BY <2>9, IdleIsCall, CallTypes DEF WriteUpdate
    <3>4. thread' \in [Threads -> Conversation]
      <4> DEFINE owner == IF q.pick = Same THEN thread[q.thread].owner ELSE q.pick
                 status == IF q.status = Same THEN thread[q.thread].status ELSE q.status
      <4>1. owner \in Agents \cup {None} /\ status \in ConversationStatus
        BY <3>1 DEF Call, Conversation, TypeInv, TypeOK
      <4>2. \/ thread' = thread
            \/ thread' = [thread EXCEPT
                            ![q.thread] = [thread[q.thread] EXCEPT !.owner = owner, !.status = status]]
        BY <2>9, <3>1 DEF WriteUpdate, TypeInv, TypeOK
      <4> HIDE DEF owner, status
      <4>3. [thread[q.thread] EXCEPT !.owner = owner, !.status = status] \in Conversation
        <5>1. thread[q.thread] \in Conversation
          BY <3>1 DEF TypeInv, TypeOK
        <5> HIDE DEF q
        <5> QED
          BY <4>1, <5>1 DEF Conversation
      <4> QED
        BY <3>1, <4>2, <4>3 DEF TypeInv, TypeOK
    <3> QED
      BY <2>9, <3>1, <3>3, <3>4 DEF WriteUpdate, TypeInv, TypeOK
  <2>10. ASSUME NEW c \in Callers, ArmLost(c) PROVE TypeInv'
    <3> DEFINE q == call[c]
    <3>1. q \in Call /\ q.step = "arm" /\ ShapeOf(q) /\ q.thread \in Threads
      BY <2>10 DEF ArmLost, TypeInv, TypeOK, Shapes, ShapeOf, Idle
    <3>2. AfterArm(q) \in Call /\ ShapeOf(AfterArm(q))
      BY <3>1, IdleIsCall DEF AfterArm, Call, Steps, ShapeOf, Idle
    <3>3. /\ call' \in [Callers -> Call] /\ Shapes'
          /\ \A d \in Callers : call'[d] # Idle => call'[d].thread \in Threads
      BY <2>10, <3>2, CallTypes DEF ArmLost
    <3> QED
      BY <2>10, <3>1, <3>3 DEF ArmLost, TypeInv, TypeOK
  <2>11. ASSUME NEW c \in Callers, Crash(c) PROVE TypeInv'
    <3>1. call[c].thread \in Threads
      BY <2>11 DEF Crash, TypeInv, TypeOK
    <3>2. /\ call' \in [Callers -> Call] /\ Shapes'
          /\ \A d \in Callers : call'[d] # Idle => call'[d].thread \in Threads
      BY <2>11, IdleIsCall, CallTypes DEF Crash
    <3> QED
      BY <2>11, <3>1, <3>2 DEF Crash, TypeInv, TypeOK
  <2>12. ASSUME NEW c \in Callers, NEW t \in Threads, BeginChat(c, t) PROVE TypeInv'
    <3> DEFINE q == [Idle EXCEPT !.step = "pick", !.thread = t, !.new = TRUE, !.at = sent + 1]
    <3>1. sent' \in 0 .. MaxMessages /\ sent' = sent + 1
      BY <2>12 DEF BeginChat, NextMessage, TypeInv, TypeOK
    <3>2. q \in Call /\ ShapeOf(q)
      BY <3>1 DEF Idle, Call, Steps, ShapeOf
    <3>3. /\ call' \in [Callers -> Call] /\ Shapes'
          /\ \A d \in Callers : call'[d] # Idle => call'[d].thread \in Threads
      BY <2>12, <3>2, CallTypes DEF BeginChat
    <3> QED
      BY <2>12, <3>1, <3>3 DEF BeginChat, TypeInv, TypeOK
  <2>13. ASSUME NEW c \in Callers, NEW t \in Threads, BeginMessage(c, t) PROVE TypeInv'
    <3> DEFINE owner == IF t \in Guests THEN None ELSE thread[t].owner
               q == [Idle EXCEPT !.step = "send", !.thread = t, !.at = sent + 1, !.owner = owner]
    <3>1. sent' \in 0 .. MaxMessages /\ sent' = sent + 1
      BY <2>13 DEF BeginMessage, NextMessage, TypeInv, TypeOK
    <3>2. owner \in Agents \cup {None}
      BY DEF TypeInv, TypeOK, Conversation
    <3>3. Goto(c, q) /\ excused' \subseteq Threads
      BY <2>13 DEF BeginMessage, TypeInv, TypeOK
    <3> HIDE DEF owner
    <3>4. q \in Call /\ ShapeOf(q)
      BY <3>1, <3>2 DEF Idle, Call, Steps, ShapeOf
    <3>5. /\ call' \in [Callers -> Call] /\ Shapes'
          /\ \A d \in Callers : call'[d] # Idle => call'[d].thread \in Threads
      BY <3>3, <3>4, CallTypes
    <3> QED
      BY <2>13, <3>1, <3>3, <3>5 DEF BeginMessage, TypeInv, TypeOK
  <2>14. ASSUME NEW c \in Callers, NEW a \in Agents, NEW t \in Threads, BeginReply(c, a, t) PROVE TypeInv'
    <3> DEFINE q == [Idle EXCEPT !.step = "reply", !.thread = t, !.at = sent + 1]
    <3>1. sent' \in 0 .. MaxMessages /\ sent' = sent + 1
      BY <2>14 DEF BeginReply, NextMessage, TypeInv, TypeOK
    <3>2. q \in Call /\ ShapeOf(q)
      BY <3>1 DEF Idle, Call, Steps, ShapeOf
    <3>3. /\ call' \in [Callers -> Call] /\ Shapes'
          /\ \A d \in Callers : call'[d] # Idle => call'[d].thread \in Threads
      BY <2>14, <3>2, CallTypes DEF BeginReply
    <3> QED
      BY <2>14, <3>1, <3>3 DEF BeginReply, TypeInv, TypeOK
  <2>15. ASSUME NEW c \in Callers, NEW a \in Agents, NEW t \in Threads, NEW u \in Updates, BeginUpdate(c, a, t, u[1], u[2]) PROVE TypeInv'
    <3> DEFINE to == u[1]
               st == u[2]
               step == IF to \in Agents THEN "check" ELSE "write"
               q == [Idle EXCEPT !.step = step, !.thread = t, !.pick = to, !.status = st]
    <3>1. to \in Agents \cup {None, Same} /\ st \in ConversationStatus \cup {Same}
      BY SupportAssumption
    <3>2. step \in {"check", "write"} /\ (step = "check" => to \in Agents)
      OBVIOUS
    <3>3. Goto(c, q)
      BY <2>15 DEF BeginUpdate
    <3> HIDE DEF to, st, step
    <3>4. q \in Call /\ ShapeOf(q)
      BY <3>1, <3>2, UpdateIsCall
    <3>5. /\ call' \in [Callers -> Call] /\ Shapes'
          /\ \A d \in Callers : call'[d] # Idle => call'[d].thread \in Threads
      BY <3>3, <3>4, CallTypes
    <3> QED
      BY <2>15, <3>5 DEF BeginUpdate, TypeInv, TypeOK
  <2>16. ASSUME NEW t \in Threads, Fire(t) PROVE TypeInv'
    <3>1. job' \in [Threads -> Job]
      BY <2>16 DEF Fire, TypeInv, TypeOK, Job
    <3> QED
      BY <2>16, <3>1 DEF Fire, TypeInv, TypeOK, Shapes
  <2>17. ASSUME NEW t \in Threads, Decide(t) PROVE TypeInv'
    <3>1. job' \in [Threads -> Job]
      BY <2>17 DEF Decide, TypeInv, TypeOK, Job
    <3> QED
      BY <2>17, <3>1 DEF Decide, TypeInv, TypeOK, Shapes
  <2>18. ASSUME NEW t \in Threads, Tell(t) PROVE TypeInv'
    <3>1. job' \in [Threads -> Job]
      BY <2>18 DEF Tell, RemoveJob, NoJob, TypeInv, TypeOK, Job
    <3> QED
      BY <2>18, <3>1 DEF Tell, TypeInv, TypeOK, Shapes
  <2>19. ASSUME NEW t \in Threads, Answered(t) PROVE TypeInv'
    <3>1. job' \in [Threads -> Job]
      BY <2>19 DEF Answered, RemoveJob, NoJob, TypeInv, TypeOK, Job
    <3> QED
      BY <2>19, <3>1 DEF Answered, TypeInv, TypeOK, Shapes
  <2>20. ASSUME NEW t \in Threads, FailJob(t) PROVE TypeInv'
    <3>1. job[t].tries \in 0 .. MaxAttempts
      BY DEF TypeInv, TypeOK, Job
    <3>2. job' \in [Threads -> Job]
      <4>1. CASE job[t].tries + 1 < MaxAttempts
        <5>1. [state |-> "delayed", decided |-> "no", tries |-> job[t].tries + 1] \in Job
          BY <3>1, <4>1 DEF Job
        <5> QED
          BY <2>20, <4>1, <5>1 DEF FailJob, TypeInv, TypeOK
      <4>2. CASE ~(job[t].tries + 1 < MaxAttempts)
        BY <2>20, <4>2 DEF FailJob, RemoveJob, NoJob, TypeInv, TypeOK, Job
      <4> QED
        BY <4>1, <4>2
    <3> QED
      BY <2>20, <3>2 DEF FailJob, TypeInv, TypeOK, Shapes
  <2>21. ASSUME NEW t \in Threads, GoQuiet(t) PROVE TypeInv'
    BY <2>21 DEF GoQuiet, TypeInv, TypeOK, Shapes
  <2>22. ASSUME NEW a \in Leavers, NEW s \in AgentState, ChangeAgent(a, s) PROVE TypeInv'
    <3>1. thread' \in [Threads -> Conversation]
      <4>1. \A x \in Threads : [thread[x] EXCEPT !.owner = None] \in Conversation
        BY DEF TypeInv, TypeOK, Conversation
      <4> QED
        BY <2>22, <4>1 DEF ChangeAgent, TypeInv, TypeOK
    <3> QED
      BY <2>22, <3>1 DEF ChangeAgent, TypeInv, TypeOK, Shapes
  <2>23. CASE PurgeExpired
    <3>1. thread' \in [Threads -> Conversation]
      <4>1. [NoThread EXCEPT !.row = "gone"] \in Conversation
        BY DEF NoThread, Conversation, ConversationStatus
      <4> QED
        BY <2>23, <4>1 DEF PurgeExpired, TypeInv, TypeOK
    <3> QED
      BY <2>23, <3>1 DEF PurgeExpired, TypeInv, TypeOK, Shapes
  <2>24. CASE UNCHANGED vars
    BY <2>24 DEF vars, TypeInv, TypeOK, Shapes, ShapeOf
  <2> QED
    BY <2>1, <2>2, <2>3, <2>4, <2>5, <2>6, <2>7, <2>8, <2>9, <2>10, <2>11, <2>12, <2>13, <2>14, <2>15, <2>16, <2>17, <2>18, <2>19, <2>20, <2>21, <2>22, <2>23, <2>24 DEF Next, Begin, Proceed, Handoff
<1> QED
  BY <1>1, <1>2, PTL DEF Spec

\* A job has read something only while it runs.
JobShapes == \A t \in Threads : job[t].decided # "no" => job[t].state = "active"

(***************************************************************************)
(* A job that waits for its delay has read nothing, in every behaviour.    *)
(***************************************************************************)
THEOREM JobsHold == Spec => []JobShapes
<1> USE SupportAssumption
<1>1. Init => JobShapes
  BY DEF Init, JobShapes, NoJob
<1>2. TypeInv /\ JobShapes /\ [Next]_vars => JobShapes'
  <2> SUFFICES ASSUME TypeInv, JobShapes, [Next]_vars PROVE JobShapes'
    OBVIOUS
  <2>1. ASSUME NEW c \in Callers, CommitMessage(c) PROVE JobShapes'
    BY <2>1 DEF CommitMessage, Goto, Live, Newest, TypeInv, TypeOK, Job, JobShapes
  <2>2. ASSUME NEW c \in Callers, Arm(c) PROVE JobShapes'
    BY <2>2 DEF Arm, Goto, AfterArm, NoJob, TypeInv, TypeOK, Job, JobShapes
  <2>3. ASSUME NEW c \in Callers, ReadOwner(c) PROVE JobShapes'
    BY <2>3 DEF ReadOwner, Goto, Live, TypeInv, TypeOK, Job, JobShapes
  <2>4. ASSUME NEW c \in Callers, PickAssignee(c) PROVE JobShapes'
    BY <2>4 DEF PickAssignee, Goto, Eligible, ChooseAgent, LeastLoaded, TypeInv, TypeOK, Job, JobShapes
  <2>5. ASSUME NEW c \in Callers, InsertThread(c) PROVE JobShapes'
    BY <2>5 DEF InsertThread, Goto, Refused, NoThread, TypeInv, TypeOK, Job, JobShapes
  <2>6. ASSUME NEW c \in Callers, Route(c) PROVE JobShapes'
    BY <2>6 DEF Route, Goto, StillUnowned, Live, Refused, TypeInv, TypeOK, Job, JobShapes
  <2>7. ASSUME NEW c \in Callers, CommitReply(c) PROVE JobShapes'
    BY <2>7 DEF CommitReply, Goto, Live, Newest, TypeInv, TypeOK, Job, JobShapes
  <2>8. ASSUME NEW c \in Callers, CheckAgent(c) PROVE JobShapes'
    BY <2>8 DEF CheckAgent, Goto, TypeInv, TypeOK, Job, JobShapes
  <2>9. ASSUME NEW c \in Callers, WriteUpdate(c) PROVE JobShapes'
    BY <2>9 DEF WriteUpdate, Goto, Live, Refused, TypeInv, TypeOK, Job, JobShapes
  <2>10. ASSUME NEW c \in Callers, ArmLost(c) PROVE JobShapes'
    BY <2>10 DEF ArmLost, Goto, AfterArm, TypeInv, TypeOK, Job, JobShapes
  <2>11. ASSUME NEW c \in Callers, Crash(c) PROVE JobShapes'
    BY <2>11 DEF Crash, Goto, TypeInv, TypeOK, Job, JobShapes
  <2>12. ASSUME NEW c \in Callers, NEW t \in Threads, BeginChat(c, t) PROVE JobShapes'
    BY <2>12 DEF BeginChat, Goto, NextMessage, TypeInv, TypeOK, Job, JobShapes
  <2>13. ASSUME NEW c \in Callers, NEW t \in Threads, BeginMessage(c, t) PROVE JobShapes'
    BY <2>13 DEF BeginMessage, Goto, NextMessage, Live, TypeInv, TypeOK, Job, JobShapes
  <2>14. ASSUME NEW c \in Callers, NEW a \in Agents, NEW t \in Threads, BeginReply(c, a, t) PROVE JobShapes'
    BY <2>14 DEF BeginReply, Goto, Sees, Live, NextMessage, TypeInv, TypeOK, Job, JobShapes
  <2>15. ASSUME NEW c \in Callers, NEW a \in Agents, NEW t \in Threads, NEW u \in Updates, BeginUpdate(c, a, t, u[1], u[2]) PROVE JobShapes'
    BY <2>15 DEF BeginUpdate, Goto, Sees, Live, TypeInv, TypeOK, Job, JobShapes
  <2>16. ASSUME NEW t \in Threads, Fire(t) PROVE JobShapes'
    BY <2>16 DEF Fire, TypeInv, TypeOK, Job, JobShapes
  <2>17. ASSUME NEW t \in Threads, Decide(t) PROVE JobShapes'
    BY <2>17 DEF Decide, Live, TypeInv, TypeOK, Job, JobShapes
  <2>18. ASSUME NEW t \in Threads, Tell(t) PROVE JobShapes'
    BY <2>18 DEF Tell, RemoveJob, NoJob, TypeInv, TypeOK, Job, JobShapes
  <2>19. ASSUME NEW t \in Threads, Answered(t) PROVE JobShapes'
    BY <2>19 DEF Answered, RemoveJob, NoJob, TypeInv, TypeOK, Job, JobShapes
  <2>20. ASSUME NEW t \in Threads, FailJob(t) PROVE JobShapes'
    BY <2>20 DEF FailJob, RemoveJob, NoJob, TypeInv, TypeOK, Job, JobShapes
  <2>21. ASSUME NEW t \in Threads, GoQuiet(t) PROVE JobShapes'
    BY <2>21 DEF GoQuiet, Live, TypeInv, TypeOK, Job, JobShapes
  <2>22. ASSUME NEW a \in Leavers, NEW s \in AgentState, ChangeAgent(a, s) PROVE JobShapes'
    BY <2>22 DEF ChangeAgent, TypeInv, TypeOK, Job, JobShapes
  <2>23. CASE PurgeExpired
    BY <2>23 DEF PurgeExpired, NoThread, TypeInv, TypeOK, Job, JobShapes
  <2>24. CASE UNCHANGED vars
    BY <2>24 DEF vars, TypeInv, TypeOK, Job, JobShapes
  <2> QED
    BY <2>1, <2>2, <2>3, <2>4, <2>5, <2>6, <2>7, <2>8, <2>9, <2>10, <2>11, <2>12, <2>13, <2>14, <2>15, <2>16, <2>17, <2>18, <2>19, <2>20, <2>21, <2>22, <2>23, <2>24 DEF Next, Begin, Proceed, Handoff
<1> QED
  BY <1>1, <1>2, TypesHold, PTL DEF Spec

\* A request is about to arm the job of a thread.
Arming(t) == \E c \in Callers : call[c].step = "arm" /\ call[c].thread = t

\* The job of a thread will still look at it.
Looks(t) == job[t].state # "none" /\ job[t].decided # "answered"

ArmedFor(t) == Waiting(t) /\ t \notin mishaps => Looks(t) \/ Arming(t)

\* A request that was not about to arm a job takes no such request away.
LEMMA ArmingStays ==
  ASSUME TypeInv, NEW c \in Callers, call[c].step # "arm",
         \A d \in Callers : d # c => call'[d] = call[d]
  PROVE  \A t \in Threads : Arming(t) => Arming(t)'
  BY DEF Arming

\* What is needed of a step to leave a thread armed.
LEMMA ArmedStays ==
  ASSUME NEW x \in Threads, ArmedFor(x), Waiting(x)' => Waiting(x),
         Looks(x) => Looks(x)', Arming(x) => Arming(x)', x \in mishaps => x \in mishaps'
  PROVE  ArmedFor(x)'
  BY DEF ArmedFor

\* Only the request that takes a step changes.
LEMMA OthersStay ==
  ASSUME TypeInv, NEW c \in Callers, NEW q, Goto(c, q)
  PROVE  call'[c] = q /\ \A d \in Callers : d # c => call'[d] = call[d]
  BY DEF Goto, TypeInv, TypeOK

(***************************************************************************)
(* Somebody who waits has a job that will look at the thread, or a request *)
(* about to arm one, whatever the interleaving of requests, staff and the  *)
(* worker (support.notifications.ts:73, queues.ts:210).                    *)
(***************************************************************************)
THEOREM WaitingIsArmedInv == Spec => []WaitingIsArmed
<1> USE SupportAssumption
<1>1. Init => WaitingIsArmed
  BY DEF Init, WaitingIsArmed, Waiting, Live, NoThread
<1>2. TypeInv /\ JobShapes /\ (\A x \in Threads : ArmedFor(x)) /\ [Next]_vars => (\A x \in Threads : ArmedFor(x)')
  <2> SUFFICES ASSUME TypeInv, JobShapes, (\A x \in Threads : ArmedFor(x)), [Next]_vars PROVE (\A x \in Threads : ArmedFor(x)')
    OBVIOUS
  <2>1. ASSUME NEW c \in Callers, CommitMessage(c)
        PROVE  (\A x \in Threads : ArmedFor(x)')
    <3>1. /\ call[c] \in Call /\ call[c].step = "send" /\ ShapeOf(call[c])
          /\ call[c].thread \in Threads
      <4>1. call[c].step = "send"
        BY <2>1 DEF CommitMessage
      <4> QED
        BY <4>1 DEF TypeInv, TypeOK, Shapes, ShapeOf, Idle
    <3>0. PICK t \in Threads : t = call[c].thread
      BY <3>1
    <3>2. CASE ~Live(t)
      <4>1. /\ \A d \in Callers : d # c => call'[d] = call[d]
            /\ UNCHANGED <<thread, job, told, mishaps>>
        BY <2>1, <3>0, <3>2, OthersStay DEF CommitMessage
      <4> QED
        BY <3>0, <3>1, <4>1, ArmingStays, ArmedStays DEF Looks, Waiting, Live
    <3>3. CASE Live(t)
      <4>1. /\ call'[c] = [call[c] EXCEPT !.step = "arm"]
            /\ \A d \in Callers : d # c => call'[d] = call[d]
            /\ job' = job /\ told' = told \ {t} /\ mishaps' = mishaps \ {t}
            /\ \A x \in Threads : x # t => thread'[x] = thread[x]
        BY <2>1, <3>0, <3>3, OthersStay DEF CommitMessage, TypeInv, TypeOK
      <4>2. Arming(t)'
        BY <3>0, <3>1, <4>1 DEF Arming, Call
      <4>3. \A x \in Threads : x # t => ArmedFor(x)'
        BY <3>0, <3>1, <4>1, ArmingStays, ArmedStays DEF Looks, Waiting, Live
      <4> QED
        BY <4>2, <4>3 DEF ArmedFor
    <3> QED
      BY <3>2, <3>3
  <2>2. ASSUME NEW c \in Callers, Arm(c)
        PROVE  (\A x \in Threads : ArmedFor(x)')
    <3>1. /\ call[c] \in Call /\ call[c].step = "arm" /\ ShapeOf(call[c])
          /\ call[c].thread \in Threads
      <4>1. call[c].step = "arm"
        BY <2>2 DEF Arm
      <4> QED
        BY <4>1 DEF TypeInv, TypeOK, Shapes, ShapeOf, Idle
    <3>0. PICK t \in Threads : t = call[c].thread
      BY <3>1
    <3>2. /\ \A d \in Callers : d # c => call'[d] = call[d]
          /\ UNCHANGED <<thread, told>> /\ mishaps \subseteq mishaps'
          /\ \A x \in Threads : x # t => job'[x] = job[x]
      BY <2>2, <3>0, OthersStay DEF Arm, TypeInv, TypeOK
    <3>3. \A x \in Threads : x # t => (Arming(x) => Arming(x)')
      BY <3>0, <3>2 DEF Arming
    <3>4. \A x \in Threads : x # t => ArmedFor(x)'
      BY <3>2, <3>3, ArmedStays DEF Looks, Waiting, Live
    <3>5. Looks(t)' \/ t \in mishaps'
      <4>1. CASE job[t].state = "none"
        <5>1. job'[t] = [NoJob EXCEPT !.state = "delayed"]
          BY <2>2, <3>0, <3>1, <4>1 DEF Arm, TypeInv, TypeOK
        <5> QED
          BY <5>1 DEF Looks, NoJob
      <4>2. CASE job[t].state # "none"
        <5>1. job'[t] = job[t]
          BY <2>2, <3>0, <4>2 DEF Arm
        <5>2. job[t].decided = "answered" => job[t].state = "active"
          BY <3>1 DEF JobShapes
        <5> QED
          BY <2>2, <3>0, <4>2, <5>1, <5>2 DEF Arm, Looks
      <4> QED
        BY <4>1, <4>2
    <3> QED
      BY <3>4, <3>5 DEF ArmedFor
  <2>3. ASSUME NEW c \in Callers, ReadOwner(c)
        PROVE  (\A x \in Threads : ArmedFor(x)')
    <3>1. /\ call[c] \in Call /\ call[c].step = "owner" /\ ShapeOf(call[c])
          /\ call[c].thread \in Threads
      <4>1. call[c].step = "owner"
        BY <2>3 DEF ReadOwner
      <4> QED
        BY <4>1 DEF TypeInv, TypeOK, Shapes, ShapeOf, Idle
    <3>2. /\ \A d \in Callers : d # c => call'[d] = call[d]
          /\ UNCHANGED <<job, told, mishaps>>
      BY <2>3, OthersStay DEF ReadOwner
    <3>3. \A x \in Threads : Waiting(x)' => Waiting(x)
      BY <2>3, <3>1, <3>2 DEF ReadOwner, Waiting, Live, TypeInv, TypeOK, Conversation
    <3> QED
      BY <3>1, <3>2, <3>3, ArmingStays, ArmedStays DEF Looks
  <2>4. ASSUME NEW c \in Callers, PickAssignee(c)
        PROVE  (\A x \in Threads : ArmedFor(x)')
    <3>1. /\ call[c] \in Call /\ call[c].step = "pick" /\ ShapeOf(call[c])
          /\ call[c].thread \in Threads
      <4>1. call[c].step = "pick"
        BY <2>4 DEF PickAssignee
      <4> QED
        BY <4>1 DEF TypeInv, TypeOK, Shapes, ShapeOf, Idle
    <3>2. /\ \A d \in Callers : d # c => call'[d] = call[d]
          /\ UNCHANGED <<thread, job, told, mishaps>>
      BY <2>4 DEF PickAssignee, Goto, TypeInv, TypeOK
    <3> QED
      BY <3>1, <3>2, ArmingStays, ArmedStays DEF Looks, Waiting, Live
  <2>5. ASSUME NEW c \in Callers, InsertThread(c)
        PROVE  (\A x \in Threads : ArmedFor(x)')
    <3>1. /\ call[c] \in Call /\ call[c].step = "insert" /\ ShapeOf(call[c])
          /\ call[c].thread \in Threads
      <4>1. call[c].step = "insert"
        BY <2>5 DEF InsertThread
      <4> QED
        BY <4>1 DEF TypeInv, TypeOK, Shapes, ShapeOf, Idle
    <3>0. PICK t \in Threads : t = call[c].thread
      BY <3>1
    <3>2. CASE Refused(call[c])
      <4>1. /\ \A d \in Callers : d # c => call'[d] = call[d]
            /\ UNCHANGED <<thread, job, told, mishaps>>
        BY <2>5, <3>0, <3>2, OthersStay DEF InsertThread
      <4> QED
        BY <3>0, <3>1, <4>1, ArmingStays, ArmedStays DEF Looks, Waiting, Live
    <3>3. CASE ~Refused(call[c])
      <4>1. /\ call'[c] = [call[c] EXCEPT !.step = "arm"]
            /\ \A d \in Callers : d # c => call'[d] = call[d]
            /\ UNCHANGED <<job, told, mishaps>>
            /\ \A x \in Threads : x # t => thread'[x] = thread[x]
        BY <2>5, <3>0, <3>3, OthersStay DEF InsertThread, TypeInv, TypeOK
      <4>2. Arming(t)'
        BY <3>0, <3>1, <4>1 DEF Arming, Call
      <4>3. \A x \in Threads : x # t => ArmedFor(x)'
        BY <3>0, <3>1, <4>1, ArmingStays, ArmedStays DEF Looks, Waiting, Live
      <4> QED
        BY <4>2, <4>3 DEF ArmedFor
    <3> QED
      BY <3>2, <3>3
  <2>6. ASSUME NEW c \in Callers, Route(c)
        PROVE  (\A x \in Threads : ArmedFor(x)')
    <3>1. /\ call[c] \in Call /\ call[c].step = "route" /\ ShapeOf(call[c])
          /\ call[c].thread \in Threads
      <4>1. call[c].step = "route"
        BY <2>6 DEF Route
      <4> QED
        BY <4>1 DEF TypeInv, TypeOK, Shapes, ShapeOf, Idle
    <3>2. /\ \A d \in Callers : d # c => call'[d] = call[d]
          /\ UNCHANGED <<job, told, mishaps>>
      BY <2>6, OthersStay DEF Route
    <3>3. \A x \in Threads : Waiting(x)' => Waiting(x)
      BY <2>6, <3>1, <3>2 DEF Route, Waiting, Live, TypeInv, TypeOK, Conversation
    <3> QED
      BY <3>1, <3>2, <3>3, ArmingStays, ArmedStays DEF Looks
  <2>7. ASSUME NEW c \in Callers, CommitReply(c)
        PROVE  (\A x \in Threads : ArmedFor(x)')
    <3>1. /\ call[c] \in Call /\ call[c].step = "reply" /\ ShapeOf(call[c])
          /\ call[c].thread \in Threads
      <4>1. call[c].step = "reply"
        BY <2>7 DEF CommitReply
      <4> QED
        BY <4>1 DEF TypeInv, TypeOK, Shapes, ShapeOf, Idle
    <3>2. /\ \A d \in Callers : d # c => call'[d] = call[d]
          /\ UNCHANGED <<job, told, mishaps>>
      BY <2>7, OthersStay DEF CommitReply
    <3>3. \A x \in Threads : Waiting(x)' => Waiting(x)
      <4> DEFINE t == call[c].thread
                 new == Newest(t, "AGENT", call[c].at)
      <4>1. /\ new \in Conversation /\ new.row = thread[t].row
            /\ (new.newest = "CUSTOMER" => thread[t].newest = "CUSTOMER")
        BY <3>1, NewestKeeps DEF TypeInv, Call
      <4>2. thread' = thread \/ thread' = [thread EXCEPT ![t] = [new EXCEPT !.status = "PENDING"]]
        BY <2>7 DEF CommitReply
      <4> HIDE DEF new, t
      <4>3. \A x \in Threads : /\ thread'[x].row = "live" => thread[x].row = "live"
                               /\ thread'[x].newest = "CUSTOMER" => thread[x].newest = "CUSTOMER"
        BY <4>1, <4>2 DEF TypeInv, TypeOK, Conversation
      <4> QED
        BY <3>2, <4>3 DEF Waiting, Live
    <3> QED
      BY <3>1, <3>2, <3>3, ArmingStays, ArmedStays DEF Looks
  <2>8. ASSUME NEW c \in Callers, CheckAgent(c)
        PROVE  (\A x \in Threads : ArmedFor(x)')
    <3>1. /\ call[c] \in Call /\ call[c].step = "check" /\ ShapeOf(call[c])
          /\ call[c].thread \in Threads
      <4>1. call[c].step = "check"
        BY <2>8 DEF CheckAgent
      <4> QED
        BY <4>1 DEF TypeInv, TypeOK, Shapes, ShapeOf, Idle
    <3>2. /\ \A d \in Callers : d # c => call'[d] = call[d]
          /\ UNCHANGED <<job, told, mishaps>>
      BY <2>8, OthersStay DEF CheckAgent
    <3>3. \A x \in Threads : Waiting(x)' => Waiting(x)
      BY <2>8, <3>1, <3>2 DEF CheckAgent, Waiting, Live, TypeInv, TypeOK, Conversation
    <3> QED
      BY <3>1, <3>2, <3>3, ArmingStays, ArmedStays DEF Looks
  <2>9. ASSUME NEW c \in Callers, WriteUpdate(c)
        PROVE  (\A x \in Threads : ArmedFor(x)')
    <3>1. /\ call[c] \in Call /\ call[c].step = "write" /\ ShapeOf(call[c])
          /\ call[c].thread \in Threads
      <4>1. call[c].step = "write"
        BY <2>9 DEF WriteUpdate
      <4> QED
        BY <4>1 DEF TypeInv, TypeOK, Shapes, ShapeOf, Idle
    <3>2. /\ \A d \in Callers : d # c => call'[d] = call[d]
          /\ UNCHANGED <<job, told, mishaps>>
      BY <2>9, OthersStay DEF WriteUpdate
    <3>3. \A x \in Threads : Waiting(x)' => Waiting(x)
      BY <2>9, <3>1, <3>2 DEF WriteUpdate, Waiting, Live, TypeInv, TypeOK, Conversation
    <3> QED
      BY <3>1, <3>2, <3>3, ArmingStays, ArmedStays DEF Looks
  <2>10. ASSUME NEW c \in Callers, ArmLost(c)
        PROVE  (\A x \in Threads : ArmedFor(x)')
    <3> DEFINE t == call[c].thread
    <3>1. /\ \A d \in Callers : d # c => call'[d] = call[d]
          /\ UNCHANGED <<thread, job, told>> /\ mishaps \subseteq mishaps'
          /\ call[c].step = "arm" => t \in mishaps'
      BY <2>10, OthersStay DEF ArmLost
    <3>2. \A x \in Threads : x \notin mishaps' => (Arming(x) => Arming(x)')
      BY <3>1 DEF Arming
    <3> QED
      BY <3>1, <3>2 DEF ArmedFor, Looks, Waiting, Live
  <2>11. ASSUME NEW c \in Callers, Crash(c)
        PROVE  (\A x \in Threads : ArmedFor(x)')
    <3> DEFINE t == call[c].thread
    <3>1. /\ \A d \in Callers : d # c => call'[d] = call[d]
          /\ UNCHANGED <<thread, job, told>> /\ mishaps \subseteq mishaps'
          /\ call[c].step = "arm" => t \in mishaps'
      BY <2>11, OthersStay DEF Crash
    <3>2. \A x \in Threads : x \notin mishaps' => (Arming(x) => Arming(x)')
      BY <3>1 DEF Arming
    <3> QED
      BY <3>1, <3>2 DEF ArmedFor, Looks, Waiting, Live
  <2>12. ASSUME NEW c \in Callers, NEW t \in Threads, BeginChat(c, t)
        PROVE  (\A x \in Threads : ArmedFor(x)')
    <3>1. /\ \A d \in Callers : d # c => call'[d] = call[d]
          /\ UNCHANGED <<thread, job, told, mishaps>> /\ call[c] = Idle
      BY <2>12 DEF BeginChat, Goto, TypeInv, TypeOK
    <3>2. call[c].step # "arm"
      BY <3>1 DEF Idle
    <3> QED
      BY <3>1, <3>2, ArmingStays, ArmedStays DEF Looks, Waiting, Live
  <2>13. ASSUME NEW c \in Callers, NEW t \in Threads, BeginMessage(c, t)
        PROVE  (\A x \in Threads : ArmedFor(x)')
    <3>1. /\ \A d \in Callers : d # c => call'[d] = call[d]
          /\ UNCHANGED <<thread, job, told, mishaps>> /\ call[c] = Idle
      BY <2>13 DEF BeginMessage, Goto, TypeInv, TypeOK
    <3>2. call[c].step # "arm"
      BY <3>1 DEF Idle
    <3> QED
      BY <3>1, <3>2, ArmingStays, ArmedStays DEF Looks, Waiting, Live
  <2>14. ASSUME NEW c \in Callers, NEW a \in Agents, NEW t \in Threads, BeginReply(c, a, t)
        PROVE  (\A x \in Threads : ArmedFor(x)')
    <3>1. /\ \A d \in Callers : d # c => call'[d] = call[d]
          /\ UNCHANGED <<thread, job, told, mishaps>> /\ call[c] = Idle
      BY <2>14 DEF BeginReply, Goto, TypeInv, TypeOK
    <3>2. call[c].step # "arm"
      BY <3>1 DEF Idle
    <3> QED
      BY <3>1, <3>2, ArmingStays, ArmedStays DEF Looks, Waiting, Live
  <2>15. ASSUME NEW c \in Callers, NEW a \in Agents, NEW t \in Threads, NEW u \in Updates, BeginUpdate(c, a, t, u[1], u[2])
        PROVE  (\A x \in Threads : ArmedFor(x)')
    <3>1. /\ \A d \in Callers : d # c => call'[d] = call[d]
          /\ UNCHANGED <<thread, job, told, mishaps>> /\ call[c] = Idle
      BY <2>15 DEF BeginUpdate, Goto, TypeInv, TypeOK
    <3>2. call[c].step # "arm"
      BY <3>1 DEF Idle
    <3> QED
      BY <3>1, <3>2, ArmingStays, ArmedStays DEF Looks, Waiting, Live
  <2>16. ASSUME NEW t \in Threads, Fire(t)
        PROVE  (\A x \in Threads : ArmedFor(x)')
    <3>1. \A x \in Threads : Looks(x) => Looks(x)'
      BY <2>16 DEF Fire, Looks, TypeInv, TypeOK, Job
    <3> QED
      BY <2>16, <3>1 DEF Fire, ArmedFor, Waiting, Live, Arming
  <2>17. ASSUME NEW t \in Threads, Decide(t)
        PROVE  (\A x \in Threads : ArmedFor(x)')
    <3>1. \A x \in Threads : x # t => job'[x] = job[x]
      BY <2>17 DEF Decide, TypeInv, TypeOK
    <3>2. Looks(t)' \/ ~Waiting(t)'
      BY <2>17 DEF Decide, Looks, Waiting, Live, TypeInv, TypeOK, Job
    <3> QED
      BY <2>17, <3>1, <3>2 DEF Decide, ArmedFor, Looks, Waiting, Live, Arming
  <2>18. ASSUME NEW t \in Threads, Tell(t)
        PROVE  (\A x \in Threads : ArmedFor(x)')
    <3>1. \A x \in Threads : x # t => job'[x] = job[x]
      BY <2>18 DEF Tell, RemoveJob, TypeInv, TypeOK
    <3> QED
      BY <2>18, <3>1 DEF Tell, ArmedFor, Looks, Waiting, Live, Arming
  <2>19. ASSUME NEW t \in Threads, Answered(t)
        PROVE  (\A x \in Threads : ArmedFor(x)')
    <3>1. \A x \in Threads : x # t => job'[x] = job[x]
      BY <2>19 DEF Answered, RemoveJob, TypeInv, TypeOK
    <3>2. ~Looks(t)
      BY <2>19 DEF Answered, Looks
    <3> QED
      BY <2>19, <3>1, <3>2 DEF Answered, ArmedFor, Looks, Waiting, Live, Arming
  <2>20. ASSUME NEW t \in Threads, FailJob(t)
        PROVE  (\A x \in Threads : ArmedFor(x)')
    <3>1. \A x \in Threads : x # t => job'[x] = job[x]
      BY <2>20 DEF FailJob, RemoveJob, TypeInv, TypeOK
    <3>2. Looks(t)' \/ t \in mishaps'
      BY <2>20 DEF FailJob, Looks, TypeInv, TypeOK, Job
    <3>3. mishaps \subseteq mishaps'
      BY <2>20 DEF FailJob
    <3> QED
      BY <2>20, <3>1, <3>2, <3>3 DEF FailJob, ArmedFor, Looks, Waiting, Live, Arming
  <2>21. ASSUME NEW t \in Threads, GoQuiet(t)
        PROVE  (\A x \in Threads : ArmedFor(x)')
    BY <2>21 DEF GoQuiet, ArmedFor, Looks, Waiting, Live, Arming
  <2>22. ASSUME NEW a \in Leavers, NEW s \in AgentState, ChangeAgent(a, s)
        PROVE  (\A x \in Threads : ArmedFor(x)')
    <3>1. \A x \in Threads : /\ thread'[x].row = thread[x].row
                             /\ thread'[x].newest = thread[x].newest
      BY <2>22 DEF ChangeAgent, TypeInv, TypeOK, Conversation
    <3> QED
      BY <2>22, <3>1 DEF ChangeAgent, ArmedFor, Looks, Waiting, Live, Arming
  <2>23. CASE PurgeExpired
    <3>1. \A x \in Threads : Waiting(x)' => Waiting(x)
      BY <2>23 DEF PurgeExpired, NoThread, Waiting, Live
    <3> QED
      BY <2>23, <3>1 DEF PurgeExpired, ArmedFor, Looks, Arming
  <2>24. CASE UNCHANGED vars
    BY <2>24 DEF vars, ArmedFor, Looks, Waiting, Live, Arming
  <2> QED
    BY <2>1, <2>2, <2>3, <2>4, <2>5, <2>6, <2>7, <2>8, <2>9, <2>10, <2>11, <2>12, <2>13, <2>14, <2>15, <2>16, <2>17, <2>18, <2>19, <2>20, <2>21, <2>22, <2>23, <2>24
    DEF Next, Begin, Proceed, Handoff
<1>3. WaitingIsArmed <=> \A x \in Threads : ArmedFor(x)
  BY DEF WaitingIsArmed, ArmedFor, Looks, Arming
<1>4. WaitingIsArmed' <=> \A x \in Threads : ArmedFor(x)'
  BY DEF WaitingIsArmed, ArmedFor, Looks, Arming
<1>5. TypeInv /\ JobShapes /\ WaitingIsArmed /\ [Next]_vars => WaitingIsArmed'
  BY <1>2, <1>3, <1>4
<1> QED
  BY <1>1, <1>5, TypesHold, JobsHold, PTL DEF Spec

\* What the router may not do in a step.
Keeps ==
  \A c \in Callers, t \in Threads :
    call[c].step = "route" /\ call'[c].step # "route" /\ thread[t].owner # None
      => thread'[t].owner = thread[t].owner

(***************************************************************************)
(* The router never takes a thread from whoever owns it by the time it     *)
(* writes (support.assignment.ts:210).                                     *)
(***************************************************************************)
THEOREM RoutingKeeps == Spec => RoutingKeepsOwners
<1> USE SupportAssumption
<1>2. TypeInv /\ [Next]_vars => Keeps
  <2> SUFFICES ASSUME TypeInv, [Next]_vars PROVE Keeps
    OBVIOUS
  <2>1. ASSUME NEW c \in Callers, CommitMessage(c)
        PROVE  Keeps
    <3>1. /\ \A d \in Callers : d # c => call'[d] = call[d]
          /\ call[c].step # "route"
      BY <2>1 DEF CommitMessage, Goto, TypeInv, TypeOK
    <3> QED
      BY <3>1 DEF Keeps
  <2>2. ASSUME NEW c \in Callers, Arm(c)
        PROVE  Keeps
    <3>1. /\ \A d \in Callers : d # c => call'[d] = call[d]
          /\ call[c].step # "route"
      BY <2>2 DEF Arm, Goto, TypeInv, TypeOK
    <3> QED
      BY <3>1 DEF Keeps
  <2>3. ASSUME NEW c \in Callers, ReadOwner(c)
        PROVE  Keeps
    <3>1. /\ \A d \in Callers : d # c => call'[d] = call[d]
          /\ call[c].step # "route"
      BY <2>3 DEF ReadOwner, Goto, TypeInv, TypeOK
    <3> QED
      BY <3>1 DEF Keeps
  <2>4. ASSUME NEW c \in Callers, PickAssignee(c)
        PROVE  Keeps
    <3>1. /\ \A d \in Callers : d # c => call'[d] = call[d]
          /\ call[c].step # "route"
      BY <2>4 DEF PickAssignee, Goto, TypeInv, TypeOK
    <3> QED
      BY <3>1 DEF Keeps
  <2>5. ASSUME NEW c \in Callers, InsertThread(c)
        PROVE  Keeps
    <3>1. /\ \A d \in Callers : d # c => call'[d] = call[d]
          /\ call[c].step # "route"
      BY <2>5 DEF InsertThread, Goto, TypeInv, TypeOK
    <3> QED
      BY <3>1 DEF Keeps
  <2>6. ASSUME NEW c \in Callers, Route(c)
        PROVE  Keeps
    <3>1. \A d \in Callers : d # c => call'[d] = call[d]
      BY <2>6, OthersStay DEF Route
    <3>2. \A x \in Threads : thread[x].owner # None => thread'[x].owner = thread[x].owner
      BY <2>6 DEF Route, StillUnowned, TypeInv, TypeOK
    <3> QED
      BY <3>1, <3>2 DEF Keeps
  <2>7. ASSUME NEW c \in Callers, CommitReply(c)
        PROVE  Keeps
    <3>1. /\ \A d \in Callers : d # c => call'[d] = call[d]
          /\ call[c].step # "route"
      BY <2>7 DEF CommitReply, Goto, TypeInv, TypeOK
    <3> QED
      BY <3>1 DEF Keeps
  <2>8. ASSUME NEW c \in Callers, CheckAgent(c)
        PROVE  Keeps
    <3>1. /\ \A d \in Callers : d # c => call'[d] = call[d]
          /\ call[c].step # "route"
      BY <2>8 DEF CheckAgent, Goto, TypeInv, TypeOK
    <3> QED
      BY <3>1 DEF Keeps
  <2>9. ASSUME NEW c \in Callers, WriteUpdate(c)
        PROVE  Keeps
    <3>1. /\ \A d \in Callers : d # c => call'[d] = call[d]
          /\ call[c].step # "route"
      BY <2>9 DEF WriteUpdate, Goto, TypeInv, TypeOK
    <3> QED
      BY <3>1 DEF Keeps
  <2>10. ASSUME NEW c \in Callers, ArmLost(c)
        PROVE  Keeps
    <3>1. /\ \A d \in Callers : d # c => call'[d] = call[d]
          /\ call[c].step # "route"
      BY <2>10 DEF ArmLost, Goto, TypeInv, TypeOK
    <3> QED
      BY <3>1 DEF Keeps
  <2>11. ASSUME NEW c \in Callers, Crash(c)
        PROVE  Keeps
    BY <2>11 DEF Crash, Keeps
  <2>12. ASSUME NEW c \in Callers, NEW t \in Threads, BeginChat(c, t)
        PROVE  Keeps
    <3>1. /\ \A d \in Callers : d # c => call'[d] = call[d]
          /\ UNCHANGED thread /\ call[c] = Idle
      BY <2>12 DEF BeginChat, Goto, TypeInv, TypeOK
    <3> QED
      BY <3>1 DEF Idle, Keeps
  <2>13. ASSUME NEW c \in Callers, NEW t \in Threads, BeginMessage(c, t)
        PROVE  Keeps
    <3>1. /\ \A d \in Callers : d # c => call'[d] = call[d]
          /\ UNCHANGED thread /\ call[c] = Idle
      BY <2>13 DEF BeginMessage, Goto, TypeInv, TypeOK
    <3> QED
      BY <3>1 DEF Idle, Keeps
  <2>14. ASSUME NEW c \in Callers, NEW a \in Agents, NEW t \in Threads, BeginReply(c, a, t)
        PROVE  Keeps
    <3>1. /\ \A d \in Callers : d # c => call'[d] = call[d]
          /\ UNCHANGED thread /\ call[c] = Idle
      BY <2>14 DEF BeginReply, Goto, TypeInv, TypeOK
    <3> QED
      BY <3>1 DEF Idle, Keeps
  <2>15. ASSUME NEW c \in Callers, NEW a \in Agents, NEW t \in Threads, NEW u \in Updates, BeginUpdate(c, a, t, u[1], u[2])
        PROVE  Keeps
    <3>1. /\ \A d \in Callers : d # c => call'[d] = call[d]
          /\ UNCHANGED thread /\ call[c] = Idle
      BY <2>15 DEF BeginUpdate, Goto, TypeInv, TypeOK
    <3> QED
      BY <3>1 DEF Idle, Keeps
  <2>16. ASSUME NEW t \in Threads, Fire(t)
        PROVE  Keeps
    BY <2>16 DEF Fire, Keeps
  <2>17. ASSUME NEW t \in Threads, Decide(t)
        PROVE  Keeps
    BY <2>17 DEF Decide, Keeps
  <2>18. ASSUME NEW t \in Threads, Tell(t)
        PROVE  Keeps
    BY <2>18 DEF Tell, Keeps
  <2>19. ASSUME NEW t \in Threads, Answered(t)
        PROVE  Keeps
    BY <2>19 DEF Answered, Keeps
  <2>20. ASSUME NEW t \in Threads, FailJob(t)
        PROVE  Keeps
    BY <2>20 DEF FailJob, Keeps
  <2>21. ASSUME NEW t \in Threads, GoQuiet(t)
        PROVE  Keeps
    BY <2>21 DEF GoQuiet, Keeps
  <2>22. ASSUME NEW a \in Leavers, NEW s \in AgentState, ChangeAgent(a, s)
        PROVE  Keeps
    BY <2>22 DEF ChangeAgent, Keeps
  <2>23. CASE PurgeExpired
    BY <2>23 DEF PurgeExpired, Keeps
  <2>24. CASE UNCHANGED vars
    BY <2>24 DEF vars, Keeps
  <2> QED
    BY <2>1, <2>2, <2>3, <2>4, <2>5, <2>6, <2>7, <2>8, <2>9, <2>10, <2>11, <2>12, <2>13, <2>14, <2>15, <2>16, <2>17, <2>18, <2>19, <2>20, <2>21, <2>22, <2>23, <2>24
    DEF Next, Begin, Proceed, Handoff
<1> QED
  BY <1>2, TypesHold, PTL DEF Spec, RoutingKeepsOwners, Keeps

\* A request that is opening a thread.
Entering(q) == q.new /\ q.step \in {"pick", "insert"}

\* A thread is opened by one request, and nothing else knows it before; a thread
\* about to be opened without an owner has its excuse.
Births ==
  /\ \A c \in Callers : Entering(call[c]) => thread[call[c].thread].row = "none"
  /\ \A c \in Callers : call[c] # Idle /\ ~Entering(call[c]) => thread[call[c].thread].row # "none"
  /\ \A c, d \in Callers :
       c # d /\ Entering(call[c]) /\ Entering(call[d]) => call[c].thread # call[d].thread
  /\ \A c \in Callers :
       call[c].step = "insert" /\ call[c].pick = None => call[c].thread \in excused
  /\ \A t \in quiet : thread[t].row # "none"

\* What is needed of a step of a request that opens no thread.
LEMMA BirthsStay ==
  ASSUME TypeInv, Births, NEW c \in Callers,
         \A d \in Callers : d # c => call'[d] = call[d],
         \A x \in Threads : thread'[x].row = "none" <=> thread[x].row = "none",
         \A x \in Threads : thread[x].row = "none" /\ x \in excused => x \in excused',
         \/ call'[c] = Idle
         \/ /\ ~Entering(call'[c]) /\ call'[c].step # "insert"
            /\ call'[c].thread \in Threads /\ thread[call'[c].thread].row # "none",
         quiet' \subseteq quiet
  PROVE  Births'
<1>1. ~Entering(call'[c]) /\ call'[c].step # "insert"
  BY DEF Entering, Idle
<1>2. \A d \in Callers : call[d].step = "insert" => Entering(call[d])
  BY DEF TypeInv, Shapes, ShapeOf, Entering
<1>3. \A d \in Callers : call[d] # Idle => call[d].thread \in Threads
  BY DEF TypeInv, TypeOK
<1>4. \A d \in Callers : Entering(call[d]) => call[d] # Idle
  BY DEF Entering, Idle
<1>5. \A d \in Callers : Entering(call'[d]) => d # c /\ Entering(call[d]) /\ call'[d] = call[d]
  BY <1>1
<1>6. \A d \in Callers : Entering(call'[d]) => thread'[call'[d].thread].row = "none"
  BY <1>3, <1>4, <1>5 DEF Births
<1>7. \A d \in Callers : call'[d] # Idle /\ ~Entering(call'[d]) => thread'[call'[d].thread].row # "none"
  <2> SUFFICES ASSUME NEW d \in Callers, call'[d] # Idle, ~Entering(call'[d])
               PROVE  thread'[call'[d].thread].row # "none"
    OBVIOUS
  <2>1. CASE d = c
    BY <2>1
  <2>2. CASE d # c
    BY <1>3, <2>2 DEF Births
  <2> QED
    BY <2>1, <2>2
<1>8. \A d, e \in Callers :
        d # e /\ Entering(call'[d]) /\ Entering(call'[e]) => call'[d].thread # call'[e].thread
  BY <1>5 DEF Births
<1>9. \A d \in Callers :
        call'[d].step = "insert" /\ call'[d].pick = None => call'[d].thread \in excused'
  <2> SUFFICES ASSUME NEW d \in Callers, call'[d].step = "insert", call'[d].pick = None
               PROVE  call'[d].thread \in excused'
    OBVIOUS
  <2>1. d # c /\ call'[d] = call[d]
    BY <1>1
  <2> QED
    BY <1>2, <1>3, <1>4, <2>1 DEF Births
<1>10. \A t \in quiet' : thread'[t].row # "none"
  BY SupportAssumption DEF Births, TypeInv, TypeOK
<1> QED
  BY <1>6, <1>7, <1>8, <1>9, <1>10 DEF Births, Entering

\* A request that opens no thread knows one that is there, or was.
LEMMA Known ==
  ASSUME TypeInv, Births, NEW c \in Callers,
         call[c].step \in {"send", "arm", "owner", "route", "reply", "check", "write"}
  PROVE  call[c].thread \in Threads /\ thread[call[c].thread].row # "none"
<1>1. call[c] # Idle /\ ~Entering(call[c])
  BY DEF Idle, Entering
<1> QED
  BY <1>1 DEF Births, TypeInv, TypeOK

(***************************************************************************)
(* A thread is opened by one request, and no other request knows it before *)
(* it is there.                                                            *)
(***************************************************************************)
THEOREM BirthsHold == Spec => []Births
<1> USE SupportAssumption
<1>1. Init => Births
  BY DEF Init, Births, Entering, Idle, NoThread
<1>2. TypeInv /\ Births /\ [Next]_vars => Births'
  <2> SUFFICES ASSUME TypeInv, Births, [Next]_vars PROVE Births'
    OBVIOUS
  <2>1. ASSUME NEW c \in Callers, CommitMessage(c)
        PROVE  Births'
    <3>1. /\ call[c] \in Call /\ call[c].step = "send" /\ ShapeOf(call[c])
          /\ call[c].thread \in Threads
      <4>1. call[c].step = "send"
        BY <2>1 DEF CommitMessage
      <4> QED
        BY <4>1 DEF TypeInv, TypeOK, Shapes, ShapeOf, Idle
    <3>2. call[c].thread \in Threads /\ thread[call[c].thread].row # "none"
      BY <3>1, Known
    <3>3. /\ \A d \in Callers : d # c => call'[d] = call[d]
          /\ quiet' \subseteq quiet /\ excused \subseteq excused'
      BY <2>1, OthersStay DEF CommitMessage
    <3>4. \/ call'[c] = Idle
          \/ /\ ~Entering(call'[c]) /\ call'[c].step # "insert"
             /\ call'[c].thread = call[c].thread
      BY <2>1, <3>1, OthersStay DEF CommitMessage, Idle, Entering, Call
    <3>5. \A x \in Threads : thread'[x].row = thread[x].row
      <4> DEFINE t == call[c].thread
                 new == Newest(t, "CUSTOMER", call[c].at)
      <4>1. new \in Conversation /\ new.row = thread[t].row
        BY <3>1, NewestKeeps DEF TypeInv, Call
      <4>2. thread' = thread \/ thread' = [thread EXCEPT ![t] = [new EXCEPT !.status = "OPEN"]]
        BY <2>1 DEF CommitMessage
      <4> HIDE DEF new, t
      <4> QED
        BY <4>1, <4>2 DEF TypeInv, TypeOK, Conversation
    <3> QED
      BY <3>2, <3>3, <3>4, <3>5, BirthsStay
  <2>2. ASSUME NEW c \in Callers, Arm(c)
        PROVE  Births'
    <3>1. /\ call[c] \in Call /\ call[c].step = "arm" /\ ShapeOf(call[c])
          /\ call[c].thread \in Threads
      <4>1. call[c].step = "arm"
        BY <2>2 DEF Arm
      <4> QED
        BY <4>1 DEF TypeInv, TypeOK, Shapes, ShapeOf, Idle
    <3>2. call[c].thread \in Threads /\ thread[call[c].thread].row # "none"
      BY <3>1, Known
    <3>3. /\ \A d \in Callers : d # c => call'[d] = call[d]
          /\ quiet' \subseteq quiet /\ excused \subseteq excused'
      BY <2>2, OthersStay DEF Arm
    <3>4. \/ call'[c] = Idle
          \/ /\ ~Entering(call'[c]) /\ call'[c].step # "insert"
             /\ call'[c].thread = call[c].thread
      BY <2>2, <3>1, OthersStay DEF Arm, AfterArm, Idle, Entering, Call
    <3>5. \A x \in Threads : thread'[x].row = thread[x].row
      BY <2>2, <3>1, <3>2 DEF Arm, TypeInv, TypeOK, Conversation
    <3> QED
      BY <3>2, <3>3, <3>4, <3>5, BirthsStay
  <2>3. ASSUME NEW c \in Callers, ReadOwner(c)
        PROVE  Births'
    <3>1. /\ call[c] \in Call /\ call[c].step = "owner" /\ ShapeOf(call[c])
          /\ call[c].thread \in Threads
      <4>1. call[c].step = "owner"
        BY <2>3 DEF ReadOwner
      <4> QED
        BY <4>1 DEF TypeInv, TypeOK, Shapes, ShapeOf, Idle
    <3>2. call[c].thread \in Threads /\ thread[call[c].thread].row # "none"
      BY <3>1, Known
    <3>3. /\ \A d \in Callers : d # c => call'[d] = call[d]
          /\ UNCHANGED <<thread, quiet, excused>>
      BY <2>3, OthersStay DEF ReadOwner
    <3>4. \/ call'[c] = Idle
          \/ call'[c] = [call[c] EXCEPT !.step = "pick"]
      BY <2>3, OthersStay DEF ReadOwner
    <3>5. ~call[c].new
      BY <3>1 DEF ShapeOf
    <3>6. \/ call'[c] = Idle
          \/ /\ ~Entering(call'[c]) /\ call'[c].step # "insert"
             /\ call'[c].thread = call[c].thread
      BY <3>1, <3>4, <3>5 DEF Entering, Call
    <3> QED
      BY <3>2, <3>3, <3>6, BirthsStay
  <2>4. ASSUME NEW c \in Callers, PickAssignee(c)
        PROVE  Births'
    <3>1. /\ call[c] \in Call /\ call[c].step = "pick" /\ ShapeOf(call[c])
          /\ call[c].thread \in Threads
      <4>1. call[c].step = "pick"
        BY <2>4 DEF PickAssignee
      <4> QED
        BY <4>1 DEF TypeInv, TypeOK, Shapes, ShapeOf, Idle
    <3>2. /\ \A d \in Callers : d # c => call'[d] = call[d]
          /\ UNCHANGED <<thread, quiet>> /\ excused \subseteq excused'
      BY <2>4, OthersStay DEF PickAssignee, Goto, TypeInv, TypeOK
    <3>3. \/ /\ ~call[c].new /\ (call'[c] = Idle \/ \E a \in Agents :
               call'[c] = [call[c] EXCEPT !.step = "route", !.pick = a])
          \/ /\ call[c].new /\ call[c].thread \in excused'
             /\ call'[c] = [call[c] EXCEPT !.step = "insert"]
          \/ /\ call[c].new
             /\ \E a \in Agents : call'[c] = [call[c] EXCEPT !.step = "insert", !.pick = a]
      <4>1. CASE Eligible = {}
        BY <2>4, <4>1, OthersStay DEF PickAssignee
      <4>2. CASE Eligible # {}
        <5>1. PICK a \in Agents :
                Goto(c, [call[c] EXCEPT !.step = IF call[c].new THEN "insert" ELSE "route", !.pick = a])
          BY <2>4, <4>2, SupportAssumption DEF PickAssignee, ChooseAgent, LeastLoaded, Eligible
        <5>2. call'[c] = [call[c] EXCEPT !.step = IF call[c].new THEN "insert" ELSE "route", !.pick = a]
          BY <5>1, OthersStay
        <5>3. CASE call[c].new
          BY <5>2, <5>3
        <5>4. CASE ~call[c].new
          BY <5>2, <5>4
        <5> QED
          BY <5>3, <5>4
      <4> QED
        BY <4>1, <4>2
    <3>4. CASE ~call[c].new
      <4>1. ~Entering(call[c]) /\ call[c] # Idle
        BY <3>1, <3>4 DEF Entering, Idle
      <4>2. thread[call[c].thread].row # "none"
        BY <4>1 DEF Births
      <4>3. \/ call'[c] = Idle
            \/ /\ ~Entering(call'[c]) /\ call'[c].step # "insert"
               /\ call'[c].thread = call[c].thread
        BY <3>1, <3>3, <3>4 DEF Entering, Call
      <4> QED
        BY <3>1, <3>2, <4>2, <4>3, BirthsStay
    <3>5. CASE call[c].new
      <4>1. Entering(call[c]) /\ call[c] # Idle
        BY <3>1, <3>5 DEF Entering, Idle
      <4>2. /\ call'[c].thread = call[c].thread /\ call'[c].new /\ call'[c].step = "insert"
            /\ call'[c].pick = None => call[c].thread \in excused'
        <5>1. CASE call'[c] = [call[c] EXCEPT !.step = "insert"] /\ call[c].thread \in excused'
          BY <3>1, <3>5, <5>1 DEF Call
        <5>2. CASE \E a \in Agents : call'[c] = [call[c] EXCEPT !.step = "insert", !.pick = a]
          <6>1. PICK a \in Agents : call'[c] = [call[c] EXCEPT !.step = "insert", !.pick = a]
            BY <5>2
          <6>2. a # None
            BY SupportAssumption
          <6> QED
            BY <3>1, <3>5, <6>1, <6>2 DEF Call
        <5> QED
          BY <3>3, <3>5, <5>1, <5>2
      <4>3. Entering(call'[c])
        BY <4>2 DEF Entering
      <4> QED
        BY <3>2, <4>1, <4>2, <4>3 DEF Births, Entering, TypeInv, TypeOK
    <3> QED
      BY <3>4, <3>5
  <2>5. ASSUME NEW c \in Callers, InsertThread(c)
        PROVE  Births'
    <3>1. /\ call[c] \in Call /\ call[c].step = "insert" /\ ShapeOf(call[c])
          /\ call[c].thread \in Threads
      <4>1. call[c].step = "insert"
        BY <2>5 DEF InsertThread
      <4> QED
        BY <4>1 DEF TypeInv, TypeOK, Shapes, ShapeOf, Idle
    <3>2. Entering(call[c]) /\ call[c] # Idle
      BY <3>1 DEF Entering, ShapeOf, Idle
    <3>3. CASE Refused(call[c])
      <4>1. /\ \A d \in Callers : d # c => call'[d] = call[d]
            /\ call'[c] = Idle /\ UNCHANGED <<thread, quiet, excused>>
        BY <2>5, <3>3, OthersStay DEF InsertThread
      <4> QED
        BY <4>1, BirthsStay
    <3>4. CASE ~Refused(call[c])
      <4>0. PICK t \in Threads : t = call[c].thread
        BY <3>1
      <4>1. /\ \A d \in Callers : d # c => call'[d] = call[d]
            /\ call'[c] = [call[c] EXCEPT !.step = "arm"]
            /\ UNCHANGED <<quiet, excused>>
            /\ thread' = [thread EXCEPT ![t] =
                           [NoThread EXCEPT !.row = "live", !.owner = call[c].pick, !.at = call[c].at]]
        BY <2>5, <4>0, <3>4, OthersStay DEF InsertThread
      <4>11. /\ thread'[t].row = "live"
             /\ \A x \in Threads : x # t => thread'[x] = thread[x]
        BY <4>1 DEF NoThread, TypeInv, TypeOK
      <4>2. ~Entering(call'[c]) /\ call'[c].thread = t /\ call'[c].step = "arm"
        BY <3>1, <4>0, <4>1 DEF Entering, Call
      <4>3. \A d \in Callers : d # c /\ Entering(call[d]) => call[d].thread # t
        BY <3>2, <4>0 DEF Births
      <4>4. \A d \in Callers : call[d] # Idle => call[d].thread \in Threads
        BY DEF TypeInv, TypeOK
      <4>5. \A d \in Callers : Entering(call[d]) => call[d] # Idle
        BY DEF Entering, Idle
      <4>6. \A d \in Callers : Entering(call'[d]) => thread'[call'[d].thread].row = "none"
        <5> SUFFICES ASSUME NEW d \in Callers, Entering(call'[d])
                     PROVE  thread'[call'[d].thread].row = "none"
          OBVIOUS
        <5>1. d # c /\ call'[d] = call[d]
          BY <4>1, <4>2
        <5> QED
          BY <4>3, <4>4, <4>5, <4>11, <5>1 DEF Births
      <4>7. \A d \in Callers : call'[d] # Idle /\ ~Entering(call'[d]) => thread'[call'[d].thread].row # "none"
        <5> SUFFICES ASSUME NEW d \in Callers, call'[d] # Idle, ~Entering(call'[d])
                     PROVE  thread'[call'[d].thread].row # "none"
          OBVIOUS
        <5>1. CASE d = c
          BY <4>2, <4>11, <5>1
        <5>2. CASE d # c
          BY <4>1, <4>4, <4>11, <5>2 DEF Births
        <5> QED
          BY <5>1, <5>2
      <4>8. \A d, e \in Callers :
              d # e /\ Entering(call'[d]) /\ Entering(call'[e]) => call'[d].thread # call'[e].thread
        BY <4>1, <4>2 DEF Births
      <4>9. \A d \in Callers :
              call'[d].step = "insert" /\ call'[d].pick = None => call'[d].thread \in excused'
        BY <4>1, <4>2 DEF Births
      <4>10. \A x \in quiet' : thread'[x].row # "none"
        BY <4>1, <4>11, SupportAssumption DEF Births, TypeInv, TypeOK
      <4> QED
        BY <4>6, <4>7, <4>8, <4>9, <4>10 DEF Births, Entering
    <3> QED
      BY <3>3, <3>4
  <2>6. ASSUME NEW c \in Callers, Route(c)
        PROVE  Births'
    <3>1. /\ call[c] \in Call /\ call[c].step = "route" /\ ShapeOf(call[c])
          /\ call[c].thread \in Threads
      <4>1. call[c].step = "route"
        BY <2>6 DEF Route
      <4> QED
        BY <4>1 DEF TypeInv, TypeOK, Shapes, ShapeOf, Idle
    <3>2. call[c].thread \in Threads /\ thread[call[c].thread].row # "none"
      BY <3>1, Known
    <3>3. /\ \A d \in Callers : d # c => call'[d] = call[d]
          /\ quiet' \subseteq quiet /\ excused \subseteq excused'
      BY <2>6, OthersStay DEF Route
    <3>4. \/ call'[c] = Idle
          \/ /\ ~Entering(call'[c]) /\ call'[c].step # "insert"
             /\ call'[c].thread = call[c].thread
      BY <2>6, <3>1, OthersStay DEF Route, Idle, Entering, Call
    <3>5. \A x \in Threads : thread'[x].row = thread[x].row
      BY <2>6, <3>1, <3>2 DEF Route, TypeInv, TypeOK, Conversation
    <3> QED
      BY <3>2, <3>3, <3>4, <3>5, BirthsStay
  <2>7. ASSUME NEW c \in Callers, CommitReply(c)
        PROVE  Births'
    <3>1. /\ call[c] \in Call /\ call[c].step = "reply" /\ ShapeOf(call[c])
          /\ call[c].thread \in Threads
      <4>1. call[c].step = "reply"
        BY <2>7 DEF CommitReply
      <4> QED
        BY <4>1 DEF TypeInv, TypeOK, Shapes, ShapeOf, Idle
    <3>2. call[c].thread \in Threads /\ thread[call[c].thread].row # "none"
      BY <3>1, Known
    <3>3. /\ \A d \in Callers : d # c => call'[d] = call[d]
          /\ quiet' \subseteq quiet /\ excused \subseteq excused'
      BY <2>7, OthersStay DEF CommitReply
    <3>4. \/ call'[c] = Idle
          \/ /\ ~Entering(call'[c]) /\ call'[c].step # "insert"
             /\ call'[c].thread = call[c].thread
      BY <2>7, <3>1, OthersStay DEF CommitReply, Idle, Entering, Call
    <3>5. \A x \in Threads : thread'[x].row = thread[x].row
      <4> DEFINE t == call[c].thread
                 new == Newest(t, "AGENT", call[c].at)
      <4>1. new \in Conversation /\ new.row = thread[t].row
        BY <3>1, NewestKeeps DEF TypeInv, Call
      <4>2. thread' = thread \/ thread' = [thread EXCEPT ![t] = [new EXCEPT !.status = "PENDING"]]
        BY <2>7 DEF CommitReply
      <4> HIDE DEF new, t
      <4> QED
        BY <4>1, <4>2 DEF TypeInv, TypeOK, Conversation
    <3> QED
      BY <3>2, <3>3, <3>4, <3>5, BirthsStay
  <2>8. ASSUME NEW c \in Callers, CheckAgent(c)
        PROVE  Births'
    <3>1. /\ call[c] \in Call /\ call[c].step = "check" /\ ShapeOf(call[c])
          /\ call[c].thread \in Threads
      <4>1. call[c].step = "check"
        BY <2>8 DEF CheckAgent
      <4> QED
        BY <4>1 DEF TypeInv, TypeOK, Shapes, ShapeOf, Idle
    <3>2. call[c].thread \in Threads /\ thread[call[c].thread].row # "none"
      BY <3>1, Known
    <3>3. /\ \A d \in Callers : d # c => call'[d] = call[d]
          /\ quiet' \subseteq quiet /\ excused \subseteq excused'
      BY <2>8, OthersStay DEF CheckAgent
    <3>4. \/ call'[c] = Idle
          \/ /\ ~Entering(call'[c]) /\ call'[c].step # "insert"
             /\ call'[c].thread = call[c].thread
      BY <2>8, <3>1, OthersStay DEF CheckAgent, Idle, Entering, Call
    <3>5. \A x \in Threads : thread'[x].row = thread[x].row
      BY <2>8, <3>1, <3>2 DEF CheckAgent, TypeInv, TypeOK, Conversation
    <3> QED
      BY <3>2, <3>3, <3>4, <3>5, BirthsStay
  <2>9. ASSUME NEW c \in Callers, WriteUpdate(c)
        PROVE  Births'
    <3>1. /\ call[c] \in Call /\ call[c].step = "write" /\ ShapeOf(call[c])
          /\ call[c].thread \in Threads
      <4>1. call[c].step = "write"
        BY <2>9 DEF WriteUpdate
      <4> QED
        BY <4>1 DEF TypeInv, TypeOK, Shapes, ShapeOf, Idle
    <3>2. call[c].thread \in Threads /\ thread[call[c].thread].row # "none"
      BY <3>1, Known
    <3>3. /\ \A d \in Callers : d # c => call'[d] = call[d]
          /\ quiet' \subseteq quiet /\ excused \subseteq excused'
      BY <2>9, OthersStay DEF WriteUpdate
    <3>4. \/ call'[c] = Idle
          \/ /\ ~Entering(call'[c]) /\ call'[c].step # "insert"
             /\ call'[c].thread = call[c].thread
      BY <2>9, <3>1, OthersStay DEF WriteUpdate, Idle, Entering, Call
    <3>5. \A x \in Threads : thread'[x].row = thread[x].row
      BY <2>9, <3>1, <3>2 DEF WriteUpdate, TypeInv, TypeOK, Conversation
    <3> QED
      BY <3>2, <3>3, <3>4, <3>5, BirthsStay
  <2>10. ASSUME NEW c \in Callers, ArmLost(c)
        PROVE  Births'
    <3>1. /\ call[c] \in Call /\ call[c].step = "arm" /\ ShapeOf(call[c])
          /\ call[c].thread \in Threads
      <4>1. call[c].step = "arm"
        BY <2>10 DEF ArmLost
      <4> QED
        BY <4>1 DEF TypeInv, TypeOK, Shapes, ShapeOf, Idle
    <3>2. call[c].thread \in Threads /\ thread[call[c].thread].row # "none"
      BY <3>1, Known
    <3>3. /\ \A d \in Callers : d # c => call'[d] = call[d]
          /\ quiet' \subseteq quiet /\ excused \subseteq excused'
      BY <2>10, OthersStay DEF ArmLost
    <3>4. \/ call'[c] = Idle
          \/ /\ ~Entering(call'[c]) /\ call'[c].step # "insert"
             /\ call'[c].thread = call[c].thread
      BY <2>10, <3>1, OthersStay DEF ArmLost, AfterArm, Idle, Entering, Call
    <3>5. \A x \in Threads : thread'[x].row = thread[x].row
      BY <2>10, <3>1, <3>2 DEF ArmLost, TypeInv, TypeOK, Conversation
    <3> QED
      BY <3>2, <3>3, <3>4, <3>5, BirthsStay
  <2>11. ASSUME NEW c \in Callers, Crash(c)
        PROVE  Births'
    <3>1. /\ \A d \in Callers : d # c => call'[d] = call[d]
          /\ call'[c] = Idle /\ UNCHANGED <<thread, quiet>> /\ excused \subseteq excused'
      BY <2>11, OthersStay DEF Crash
    <3> QED
      BY <3>1, BirthsStay
  <2>12. ASSUME NEW c \in Callers, NEW t \in Threads, BeginChat(c, t)
        PROVE  Births'
    <3>1. /\ call[c] = Idle /\ thread[t].row = "none"
          /\ \A d \in Callers : call[d].thread # t
          /\ UNCHANGED <<thread, quiet, excused>>
      BY <2>12 DEF BeginChat
    <3>2. /\ \A d \in Callers : d # c => call'[d] = call[d]
          /\ call'[c] = [Idle EXCEPT !.step = "pick", !.thread = t, !.new = TRUE, !.at = sent + 1]
      BY <2>12, OthersStay DEF BeginChat
    <3>3. Entering(call'[c]) /\ call'[c].thread = t /\ call'[c].step = "pick"
      BY <3>2 DEF Entering, Idle
    <3>4. \A d \in Callers : Entering(call'[d]) => thread'[call'[d].thread].row = "none"
      BY <3>1, <3>2, <3>3 DEF Births
    <3>5. \A d \in Callers : call'[d] # Idle /\ ~Entering(call'[d]) => thread'[call'[d].thread].row # "none"
      BY <3>1, <3>2, <3>3 DEF Births
    <3>6. \A d, e \in Callers :
            d # e /\ Entering(call'[d]) /\ Entering(call'[e]) => call'[d].thread # call'[e].thread
      <4> SUFFICES ASSUME NEW d \in Callers, NEW e \in Callers, d # e,
                          Entering(call'[d]), Entering(call'[e])
                   PROVE  call'[d].thread # call'[e].thread
        OBVIOUS
      <4>1. CASE d = c
        BY <3>1, <3>2, <3>3, <4>1
      <4>2. CASE e = c
        BY <3>1, <3>2, <3>3, <4>2
      <4>3. CASE d # c /\ e # c
        BY <3>2, <4>3 DEF Births
      <4> QED
        BY <4>1, <4>2, <4>3
    <3>7. \A d \in Callers :
            call'[d].step = "insert" /\ call'[d].pick = None => call'[d].thread \in excused'
      <4> SUFFICES ASSUME NEW d \in Callers, call'[d].step = "insert", call'[d].pick = None
                   PROVE  call'[d].thread \in excused'
        OBVIOUS
      <4>1. d # c
        BY <3>3
      <4> QED
        BY <3>1, <3>2, <4>1 DEF Births
    <3>8. \A x \in quiet' : thread'[x].row # "none"
      BY <3>1 DEF Births
    <3> QED
      BY <3>4, <3>5, <3>6, <3>7, <3>8 DEF Births, Entering
  <2>13. ASSUME NEW c \in Callers, NEW t \in Threads, BeginMessage(c, t)
        PROVE  Births'
    <3>1. /\ \A d \in Callers : d # c => call'[d] = call[d]
          /\ UNCHANGED <<thread, quiet>> /\ thread[t].row = "live"
          /\ excused \ {t} \subseteq excused'
      BY <2>13, OthersStay DEF BeginMessage, Sees, Live
    <3>2. call'[c] = [Idle EXCEPT !.step = "send", !.thread = t, !.at = sent + 1,
                                !.owner = IF t \in Guests THEN None ELSE thread[t].owner]
      BY <2>13, OthersStay DEF BeginMessage
    <3>3. ~call'[c].new /\ call'[c].step # "insert" /\ call'[c].thread = t
      BY <3>2 DEF Idle
    <3> QED
      BY <3>1, <3>3, BirthsStay DEF Entering
  <2>14. ASSUME NEW c \in Callers, NEW a \in Agents, NEW t \in Threads, BeginReply(c, a, t)
        PROVE  Births'
    <3>1. /\ \A d \in Callers : d # c => call'[d] = call[d]
          /\ UNCHANGED <<thread, quiet>> /\ thread[t].row = "live"
          /\ excused \ {t} \subseteq excused'
      BY <2>14, OthersStay DEF BeginReply, Sees, Live
    <3>2. call'[c] = [Idle EXCEPT !.step = "reply", !.thread = t, !.at = sent + 1]
      BY <2>14, OthersStay DEF BeginReply
    <3>3. ~call'[c].new /\ call'[c].step # "insert" /\ call'[c].thread = t
      BY <3>2 DEF Idle
    <3> QED
      BY <3>1, <3>3, BirthsStay DEF Entering
  <2>15. ASSUME NEW c \in Callers, NEW a \in Agents, NEW t \in Threads, NEW u \in Updates, BeginUpdate(c, a, t, u[1], u[2])
        PROVE  Births'
    <3>1. /\ \A d \in Callers : d # c => call'[d] = call[d]
          /\ UNCHANGED <<thread, quiet>> /\ thread[t].row = "live"
          /\ excused \ {t} \subseteq excused'
      BY <2>15, OthersStay DEF BeginUpdate, Sees, Live
    <3>2. call'[c] = [Idle EXCEPT !.step = IF u[1] \in Agents THEN "check" ELSE "write",
                                !.thread = t, !.pick = u[1], !.status = u[2]]
      BY <2>15, OthersStay DEF BeginUpdate
    <3>3. ~call'[c].new /\ call'[c].step # "insert" /\ call'[c].thread = t
      BY <3>2 DEF Idle
    <3> QED
      BY <3>1, <3>3, BirthsStay DEF Entering
  <2>16. ASSUME NEW t \in Threads, Fire(t)
        PROVE  Births'
    BY <2>16 DEF Fire, Births, Entering
  <2>17. ASSUME NEW t \in Threads, Decide(t)
        PROVE  Births'
    BY <2>17 DEF Decide, Births, Entering
  <2>18. ASSUME NEW t \in Threads, Tell(t)
        PROVE  Births'
    BY <2>18 DEF Tell, Births, Entering
  <2>19. ASSUME NEW t \in Threads, Answered(t)
        PROVE  Births'
    BY <2>19 DEF Answered, Births, Entering
  <2>20. ASSUME NEW t \in Threads, FailJob(t)
        PROVE  Births'
    BY <2>20 DEF FailJob, Births, Entering
  <2>21. ASSUME NEW t \in Threads, GoQuiet(t)
        PROVE  Births'
    BY <2>21 DEF GoQuiet, Live, Births, Entering
  <2>22. ASSUME NEW a \in Leavers, NEW s \in AgentState, ChangeAgent(a, s)
        PROVE  Births'
    <3>1. /\ \A x \in Threads : thread'[x].row = thread[x].row
          /\ excused \subseteq excused' /\ UNCHANGED <<call, quiet>>
      BY <2>22 DEF ChangeAgent, TypeInv, TypeOK, Conversation
    <3> QED
      BY <3>1 DEF Births, Entering, TypeInv, TypeOK, Idle
  <2>23. CASE PurgeExpired
    <3>1. /\ \A x \in Threads : x \in quiet => thread[x].row # "none" /\ thread'[x].row = "gone"
          /\ \A x \in Threads : x \notin quiet => thread'[x] = thread[x]
          /\ quiet' = {} /\ UNCHANGED <<call, excused>>
      BY <2>23 DEF PurgeExpired, NoThread, Births
    <3>2. \A d \in Callers : call[d] # Idle => call[d].thread \in Threads
      BY DEF TypeInv, TypeOK
    <3>3. \A d \in Callers : Entering(call[d]) => call[d] # Idle
      BY DEF Entering, Idle
    <3> QED
      BY <3>1, <3>2, <3>3 DEF Births, Entering
  <2>24. CASE UNCHANGED vars
    BY <2>24 DEF vars, Births, Entering
  <2> QED
    BY <2>1, <2>2, <2>3, <2>4, <2>5, <2>6, <2>7, <2>8, <2>9, <2>10, <2>11, <2>12, <2>13, <2>14, <2>15, <2>16, <2>17, <2>18, <2>19, <2>20, <2>21, <2>22, <2>23, <2>24
    DEF Next, Begin, Proceed, Handoff
<1> QED
  BY <1>1, <1>2, TypesHold, PTL DEF Spec

\* A request is going to give the thread an owner.
Routed(t) == \E c \in Callers : Routes(c, t)

Excused(t) == Live(t) /\ thread[t].owner = None /\ t \notin excused => Routed(t)

\* What is needed of the step of a request to leave a thread excused.
LEMMA ExcusedStays ==
  ASSUME NEW c \in Callers, \A d \in Callers : d # c => call'[d] = call[d],
         NEW x \in Threads, Excused(x), Routes(c, x) => Routes(c, x)',
         Live(x)' /\ thread'[x].owner = None => Live(x) /\ thread[x].owner = None,
         x \in excused => x \in excused'
  PROVE  Excused(x)'
<1>1. Routed(x) => Routed(x)'
  BY DEF Routed, Routes
<1> QED
  BY <1>1 DEF Excused

(***************************************************************************)
(* A thread that no agent owns is being routed, or nobody was to be had,   *)
(* its request failed, or it was left behind (support.assignment.ts:194).  *)
(***************************************************************************)
THEOREM OwnerlessIsExcusedInv == Spec => []OwnerlessIsExcused
<1> USE SupportAssumption
<1>1. Init => OwnerlessIsExcused
  BY DEF Init, OwnerlessIsExcused, Live, NoThread
<1>2. TypeInv /\ Births /\ (\A x \in Threads : Excused(x)) /\ [Next]_vars => (\A x \in Threads : Excused(x)')
  <2> SUFFICES ASSUME TypeInv, Births, (\A x \in Threads : Excused(x)), [Next]_vars PROVE (\A x \in Threads : Excused(x)')
    OBVIOUS
  <2>1. ASSUME NEW c \in Callers, CommitMessage(c)
        PROVE  (\A x \in Threads : Excused(x)')
    <3>1. /\ call[c] \in Call /\ call[c].step = "send" /\ ShapeOf(call[c])
          /\ call[c].thread \in Threads
      <4>1. call[c].step = "send"
        BY <2>1 DEF CommitMessage
      <4> QED
        BY <4>1 DEF TypeInv, TypeOK, Shapes, ShapeOf, Idle
    <3>2. /\ \A d \in Callers : d # c => call'[d] = call[d]
          /\ UNCHANGED excused
      BY <2>1, OthersStay DEF CommitMessage
    <3>3. \A x \in Threads : thread'[x].row = thread[x].row /\ thread'[x].owner = thread[x].owner
      <4> DEFINE t == call[c].thread
                 new == Newest(t, "CUSTOMER", call[c].at)
      <4>1. new \in Conversation /\ new.row = thread[t].row /\ new.owner = thread[t].owner
        BY <3>1, NewestKeeps DEF TypeInv, Call
      <4>2. thread' = thread \/ thread' = [thread EXCEPT ![t] = [new EXCEPT !.status = "OPEN"]]
        BY <2>1 DEF CommitMessage
      <4> HIDE DEF new, t
      <4> QED
        BY <4>1, <4>2 DEF TypeInv, TypeOK, Conversation
    <3>4. \A x \in Threads : Live(x) => (Routes(c, x) => Routes(c, x)')
      <4> SUFFICES ASSUME NEW x \in Threads, Live(x), Routes(c, x) PROVE Routes(c, x)'
        OBVIOUS
      <4>1. call'[c] = [call[c] EXCEPT !.step = "arm"]
        BY <2>1, OthersStay DEF CommitMessage, Routes
      <4> QED
        BY <3>1, <4>1 DEF Routes, Call
    <3>5. \A x \in Threads : ~Live(x) => Excused(x)'
      BY <3>3 DEF Excused, Live
    <3> QED
      BY <3>2, <3>3, <3>4, <3>5, ExcusedStays DEF Live
  <2>2. ASSUME NEW c \in Callers, Arm(c)
        PROVE  (\A x \in Threads : Excused(x)')
    <3>1. /\ call[c] \in Call /\ call[c].step = "arm" /\ ShapeOf(call[c])
          /\ call[c].thread \in Threads
      <4>1. call[c].step = "arm"
        BY <2>2 DEF Arm
      <4> QED
        BY <4>1 DEF TypeInv, TypeOK, Shapes, ShapeOf, Idle
    <3>2. /\ \A d \in Callers : d # c => call'[d] = call[d]
          /\ excused \subseteq excused'
      BY <2>2, OthersStay DEF Arm
    <3>3. \A x \in Threads : Routes(c, x) => Routes(c, x)'
      <4> SUFFICES ASSUME NEW x \in Threads, Routes(c, x) PROVE Routes(c, x)'
        OBVIOUS
      <4>1. AfterArm(call[c]) = [call[c] EXCEPT !.step = "owner"]
        BY DEF Routes, AfterArm
      <4>2. call'[c] = [call[c] EXCEPT !.step = "owner"]
        BY <2>2, <4>1, OthersStay DEF Arm
      <4> QED
        BY <3>1, <4>2 DEF Routes, Call
    <3>4. UNCHANGED thread
      BY <2>2 DEF Arm
    <3> QED
      BY <3>2, <3>3, <3>4, ExcusedStays DEF Live
  <2>3. ASSUME NEW c \in Callers, ReadOwner(c)
        PROVE  (\A x \in Threads : Excused(x)')
    <3>1. /\ call[c] \in Call /\ call[c].step = "owner" /\ ShapeOf(call[c])
          /\ call[c].thread \in Threads
      <4>1. call[c].step = "owner"
        BY <2>3 DEF ReadOwner
      <4> QED
        BY <4>1 DEF TypeInv, TypeOK, Shapes, ShapeOf, Idle
    <3>2. /\ \A d \in Callers : d # c => call'[d] = call[d]
          /\ excused \subseteq excused'
      BY <2>3, OthersStay DEF ReadOwner
    <3>3. \A x \in Threads : Live(x) /\ thread[x].owner = None => (Routes(c, x) => Routes(c, x)')
      <4> SUFFICES ASSUME NEW x \in Threads, Live(x), thread[x].owner = None, Routes(c, x)
                   PROVE  Routes(c, x)'
        OBVIOUS
      <4>1. call'[c] = [call[c] EXCEPT !.step = "pick"]
        BY <2>3, OthersStay DEF ReadOwner, Routes
      <4> QED
        BY <3>1, <4>1 DEF Routes, Call
    <3>4. UNCHANGED thread
      BY <2>3 DEF ReadOwner
    <3>5. \A x \in Threads : ~(Live(x) /\ thread[x].owner = None) => Excused(x)'
      BY <3>4 DEF Excused, Live
    <3> QED
      BY <3>2, <3>3, <3>4, <3>5, ExcusedStays DEF Live
  <2>4. ASSUME NEW c \in Callers, PickAssignee(c)
        PROVE  (\A x \in Threads : Excused(x)')
    <3>1. /\ call[c] \in Call /\ call[c].step = "pick" /\ ShapeOf(call[c])
          /\ call[c].thread \in Threads
      <4>1. call[c].step = "pick"
        BY <2>4 DEF PickAssignee
      <4> QED
        BY <4>1 DEF TypeInv, TypeOK, Shapes, ShapeOf, Idle
    <3>2. /\ \A d \in Callers : d # c => call'[d] = call[d]
          /\ UNCHANGED thread /\ excused \subseteq excused'
      BY <2>4, OthersStay DEF PickAssignee, Goto, TypeInv, TypeOK
    <3>3. CASE Eligible = {}
      <4>1. call[c].thread \in excused'
        BY <2>4, <3>3 DEF PickAssignee
      <4>2. \A x \in Threads : x # call[c].thread => ~Routes(c, x)
        BY DEF Routes
      <4> QED
        BY <3>2, <4>1, <4>2, ExcusedStays DEF Live, Excused
    <3>4. CASE Eligible # {}
      <4>1. PICK a \in Agents :
              Goto(c, [call[c] EXCEPT !.step = IF call[c].new THEN "insert" ELSE "route", !.pick = a])
        BY <2>4, <3>4, SupportAssumption DEF PickAssignee, ChooseAgent, LeastLoaded, Eligible
      <4>2. call'[c] = [call[c] EXCEPT !.step = IF call[c].new THEN "insert" ELSE "route", !.pick = a]
        BY <4>1, OthersStay
      <4>3. \A x \in Threads : Routes(c, x) => Routes(c, x)'
        BY <3>1, <4>2 DEF Routes, Call
      <4> QED
        BY <3>2, <4>3, ExcusedStays DEF Live
    <3> QED
      BY <3>3, <3>4
  <2>5. ASSUME NEW c \in Callers, InsertThread(c)
        PROVE  (\A x \in Threads : Excused(x)')
    <3>1. /\ call[c] \in Call /\ call[c].step = "insert" /\ ShapeOf(call[c])
          /\ call[c].thread \in Threads
      <4>1. call[c].step = "insert"
        BY <2>5 DEF InsertThread
      <4> QED
        BY <4>1 DEF TypeInv, TypeOK, Shapes, ShapeOf, Idle
    <3>2. /\ \A d \in Callers : d # c => call'[d] = call[d]
          /\ UNCHANGED excused
      BY <2>5, OthersStay DEF InsertThread
    <3>3. \A x \in Threads : ~Routes(c, x)
      BY <3>1 DEF Routes, ShapeOf
    <3>4. PICK t \in Threads : t = call[c].thread
      BY <3>1
    <3>5. \A x \in Threads : x # t => thread'[x] = thread[x]
      BY <2>5, <3>4 DEF InsertThread, TypeInv, TypeOK
    <3>6. \A x \in Threads : x # t => Excused(x)'
      BY <3>2, <3>3, <3>5, ExcusedStays DEF Live
    <3>7. CASE Refused(call[c])
      <4>1. UNCHANGED thread
        BY <2>5, <3>7 DEF InsertThread
      <4> QED
        BY <3>2, <3>3, <4>1, ExcusedStays DEF Live
    <3>8. CASE ~Refused(call[c])
      <4>0. thread' = [thread EXCEPT ![t] =
                         [NoThread EXCEPT !.row = "live", !.owner = call[c].pick, !.at = call[c].at]]
        BY <2>5, <3>4, <3>8 DEF InsertThread
      <4>1. thread'[t].owner = call[c].pick
        BY <4>0 DEF NoThread, TypeInv, TypeOK
      <4>2. call[c].pick = None => t \in excused'
        BY <3>1, <3>2, <3>4 DEF Births
      <4> QED
        BY <3>6, <4>1, <4>2 DEF Excused
    <3> QED
      BY <3>7, <3>8
  <2>6. ASSUME NEW c \in Callers, Route(c)
        PROVE  (\A x \in Threads : Excused(x)')
    <3>1. /\ call[c] \in Call /\ call[c].step = "route" /\ ShapeOf(call[c])
          /\ call[c].thread \in Threads
      <4>1. call[c].step = "route"
        BY <2>6 DEF Route
      <4> QED
        BY <4>1 DEF TypeInv, TypeOK, Shapes, ShapeOf, Idle
    <3>2. /\ \A d \in Callers : d # c => call'[d] = call[d]
          /\ excused \subseteq excused'
      BY <2>6, OthersStay DEF Route
    <3>3. PICK t \in Threads : t = call[c].thread
      BY <3>1
    <3>4. \A x \in Threads : x # t => thread'[x] = thread[x] /\ ~Routes(c, x)
      BY <2>6, <3>3 DEF Route, Routes, TypeInv, TypeOK
    <3>5. \A x \in Threads : x # t => Excused(x)'
      BY <3>2, <3>4, ExcusedStays DEF Live
    <3>6. CASE Refused(call[c])
      BY <2>6, <3>3, <3>5, <3>6 DEF Route, Excused
    <3>7. CASE ~Refused(call[c])
      <4>1. CASE StillUnowned(t)
        <5>1. thread'[t].owner = call[c].pick
          BY <2>6, <3>3, <3>7, <4>1 DEF Route, TypeInv, TypeOK, Conversation
        <5>2. call[c].pick # None
          BY <3>1, SupportAssumption DEF ShapeOf
        <5> QED
          BY <3>5, <5>1, <5>2 DEF Excused
      <4>2. CASE ~StillUnowned(t)
        <5>1. UNCHANGED thread
          BY <2>6, <3>3, <4>2 DEF Route
        <5>2. Excused(t)'
          BY <4>2, <5>1 DEF StillUnowned, Excused, Live
        <5> QED
          BY <3>5, <5>2
      <4> QED
        BY <4>1, <4>2
    <3> QED
      BY <3>6, <3>7
  <2>7. ASSUME NEW c \in Callers, CommitReply(c)
        PROVE  (\A x \in Threads : Excused(x)')
    <3>1. /\ call[c] \in Call /\ call[c].step = "reply" /\ ShapeOf(call[c])
          /\ call[c].thread \in Threads
      <4>1. call[c].step = "reply"
        BY <2>7 DEF CommitReply
      <4> QED
        BY <4>1 DEF TypeInv, TypeOK, Shapes, ShapeOf, Idle
    <3>2. /\ \A d \in Callers : d # c => call'[d] = call[d]
          /\ UNCHANGED excused
      BY <2>7, OthersStay DEF CommitReply
    <3>3. \A x \in Threads : thread'[x].row = thread[x].row /\ thread'[x].owner = thread[x].owner
      <4> DEFINE t == call[c].thread
                 new == Newest(t, "AGENT", call[c].at)
      <4>1. new \in Conversation /\ new.row = thread[t].row /\ new.owner = thread[t].owner
        BY <3>1, NewestKeeps DEF TypeInv, Call
      <4>2. thread' = thread \/ thread' = [thread EXCEPT ![t] = [new EXCEPT !.status = "PENDING"]]
        BY <2>7 DEF CommitReply
      <4> HIDE DEF new, t
      <4> QED
        BY <4>1, <4>2 DEF TypeInv, TypeOK, Conversation
    <3>4. \A x \in Threads : ~Routes(c, x)
      BY <3>1 DEF Routes
    <3> QED
      BY <3>2, <3>3, <3>4, ExcusedStays DEF Live
  <2>8. ASSUME NEW c \in Callers, CheckAgent(c)
        PROVE  (\A x \in Threads : Excused(x)')
    <3>1. /\ call[c] \in Call /\ call[c].step = "check" /\ ShapeOf(call[c])
          /\ call[c].thread \in Threads
      <4>1. call[c].step = "check"
        BY <2>8 DEF CheckAgent
      <4> QED
        BY <4>1 DEF TypeInv, TypeOK, Shapes, ShapeOf, Idle
    <3>2. /\ \A d \in Callers : d # c => call'[d] = call[d]
          /\ UNCHANGED <<thread, excused>>
      BY <2>8, OthersStay DEF CheckAgent
    <3>3. \A x \in Threads : ~Routes(c, x)
      BY <3>1 DEF Routes
    <3> QED
      BY <3>2, <3>3, ExcusedStays DEF Live
  <2>9. ASSUME NEW c \in Callers, WriteUpdate(c)
        PROVE  (\A x \in Threads : Excused(x)')
    <3>1. /\ call[c] \in Call /\ call[c].step = "write" /\ ShapeOf(call[c])
          /\ call[c].thread \in Threads
      <4>1. call[c].step = "write"
        BY <2>9 DEF WriteUpdate
      <4> QED
        BY <4>1 DEF TypeInv, TypeOK, Shapes, ShapeOf, Idle
    <3>2. /\ \A d \in Callers : d # c => call'[d] = call[d]
          /\ excused \subseteq excused'
      BY <2>9, OthersStay DEF WriteUpdate
    <3>3. \A x \in Threads : ~Routes(c, x)
      BY <3>1 DEF Routes
    <3>4. \A x \in Threads : /\ thread'[x].row = thread[x].row
                             /\ thread'[x].owner = None => thread[x].owner = None \/ x \in excused'
      BY <2>9, <3>1 DEF WriteUpdate, Live, TypeInv, TypeOK, Conversation
    <3>5. \A x \in Threads : x \in excused' => Excused(x)'
      BY DEF Excused
    <3> QED
      BY <3>2, <3>3, <3>4, <3>5, ExcusedStays DEF Live
  <2>10. ASSUME NEW c \in Callers, ArmLost(c)
        PROVE  (\A x \in Threads : Excused(x)')
    <3>1. /\ call[c] \in Call /\ call[c].step = "arm" /\ ShapeOf(call[c])
          /\ call[c].thread \in Threads
      <4>1. call[c].step = "arm"
        BY <2>10 DEF ArmLost
      <4> QED
        BY <4>1 DEF TypeInv, TypeOK, Shapes, ShapeOf, Idle
    <3>2. /\ \A d \in Callers : d # c => call'[d] = call[d]
          /\ excused \subseteq excused'
      BY <2>10, OthersStay DEF ArmLost
    <3>3. \A x \in Threads : Routes(c, x) => Routes(c, x)'
      <4> SUFFICES ASSUME NEW x \in Threads, Routes(c, x) PROVE Routes(c, x)'
        OBVIOUS
      <4>1. AfterArm(call[c]) = [call[c] EXCEPT !.step = "owner"]
        BY DEF Routes, AfterArm
      <4>2. call'[c] = [call[c] EXCEPT !.step = "owner"]
        BY <2>10, <4>1, OthersStay DEF ArmLost
      <4> QED
        BY <3>1, <4>2 DEF Routes, Call
    <3>4. UNCHANGED thread
      BY <2>10 DEF ArmLost
    <3> QED
      BY <3>2, <3>3, <3>4, ExcusedStays DEF Live
  <2>11. ASSUME NEW c \in Callers, Crash(c)
        PROVE  (\A x \in Threads : Excused(x)')
    <3>1. /\ \A d \in Callers : d # c => call'[d] = call[d]
          /\ UNCHANGED thread /\ excused' = excused \cup {call[c].thread}
      BY <2>11, OthersStay DEF Crash
    <3>2. \A x \in Threads : x # call[c].thread => ~Routes(c, x)
      BY DEF Routes
    <3>3. \A x \in Threads : x \in excused' => Excused(x)'
      BY DEF Excused
    <3> QED
      BY <3>1, <3>2, <3>3, ExcusedStays DEF Live
  <2>12. ASSUME NEW c \in Callers, NEW t \in Threads, BeginChat(c, t)
        PROVE  (\A x \in Threads : Excused(x)')
    <3>1. /\ \A d \in Callers : d # c => call'[d] = call[d]
          /\ UNCHANGED <<thread, excused>> /\ call[c] = Idle
      BY <2>12, OthersStay DEF BeginChat
    <3>2. \A x \in Threads : ~Routes(c, x)
      BY <3>1 DEF Routes, Idle
    <3> QED
      BY <3>1, <3>2, ExcusedStays DEF Live
  <2>13. ASSUME NEW c \in Callers, NEW t \in Threads, BeginMessage(c, t)
        PROVE  (\A x \in Threads : Excused(x)')
    <3> DEFINE owner == IF t \in Guests THEN None ELSE thread[t].owner
    <3>1. /\ \A d \in Callers : d # c => call'[d] = call[d]
          /\ call'[c] = [Idle EXCEPT !.step = "send", !.thread = t, !.at = sent + 1, !.owner = owner]
          /\ UNCHANGED thread /\ call[c] = Idle
          /\ excused' = IF owner = None THEN excused \ {t} ELSE excused
      BY <2>13, OthersStay DEF BeginMessage
    <3> HIDE DEF owner
    <3>2. \A x \in Threads : ~Routes(c, x)
      BY <3>1 DEF Routes, Idle
    <3>3. owner = None => Excused(t)'
      <4> SUFFICES ASSUME owner = None PROVE Routes(c, t)'
        BY DEF Excused, Routed
      <4> QED
        BY <3>1 DEF Routes, Idle
    <3> QED
      BY <3>1, <3>2, <3>3, ExcusedStays DEF Live
  <2>14. ASSUME NEW c \in Callers, NEW a \in Agents, NEW t \in Threads, BeginReply(c, a, t)
        PROVE  (\A x \in Threads : Excused(x)')
    <3>1. /\ \A d \in Callers : d # c => call'[d] = call[d]
          /\ UNCHANGED <<thread, excused>> /\ call[c] = Idle
      BY <2>14, OthersStay DEF BeginReply
    <3>2. \A x \in Threads : ~Routes(c, x)
      BY <3>1 DEF Routes, Idle
    <3> QED
      BY <3>1, <3>2, ExcusedStays DEF Live
  <2>15. ASSUME NEW c \in Callers, NEW a \in Agents, NEW t \in Threads, NEW u \in Updates, BeginUpdate(c, a, t, u[1], u[2])
        PROVE  (\A x \in Threads : Excused(x)')
    <3>1. /\ \A d \in Callers : d # c => call'[d] = call[d]
          /\ UNCHANGED <<thread, excused>> /\ call[c] = Idle
      BY <2>15, OthersStay DEF BeginUpdate
    <3>2. \A x \in Threads : ~Routes(c, x)
      BY <3>1 DEF Routes, Idle
    <3> QED
      BY <3>1, <3>2, ExcusedStays DEF Live
  <2>16. ASSUME NEW t \in Threads, Fire(t)
        PROVE  (\A x \in Threads : Excused(x)')
    BY <2>16 DEF Fire, Excused, Routed, Routes, Live
  <2>17. ASSUME NEW t \in Threads, Decide(t)
        PROVE  (\A x \in Threads : Excused(x)')
    BY <2>17 DEF Decide, Excused, Routed, Routes, Live
  <2>18. ASSUME NEW t \in Threads, Tell(t)
        PROVE  (\A x \in Threads : Excused(x)')
    BY <2>18 DEF Tell, Excused, Routed, Routes, Live
  <2>19. ASSUME NEW t \in Threads, Answered(t)
        PROVE  (\A x \in Threads : Excused(x)')
    BY <2>19 DEF Answered, Excused, Routed, Routes, Live
  <2>20. ASSUME NEW t \in Threads, FailJob(t)
        PROVE  (\A x \in Threads : Excused(x)')
    BY <2>20 DEF FailJob, Excused, Routed, Routes, Live
  <2>21. ASSUME NEW t \in Threads, GoQuiet(t)
        PROVE  (\A x \in Threads : Excused(x)')
    BY <2>21 DEF GoQuiet, Excused, Routed, Routes, Live
  <2>22. ASSUME NEW a \in Leavers, NEW s \in AgentState, ChangeAgent(a, s)
        PROVE  (\A x \in Threads : Excused(x)')
    <3>1. /\ \A x \in Threads :
               /\ thread'[x].row = thread[x].row
               /\ thread'[x].owner = None => thread[x].owner = None \/ x \in excused'
          /\ excused \subseteq excused' /\ UNCHANGED call
      BY <2>22 DEF ChangeAgent, TypeInv, TypeOK, Conversation
    <3> QED
      BY <3>1 DEF Excused, Routed, Routes, Live
  <2>23. CASE PurgeExpired
    <3>1. /\ \A x \in Threads : thread'[x] = thread[x] \/ thread'[x].row = "gone"
          /\ UNCHANGED <<call, excused>>
      BY <2>23 DEF PurgeExpired, NoThread
    <3> QED
      BY <3>1 DEF Excused, Routed, Routes, Live
  <2>24. CASE UNCHANGED vars
    BY <2>24 DEF vars, Excused, Routed, Routes, Live
  <2> QED
    BY <2>1, <2>2, <2>3, <2>4, <2>5, <2>6, <2>7, <2>8, <2>9, <2>10, <2>11, <2>12, <2>13, <2>14, <2>15, <2>16, <2>17, <2>18, <2>19, <2>20, <2>21, <2>22, <2>23, <2>24
    DEF Next, Begin, Proceed, Handoff
<1>3. OwnerlessIsExcused <=> \A x \in Threads : Excused(x)
  BY DEF OwnerlessIsExcused, Excused, Routed
<1>4. OwnerlessIsExcused' <=> \A x \in Threads : Excused(x)'
  BY DEF OwnerlessIsExcused, Excused, Routed
<1>5. TypeInv /\ Births /\ OwnerlessIsExcused /\ [Next]_vars => OwnerlessIsExcused'
  BY <1>2, <1>3, <1>4
<1> QED
  BY <1>1, <1>5, TypesHold, BirthsHold, PTL DEF Spec
=============================================================================
