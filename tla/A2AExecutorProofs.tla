------------------------- MODULE A2AExecutorProofs -------------------------
(***************************************************************************)
(* Theorems about A2AExecutor for any set of tasks and cancel requests,    *)
(* any number of turns and every kind of stream method.  The last parts    *)
(* are about /metrics (the drift between the counters and the queues) and  *)
(* about liveness.                                                         *)
(***************************************************************************)
EXTENDS A2AExecutor, FiniteSetTheorems, TLAPS

Metrics == [Counted \cup {"active"} -> Nat]

(* on_state_transition keeps every counter, and the gauge, a natural       *)
(* number: this is what max(0, ...) is for.                                *)
LEMMA TransitionType ==
  ASSUME NEW m \in Metrics, NEW old, NEW new
  PROVE  OnStateTransition(m, old, new) \in Metrics
BY DEF OnStateTransition, Metrics, Counted, ActiveStates

(* Putting an event on the queue of a task keeps the types of what the     *)
(* queue and the SDK's store are observed by.                              *)
LEMMA RecordType ==
  ASSUME TypeOK, NEW t, NEW e \in Events, RecordOn(t, e)
  PROVE  /\ published' \in [States -> Nat]
         /\ terminals' \in [Tasks -> Nat]
         /\ store' \in [Tasks -> {"absent", "open", "settled"}]
<1>1. published' \in [States -> Nat]
  BY DEF RecordOn, TypeOK
<1>2. terminals' \in [Tasks -> Nat]
  <2>1. terminals \in [Tasks -> Nat]
    BY DEF TypeOK
  <2>2. \/ terminals' = terminals
        \/ terminals' = [terminals EXCEPT ![t] = @ + 1]
    BY DEF RecordOn
  <2> QED BY <2>1, <2>2
<1>3. store' \in [Tasks -> {"absent", "open", "settled"}]
  BY DEF RecordOn, TypeOK
<1> QED BY <1>1, <1>2, <1>3

(* Every code of a module's error is reported as a status other than       *)
(* completed.                                                              *)
LEMMA StatusType == \A code \in Codes : StatusOf(code) \in Stops
BY DEF StatusOf, Codes, Stops, Outcomes, GovernanceRefusalCodes

(* The types are an invariant of the executor.                             *)
THEOREM TypeCorrect == Spec => []TypeOK
<1>1. Init => TypeOK
  BY DEF Init, TypeOK, PCs, Events, States, Outcomes, Binds, Counted
<1>2. TypeOK /\ [Next]_vars => TypeOK'
  <2> SUFFICES ASSUME TypeOK, [Next]_vars PROVE TypeOK'
    OBVIOUS
  <2> USE DEF TypeOK, Step, Leave, Notify, Register, Release,
              execVars, tokenVars, cancelVars, wireVars
  <2>0. metrics \in Metrics /\ \A t \in Tasks : ChunkEvent(t) \in Events
    BY DEF Metrics, ChunkEvent, Events, Chunks
  <2>e. /\ {"submitted", "failed", "whole", "end", "completed", "canceled"}
             \subseteq Events
        /\ Stops \subseteq Events
    BY DEF Events, Closers, Outcomes, Stops
  <2>p. Guarded \cup {"idle", "announce", "refusing"} = PCs
    BY DEF PCs
  <2>1. ASSUME NEW t \in Tasks, Start(t) PROVE TypeOK'
    BY <2>1, <2>e DEF Start, PCs
  <2>2. ASSUME NEW t \in Tasks, Publish(t) PROVE TypeOK'
    <3>1. pend[t] \in Events
      BY <2>2 DEF Publish
    <3> QED BY <2>2, <3>1, RecordType DEF Publish
  <2>3. ASSUME NEW t \in Tasks, Refuse(t) PROVE TypeOK'
    BY <2>3, <2>0, <2>e, TransitionType DEF Refuse, PCs, Metrics
  <2>4. ASSUME NEW t \in Tasks, LeaveRefused(t) PROVE TypeOK'
    BY <2>4 DEF LeaveRefused, PCs, Binds
  <2>5. ASSUME NEW t \in Tasks, Launch(t) PROVE TypeOK'
    <3>1. PICK b \in Binds : /\ bind' = [bind EXCEPT ![t] = b]
                              /\ cancelTokens' = Register(t, b)
      BY <2>5 DEF Launch
    <3>2. metrics' \in Metrics
      BY <2>5, <2>0, TransitionType DEF Launch
    <3> QED BY <2>5, <3>1, <3>2 DEF Launch, PCs, Guarded, Metrics
  <2>6. ASSUME NEW t \in Tasks, LaunchBroken(t) PROVE TypeOK'
    <3>1. PICK b \in Binds : /\ bind' = [bind EXCEPT ![t] = b]
                              /\ cancelTokens' = Register(t, b)
      BY <2>6 DEF LaunchBroken
    <3>2. OnStateTransition(metrics, "submitted", "working") \in Metrics
      BY <2>0, TransitionType
    <3>3. metrics' \in Metrics
      BY <2>6, <3>2, TransitionType DEF LaunchBroken
    <3>4. cancelTokens' \in [Tasks -> Nat] /\ bind' \in [Tasks -> Binds]
      BY <3>1
    <3>5. pc' \in [Tasks -> PCs] /\ pend' \in [Tasks -> Events \cup {"none"}]
      BY <2>6, <2>e DEF LaunchBroken, PCs, Guarded
    <3> QED BY <2>6, <3>3, <3>4, <3>5 DEF LaunchBroken, Metrics
  <2>7. ASSUME NEW t \in Tasks, Continue(t) PROVE TypeOK'
    BY <2>7 DEF Continue, PCs, Guarded
  <2>8. ASSUME NEW t \in Tasks, OutOfTime(t) PROVE TypeOK'
    BY <2>8, <2>0, <2>e, TransitionType DEF OutOfTime, PCs, Guarded, Metrics
  <2>9. ASSUME NEW t \in Tasks, Timeout(t) PROVE TypeOK'
    BY <2>9, <2>0, <2>e, TransitionType DEF Timeout, PCs, Guarded, Metrics
  <2>10. ASSUME NEW t \in Tasks, Complete(t) PROVE TypeOK'
    BY <2>10, <2>e DEF Complete, PCs, Guarded
  <2>11. ASSUME NEW t \in Tasks, Finish(t) PROVE TypeOK'
    BY <2>11, <2>0, TransitionType DEF Finish, PCs, Binds, Metrics
  <2>12. ASSUME NEW t \in Tasks, LeaveReported(t) PROVE TypeOK'
    BY <2>12 DEF LeaveReported, PCs, Binds
  <2>13. ASSUME NEW t \in Tasks, Return(t) \/ Yield(t) \/ StreamEnd(t)
         PROVE TypeOK'
    BY <2>13, <2>0, <2>e DEF Return, Yield, StreamEnd, PCs, Guarded
  <2>14. ASSUME NEW t \in Tasks, NEW code \in Codes, Raise(t, code)
         PROVE TypeOK'
    BY <2>14, <2>0, <2>e, TransitionType, StatusType
       DEF Raise, PCs, Guarded, Metrics
  <2>15. ASSUME NEW t \in Tasks, AsyncioCancel(t) PROVE TypeOK'
    BY <2>15 DEF AsyncioCancel, PCs, Binds
  <2>16. ASSUME NEW t \in Tasks, Expire(t) PROVE TypeOK'
    BY <2>16 DEF Expire
  <2>17. ASSUME NEW t \in Tasks, Settle(t) PROVE TypeOK'
    BY <2>17 DEF Settle
  <2>18. ASSUME NEW c \in Cancels, NEW t \in Tasks, Cancel(c, t) PROVE TypeOK'
    BY <2>18 DEF Cancel
  <2>19. ASSUME NEW c \in Cancels, PublishCanceled(c) PROVE TypeOK'
    BY <2>19, <2>e, RecordType DEF PublishCanceled
  <2>20. ASSUME NEW c \in Cancels, FinishCancel(c) PROVE TypeOK'
    BY <2>20, <2>0, TransitionType DEF FinishCancel, Metrics
  <2>21. ASSUME UNCHANGED vars PROVE TypeOK'
    BY <2>21 DEF vars
  <2>22. ASSUME NEW c \in Cancels, AbortCancel(c) PROVE TypeOK'
    BY <2>22 DEF AbortCancel
  <2> QED
    BY <2>1, <2>2, <2>3, <2>4, <2>5, <2>6, <2>7, <2>8, <2>9, <2>10, <2>11,
       <2>12, <2>13, <2>14, <2>15, <2>16, <2>17, <2>18, <2>19, <2>20, <2>21,
       <2>22
       DEF Next, Host, Module, CancelStep, Rest
<1> QED
  BY <1>1, <1>2, PTL DEF Spec

-----------------------------------------------------------------------------
(* The order of events *)

(* What execute(t) has put on the queue and is about to put there, at each *)
(* of its awaits.  This is the strengthening from which                    *)
(* AnsweredUnlessAborted, ChunksExtendTheirOwnTurn and ImplementsProtocol  *)
(* follow.  PutOr(t, before, e, after): either some event of e is pending  *)
(* and the last one was in before, or it is on the queue.                  *)
Streamed(t) == IF chunked[t] THEN Chunks ELSE {"submitted"}

PutOr(t, before, e, after) ==
  \/ pend[t] \in e /\ last[t] \in before
  \/ pend[t] = "none" /\ last[t] \in after

EventOrder ==
  \A t \in Tasks :
    /\ pc[t] = "idle"       => pend[t] = "none"
    /\ pc[t] = "announce"   => PutOr(t, {"silent"}, {"submitted"}, {"submitted"})
    /\ pc[t] = "refusing"   => PutOr(t, {"submitted"}, {"failed"}, {"failed"})
    /\ pc[t] = "call"       => pend[t] = "none" /\ last[t] \in Streamed(t)
    /\ pc[t] = "chunk"      => PutOr(t, Streamed(t), {ChunkEvent(t)}, Chunks)
    /\ pc[t] = "output"     => PutOr(t, Streamed(t), Closers, Closers)
    /\ pc[t] = "completing" => PutOr(t, Closers, {"completed"}, {"completed"})
    /\ pc[t] = "report"     => PutOr(t, {"submitted"} \cup Chunks, Stops, Stops)
    /\ pc[t] \in {"idle", "announce", "refusing"} => ~chunked[t]
    /\ chunked[t] \/ pc[t] = "chunk" => streamKind = "asyncgen"
    /\ pend[t] = "whole" => streamKind = "none"
    /\ pc[t] # "idle" => run[t] > 0
    /\ last[t] \in {"silent", "submitted"} => heads[t] = 0
    /\ last[t] \in Chunks => heads[t] = 1
    /\ heads[t] <= 1

(* At each await of execute(), what is on the queue and what is about to   *)
(* be put there: the invariant that carries the theorems below.            *)
THEOREM EventOrderInvariant == Spec => []EventOrder
<1>1. Init => EventOrder
  BY DEF Init, EventOrder, Guarded, Chunks
<1>2. TypeOK /\ EventOrder /\ [Next]_vars => EventOrder'
  <2> SUFFICES ASSUME TypeOK, EventOrder, [Next]_vars PROVE EventOrder'
    OBVIOUS
  <2> USE DEF TypeOK, EventOrder, PutOr, Streamed, ChunkEvent, Step, Leave,
              Chunks, Closers
  <2>1. ASSUME NEW t \in Tasks, Start(t) PROVE EventOrder'
    BY <2>1 DEF Start
  <2>2. ASSUME NEW t \in Tasks, Publish(t) PROVE EventOrder'
    BY <2>2 DEF Publish, PCs, Guarded, Stops, Outcomes
  <2>3. ASSUME NEW t \in Tasks, Refuse(t) PROVE EventOrder'
    BY <2>3 DEF Refuse
  <2>4. ASSUME NEW t \in Tasks, LeaveRefused(t) PROVE EventOrder'
    BY <2>4 DEF LeaveRefused
  <2>5. ASSUME NEW t \in Tasks, Launch(t) PROVE EventOrder'
    BY <2>5 DEF Launch
  <2>6. ASSUME NEW t \in Tasks, LaunchBroken(t) PROVE EventOrder'
    BY <2>6 DEF LaunchBroken, Stops, Outcomes
  <2>7. ASSUME NEW t \in Tasks, Continue(t) PROVE EventOrder'
    BY <2>7 DEF Continue
  <2>8. ASSUME NEW t \in Tasks, OutOfTime(t) PROVE EventOrder'
    BY <2>8 DEF OutOfTime, Stops, Outcomes
  <2>9. ASSUME NEW t \in Tasks, Timeout(t) PROVE EventOrder'
    BY <2>9 DEF Timeout, Stops, Outcomes
  <2>10. ASSUME NEW t \in Tasks, Complete(t) PROVE EventOrder'
    BY <2>10 DEF Complete
  <2>11. ASSUME NEW t \in Tasks, Finish(t) PROVE EventOrder'
    BY <2>11 DEF Finish
  <2>12. ASSUME NEW t \in Tasks, LeaveReported(t) PROVE EventOrder'
    BY <2>12 DEF LeaveReported
  <2>13. ASSUME NEW t \in Tasks, Return(t) \/ Yield(t) \/ StreamEnd(t)
         PROVE EventOrder'
    BY <2>13 DEF Return, Yield, StreamEnd
  <2>14. ASSUME NEW t \in Tasks, NEW code \in Codes, Raise(t, code)
         PROVE EventOrder'
    BY <2>14, StatusType DEF Raise, Stops, Outcomes
  <2>15. ASSUME NEW t \in Tasks, AsyncioCancel(t) PROVE EventOrder'
    BY <2>15 DEF AsyncioCancel
  <2>16. ASSUME NEW t \in Tasks, Expire(t) PROVE EventOrder'
    BY <2>16 DEF Expire
  <2>17. ASSUME NEW t \in Tasks, Settle(t) PROVE EventOrder'
    BY <2>17 DEF Settle, execVars
  <2>18. ASSUME NEW c \in Cancels, CancelStep(c) PROVE EventOrder'
    BY <2>18 DEF CancelStep, Cancel, PublishCanceled, FinishCancel, AbortCancel, execVars
  <2>19. ASSUME UNCHANGED vars PROVE EventOrder'
    BY <2>19 DEF vars, execVars
  <2> QED
    BY <2>1, <2>2, <2>3, <2>4, <2>5, <2>6, <2>7, <2>8, <2>9, <2>10, <2>11,
       <2>12, <2>13, <2>14, <2>15, <2>16, <2>17, <2>18, <2>19
       DEF Next, Host, Module, Rest
<1> QED
  BY <1>1, <1>2, TypeCorrect, PTL DEF Spec

(* An execution that asyncio did not cut short has answered when it is     *)
(* over.                                                                   *)
THEOREM AlwaysAnswered == Spec => []AnsweredUnlessAborted
<1>1. Init => AnsweredUnlessAborted
  BY DEF Init, AnsweredUnlessAborted
<1>2. TypeOK /\ EventOrder /\ AnsweredUnlessAborted /\ [Next]_vars
        => AnsweredUnlessAborted'
  <2> SUFFICES ASSUME TypeOK, EventOrder, AnsweredUnlessAborted, [Next]_vars
               PROVE  AnsweredUnlessAborted'
    OBVIOUS
  <2> USE DEF TypeOK, AnsweredUnlessAborted, Step, Leave
  <2>1. ASSUME NEW t \in Tasks, Start(t) PROVE AnsweredUnlessAborted'
    BY <2>1 DEF Start
  <2>2. ASSUME NEW t \in Tasks, Publish(t) PROVE AnsweredUnlessAborted'
    BY <2>2 DEF Publish, EventOrder
  <2>3. ASSUME NEW t \in Tasks,
               LeaveRefused(t) \/ Finish(t) \/ LeaveReported(t)
        PROVE  AnsweredUnlessAborted'
    <3>1. last[t] \in Outcomes
      BY <2>3 DEF LeaveRefused, Finish, LeaveReported, EventOrder, PutOr,
                  Stops, Outcomes
    <3> QED BY <2>3, <3>1 DEF LeaveRefused, Finish, LeaveReported
  <2>4. ASSUME NEW t \in Tasks, AsyncioCancel(t) PROVE AnsweredUnlessAborted'
    BY <2>4 DEF AsyncioCancel
  <2>5. ASSUME NEW t \in Tasks,
               \/ Refuse(t) \/ Launch(t) \/ LaunchBroken(t) \/ Continue(t)
               \/ OutOfTime(t) \/ Timeout(t) \/ Complete(t) \/ Module(t)
        PROVE  AnsweredUnlessAborted'
    BY <2>5 DEF Refuse, Launch, LaunchBroken, Continue, OutOfTime, Timeout,
                Complete, Module, Return, Yield, StreamEnd, Raise
  <2>6. ASSUME NEW t \in Tasks, Expire(t) \/ Settle(t)
        PROVE  AnsweredUnlessAborted'
    BY <2>6 DEF Expire, Settle, execVars
  <2>7. ASSUME NEW c \in Cancels, CancelStep(c) PROVE AnsweredUnlessAborted'
    BY <2>7 DEF CancelStep, Cancel, PublishCanceled, FinishCancel, AbortCancel, execVars
  <2>8. ASSUME UNCHANGED vars PROVE AnsweredUnlessAborted'
    BY <2>8 DEF vars, execVars
  <2> QED
    BY <2>1, <2>2, <2>3, <2>4, <2>5, <2>6, <2>7, <2>8 DEF Next, Host, Rest
<1> QED
  BY <1>1, <1>2, TypeCorrect, EventOrderInvariant, PTL DEF Spec

(* An execution starts the artifact of its task afresh at most once, and   *)
(* appends only to what it has started itself: within a turn no output is  *)
(* replaced, and no turn adds to the output of an earlier one.             *)
THEOREM NeverReplaced == Spec => []ChunksExtendTheirOwnTurn
<1>1. EventOrder => ChunksExtendTheirOwnTurn
  BY DEF EventOrder, ChunksExtendTheirOwnTurn, Chunks
<1> QED
  BY <1>1, EventOrderInvariant, PTL

-----------------------------------------------------------------------------
(* The token map *)

(* Nothing stays in _cancel_tokens once an execution is over.              *)
THEOREM NoLeak == Spec => []NoTokenLeak
<1>1. Init => NoTokenLeak
  BY DEF Init, NoTokenLeak
<1>2. TypeOK /\ NoTokenLeak /\ [Next]_vars => NoTokenLeak'
  <2> SUFFICES ASSUME TypeOK, NoTokenLeak, [Next]_vars PROVE NoTokenLeak'
    OBVIOUS
  <2> USE DEF TypeOK, NoTokenLeak, Guarded, Step, Leave, Register, Release,
              tokenVars
  <2>1. ASSUME NEW t \in Tasks, Start(t) \/ Publish(t) \/ Refuse(t)
        PROVE  NoTokenLeak'
    BY <2>1 DEF Start, Publish, Refuse
  <2>2. ASSUME NEW t \in Tasks, Launch(t) \/ LaunchBroken(t)
        PROVE  NoTokenLeak'
    BY <2>2 DEF Launch, LaunchBroken
  <2>3. ASSUME NEW t \in Tasks,
               \/ Continue(t) \/ OutOfTime(t) \/ Timeout(t) \/ Complete(t)
               \/ Module(t)
        PROVE  NoTokenLeak'
    BY <2>3 DEF Continue, OutOfTime, Timeout, Complete, Module, Return,
                Yield, StreamEnd, Raise
  <2>4. ASSUME NEW t \in Tasks,
               \/ LeaveRefused(t) \/ Finish(t) \/ LeaveReported(t)
               \/ AsyncioCancel(t)
        PROVE  NoTokenLeak'
    BY <2>4 DEF LeaveRefused, Finish, LeaveReported, AsyncioCancel
  <2>5. ASSUME NEW t \in Tasks, Expire(t) \/ Settle(t) PROVE NoTokenLeak'
    BY <2>5 DEF Expire, Settle, execVars
  <2>6. ASSUME NEW c \in Cancels, CancelStep(c) PROVE NoTokenLeak'
    BY <2>6 DEF CancelStep, Cancel, PublishCanceled, FinishCancel, AbortCancel, execVars
  <2>7. ASSUME UNCHANGED vars PROVE NoTokenLeak'
    BY <2>7 DEF vars, execVars
  <2> QED
    BY <2>1, <2>2, <2>3, <2>4, <2>5, <2>6, <2>7 DEF Next, Host, Rest
<1> QED
  BY <1>1, <1>2, TypeCorrect, PTL DEF Spec

(* While a module runs under a token, the token is in the map or called.   *)
THEOREM Reachable == Spec => []TokenReachable
<1>1. Init => TokenReachable
  BY DEF Init, TokenReachable, Guarded
<1>2. TypeOK /\ EventOrder /\ TokenReachable /\ [Next]_vars => TokenReachable'
  <2> SUFFICES ASSUME TypeOK, EventOrder, TokenReachable, [Next]_vars
               PROVE  TokenReachable'
    OBVIOUS
  <2> USE DEF TypeOK, TokenReachable, Guarded, Step, Leave, Register, Release,
              tokenVars
  <2>1. ASSUME NEW t \in Tasks, Start(t) \/ Publish(t) \/ Refuse(t)
        PROVE  TokenReachable'
    BY <2>1 DEF Start, Publish, Refuse
  <2>2. ASSUME NEW t \in Tasks, Launch(t) \/ LaunchBroken(t)
        PROVE  TokenReachable'
    BY <2>2 DEF Launch, LaunchBroken
  <2>3. ASSUME NEW t \in Tasks,
               \/ Continue(t) \/ OutOfTime(t) \/ Timeout(t) \/ Complete(t)
               \/ Module(t)
        PROVE  TokenReachable'
    BY <2>3 DEF Continue, OutOfTime, Timeout, Complete, Module, Return,
                Yield, StreamEnd, Raise
  <2>4. ASSUME NEW t \in Tasks,
               \/ LeaveRefused(t) \/ Finish(t) \/ LeaveReported(t)
               \/ AsyncioCancel(t)
        PROVE  TokenReachable'
    BY <2>4 DEF LeaveRefused, Finish, LeaveReported, AsyncioCancel
  <2>5. ASSUME NEW t \in Tasks, Expire(t) \/ Settle(t) PROVE TokenReachable'
    BY <2>5 DEF Expire, Settle, execVars
  <2>6. ASSUME NEW c \in Cancels, NEW t \in Tasks, Cancel(c, t)
        PROVE  TokenReachable'
    <3>1. pc[t] # "idle" => run[t] > 0
      BY DEF EventOrder
    <3> QED BY <2>6, <3>1 DEF Cancel, execVars
  <2>7. ASSUME NEW c \in Cancels, PublishCanceled(c) \/ FinishCancel(c) \/ AbortCancel(c)
        PROVE  TokenReachable'
    BY <2>7 DEF PublishCanceled, FinishCancel, AbortCancel, execVars
  <2>8. ASSUME UNCHANGED vars PROVE TokenReachable'
    BY <2>8 DEF vars, execVars
  <2> QED
    BY <2>1, <2>2, <2>3, <2>4, <2>5, <2>6, <2>7, <2>8
       DEF Next, Host, CancelStep, Rest
<1> QED
  BY <1>1, <1>2, TypeCorrect, EventOrderInvariant, PTL DEF Spec

(* cancel() signals only the execution in flight when it is called.        *)
THEOREM CancelPrecise == Spec => CancelHitsOnlyTheCurrentRun
<1>1. TypeOK /\ NoTokenLeak /\ [Next]_vars
        => [\A x \in signalled' \ signalled :
              pc[x[1]] \in Guarded /\ run[x[1]] = x[2]]_vars
  <2> SUFFICES ASSUME TypeOK, NoTokenLeak, Next, NEW x \in signalled' \ signalled
               PROVE  pc[x[1]] \in Guarded /\ run[x[1]] = x[2]
    OBVIOUS
  <2>1. PICK c \in Cancels, t \in Tasks : Cancel(c, t)
    <3>1. ASSUME NEW t \in Tasks,
                 Host(t) \/ Module(t) \/ AsyncioCancel(t)
          PROVE  signalled' = signalled
      BY <3>1 DEF Host, Module, tokenVars, Publish, Refuse, LeaveRefused,
                  Launch, LaunchBroken, Return, Yield, Continue, OutOfTime,
                  StreamEnd, Complete, Raise, Timeout, Finish, LeaveReported,
                  AsyncioCancel
    <3>2. ASSUME NEW t \in Tasks, Start(t) \/ Expire(t) \/ Settle(t)
          PROVE  signalled' = signalled
      BY <3>2 DEF Start, Expire, Settle, tokenVars
    <3>3. ASSUME NEW c \in Cancels, PublishCanceled(c) \/ FinishCancel(c) \/ AbortCancel(c)
          PROVE  signalled' = signalled
      BY <3>3 DEF PublishCanceled, FinishCancel, AbortCancel, tokenVars
    <3> QED BY <3>1, <3>2, <3>3 DEF Next, CancelStep, Rest, vars, tokenVars
  <2>2. cancelTokens[t] # 0 /\ x = <<t, cancelTokens[t]>>
    BY <2>1 DEF Cancel
  <2> QED BY <2>2 DEF NoTokenLeak
<1> QED
  BY <1>1, TypeCorrect, NoLeak, PTL DEF Spec, CancelHitsOnlyTheCurrentRun

-----------------------------------------------------------------------------
(* Refinement of the protocol of one execution *)

phaseBar == [t \in Tasks |-> PhaseOf(last[t])]

(* Where an event takes the turn of its task.                              *)
LEMMA PhaseOfEvent ==
  /\ PhaseOf("silent") = "silent"
  /\ PhaseOf("submitted") = "open"
  /\ \A e \in Chunks : PhaseOf(e) = "streaming"
  /\ \A e \in Closers : PhaseOf(e) = "sealed"
  /\ PhaseOf("completed") = "completed"
  /\ \A e \in Stops : PhaseOf(e) = "stopped"
BY DEF PhaseOf, Chunks, Closers, Stops, Outcomes

(* An execution enqueues its events in the order the protocol allows.      *)
LEMMA PublishFollowsProtocol ==
  ASSUME TypeOK, EventOrder, NEW t \in Tasks, Publish(t)
  PROVE  [Protocol!Next]_phaseBar
<1> DEFINE from == PhaseOf(last[t])
           to   == PhaseOf(pend[t])
<1>1. /\ phaseBar[t] = from
      /\ phaseBar' = [phaseBar EXCEPT ![t] = to]
  BY DEF phaseBar, TypeOK, Publish
<1>2. pend[t] # "none" /\ pc[t] \in PCs
  BY DEF TypeOK, Publish
<1>3. last[t] \in Streamed(t) => from \in {"open", "streaming"}
  BY PhaseOfEvent DEF Streamed
<1>4. \/ from = "silent" /\ to = "open"
      \/ from \in {"open", "streaming"} /\ to \in {"streaming", "sealed", "stopped"}
      \/ from = "sealed" /\ to = "completed"
  <2>1. CASE pc[t] = "idle" \/ pc[t] = "call"
    BY <2>1, <1>2 DEF EventOrder
  <2>2. CASE pc[t] = "announce"
    BY <2>2, <1>2, PhaseOfEvent DEF EventOrder, PutOr
  <2>3. CASE pc[t] = "refusing"
    BY <2>3, <1>2, PhaseOfEvent DEF EventOrder, PutOr, Stops, Outcomes
  <2>4. CASE pc[t] = "chunk"
    <3>1. pend[t] \in Chunks /\ last[t] \in Streamed(t)
      BY <2>4, <1>2 DEF EventOrder, PutOr, ChunkEvent, Chunks
    <3> QED BY <3>1, <1>3, PhaseOfEvent
  <2>5. CASE pc[t] = "output"
    <3>1. pend[t] \in Closers /\ last[t] \in Streamed(t)
      BY <2>5, <1>2 DEF EventOrder, PutOr
    <3> QED BY <3>1, <1>3, PhaseOfEvent
  <2>6. CASE pc[t] = "completing"
    BY <2>6, <1>2, PhaseOfEvent DEF EventOrder, PutOr
  <2>7. CASE pc[t] = "report"
    BY <2>7, <1>2, PhaseOfEvent DEF EventOrder, PutOr
  <2> QED
    BY <1>2, <2>1, <2>2, <2>3, <2>4, <2>5, <2>6, <2>7 DEF PCs, Guarded
<1>5. Protocol!Next \/ UNCHANGED phaseBar
  <2>1. CASE from = "streaming" /\ to = "streaming"
    BY <1>1, <2>1 DEF phaseBar
  <2>2. CASE ~(from = "streaming" /\ to = "streaming")
    BY <1>1, <1>4, <2>2
       DEF phaseBar, Protocol!Next, Protocol!Announce, Protocol!Stream,
           Protocol!Seal, Protocol!Complete, Protocol!Stop, Protocol!Move
  <2> QED BY <2>1, <2>2
<1> QED BY <1>5

(* The executor implements the protocol of ExecutionProtocol: every        *)
(* behaviour, seen through the last event of each execution, is one the    *)
(* protocol allows.                                                        *)
THEOREM Implementation == Spec => ImplementsProtocol
<1>1. Init => Protocol!Init
  BY PhaseOfEvent DEF Init, Protocol!Init
<1>2. TypeOK /\ EventOrder /\ [Next]_vars => [Protocol!Next]_phaseBar
  <2> SUFFICES ASSUME TypeOK, EventOrder, [Next]_vars
               PROVE  [Protocol!Next]_phaseBar
    OBVIOUS
  <2>1. ASSUME NEW t \in Tasks, Start(t) PROVE [Protocol!Next]_phaseBar
    <3>1. /\ phaseBar[t] \in Protocol!Phases
          /\ phaseBar' = [phaseBar EXCEPT ![t] = "silent"]
      BY <2>1, PhaseOfEvent DEF Start, TypeOK, phaseBar, Protocol!Phases, PhaseOf
    <3> QED BY <3>1 DEF phaseBar, Protocol!Next, Protocol!Begin, Protocol!Move
  <2>2. ASSUME NEW t \in Tasks, Publish(t) PROVE [Protocol!Next]_phaseBar
    BY <2>2, PublishFollowsProtocol
  <2>3. ASSUME UNCHANGED last PROVE [Protocol!Next]_phaseBar
    BY <2>3 DEF phaseBar
  <2>4. \/ \E t \in Tasks : Start(t) \/ Publish(t)
        \/ UNCHANGED last
    BY DEF Next, Host, Module, CancelStep, Rest, vars, execVars, Leave,
           Refuse, LeaveRefused, Launch, LaunchBroken, Return, Yield,
           Continue, OutOfTime, StreamEnd, Complete, Raise, Timeout, Finish,
           LeaveReported, AsyncioCancel, Expire, Settle, Cancel,
           PublishCanceled, FinishCancel, AbortCancel
  <2> QED BY <2>1, <2>2, <2>3, <2>4
<1>3. Spec => []TypeOK /\ []EventOrder
  BY TypeCorrect, EventOrderInvariant, PTL
<1> QED
  BY <1>1, <1>2, <1>3, PTL DEF Spec, ImplementsProtocol, Protocol!Spec, phaseBar
-----------------------------------------------------------------------------
(***************************************************************************)
(* /metrics agrees with the queues, for any number of tasks, turns and     *)
(* cancel requests.                                                        *)
(*                                                                         *)
(* A failure is counted before its status is enqueued, a completion and a  *)
(* cancel after: at any moment the counters and the queues differ by the   *)
(* executions and cancels that are between the two (Early, Late, Waiting)  *)
(* and by at most one for each execution, and for each cancel between the  *)
(* queue and the counter, that asyncio has cut short.  At rest nothing is  *)
(* in between.                                                             *)
(***************************************************************************)

(* Counted and not yet on the queue; on the queue and not yet counted. *)
Early(o) == {t \in Tasks : pc[t] \in {"refusing", "report"} /\ pend[t] = o}
Late(o) == {t \in Tasks : o = "completed" /\ pc[t] = "completing" /\ pend[t] = "none"}
Waiting(o) == {c \in Cancels : o = "canceled" /\ cpc[c] = "notify"}

(* What asyncio has cut short. *)
AbortedRuns == {x \in Tasks \X (1 .. MaxRuns) : x[2] \in aborted[x[1]]}
CutCancels == {c \in Cancels : cpc[c] = "uncounted"}

Counts(o) == metrics[o] + Cardinality(Late(o)) + Cardinality(Waiting(o))
Shown(o) == published[o] + Cardinality(Early(o))

DriftIsBounded ==
  \A o \in Counted : /\ Counts(o) <= Shown(o) + Aborts
                     /\ Shown(o) <= Counts(o) + Aborts

(* A run is aborted at most once, and only while it is the current one. *)
RunsAbortOnce ==
  \A t \in Tasks : /\ run[t] <= MaxRuns
                   /\ pc[t] # "idle" => run[t] \notin aborted[t]
                   /\ \A r \in aborted[t] : r <= run[t]

Ind(b) == IF b THEN 1 ELSE 0

-----------------------------------------------------------------------------

(* Sets that differ at one element at most. *)
LEMMA CardinalityAt ==
  ASSUME NEW T, IsFiniteSet(T), NEW S \in SUBSET T, NEW R \in SUBSET T, NEW t \in T,
         \A x \in T \ {t} : x \in R <=> x \in S
  PROVE  /\ Cardinality(S) \in Nat /\ Cardinality(R) \in Nat
         /\ Cardinality(R) = Cardinality(S) - Ind(t \in S) + Ind(t \in R)
<1>1. IsFiniteSet(S) /\ IsFiniteSet(R) /\ Cardinality(S) \in Nat /\ Cardinality(R) \in Nat
  BY FS_Subset, FS_CardinalityType
<1>2. CASE t \in S <=> t \in R
  <2>1. S = R
    BY <1>2
  <2>2. QED
    BY <1>1, <2>1 DEF Ind
<1>3. CASE t \in S /\ t \notin R
  <2>1. R = S \ {t}
    BY <1>3
  <2>2. Cardinality(R) = Cardinality(S) - 1
    BY <1>1, <1>3, <2>1, FS_RemoveElement
  <2>3. QED
    BY <1>1, <1>3, <2>2 DEF Ind
<1>4. CASE t \notin S /\ t \in R
  <2>1. R = S \cup {t}
    BY <1>4
  <2>2. Cardinality(R) = Cardinality(S) + 1
    BY <1>1, <1>4, <2>1, FS_AddElement
  <2>3. QED
    BY <1>1, <1>4, <2>2 DEF Ind
<1>5. QED
  BY <1>2, <1>3, <1>4

LEMMA AbortsFinite ==
  /\ IsFiniteSet(AbortedRuns) /\ Cardinality(AbortedRuns) \in Nat
  /\ CutCancels \in SUBSET Cancels /\ Cardinality(CutCancels) \in Nat
  /\ Aborts = Cardinality(AbortedRuns) + Cardinality(CutCancels) /\ Aborts \in Nat
<1>1. IsFiniteSet(Tasks \X (1 .. MaxRuns))
  <2>1. IsFiniteSet(1 .. MaxRuns)
    BY MaxRunsAssumption, FS_Interval
  <2> QED BY <2>1, FiniteAssumption, FS_Product
<1>2. AbortedRuns \in SUBSET (Tasks \X (1 .. MaxRuns))
  BY DEF AbortedRuns
<1>3. IsFiniteSet(AbortedRuns)
  BY <1>1, <1>2, FS_Subset
<1>4. Aborts = Cardinality(AbortedRuns) + Cardinality(CutCancels)
  BY DEF AbortedRuns, CutCancels, Aborts
<1>5. Cardinality(AbortedRuns) \in Nat
  BY <1>3, FS_CardinalityType
<1>6. CutCancels \in SUBSET Cancels
  BY DEF CutCancels
<1>7. Cardinality(CutCancels) \in Nat
  BY <1>6, FiniteAssumption, FS_Subset, FS_CardinalityType
<1> QED
  BY <1>3, <1>4, <1>5, <1>6, <1>7

(* A step of one execution moves it alone in or out of Early and Late.     *)
LEMMA EarlyLateAt ==
  ASSUME NEW t \in Tasks, NEW o,
         \A u \in Tasks \ {t} : pc'[u] = pc[u] /\ pend'[u] = pend[u]
  PROVE  /\ Cardinality(Early(o)) \in Nat /\ Cardinality(Early(o)') \in Nat
         /\ Cardinality(Early(o)')
              = Cardinality(Early(o)) - Ind(t \in Early(o)) + Ind(t \in Early(o)')
         /\ Cardinality(Late(o)) \in Nat /\ Cardinality(Late(o)') \in Nat
         /\ Cardinality(Late(o)')
              = Cardinality(Late(o)) - Ind(t \in Late(o)) + Ind(t \in Late(o)')
<1>1. \A x \in Tasks \ {t} : x \in Early(o)' <=> x \in Early(o)
  BY DEF Early
<1>2. \A x \in Tasks \ {t} : x \in Late(o)' <=> x \in Late(o)
  BY DEF Late
<1>3. /\ Early(o) \in SUBSET Tasks /\ Early(o)' \in SUBSET Tasks
      /\ Late(o) \in SUBSET Tasks /\ Late(o)' \in SUBSET Tasks
  BY DEF Early, Late
<1>4. /\ Cardinality(Early(o)) \in Nat /\ Cardinality(Early(o)') \in Nat
      /\ Cardinality(Early(o)')
           = Cardinality(Early(o)) - Ind(t \in Early(o)) + Ind(t \in Early(o)')
  BY <1>1, <1>3, FiniteAssumption, CardinalityAt
<1>5. /\ Cardinality(Late(o)) \in Nat /\ Cardinality(Late(o)') \in Nat
      /\ Cardinality(Late(o)')
           = Cardinality(Late(o)) - Ind(t \in Late(o)) + Ind(t \in Late(o)')
  BY <1>2, <1>3, FiniteAssumption, CardinalityAt
<1> QED
  BY <1>4, <1>5

(* A step of one execution keeps the bound if what it counts and what it   *)
(* shows change alike.                                                     *)
LEMMA TaskStep ==
  ASSUME TypeOK, TypeOK', DriftIsBounded, NEW t \in Tasks,
         \A u \in Tasks \ {t} : pc'[u] = pc[u] /\ pend'[u] = pend[u],
         UNCHANGED <<cpc, aborted>>,
         \A o \in Counted :
           metrics'[o] - metrics[o] + Ind(t \in Late(o)') - Ind(t \in Late(o))
             = published'[o] - published[o] + Ind(t \in Early(o)') - Ind(t \in Early(o))
  PROVE  DriftIsBounded'
<1>1. SUFFICES ASSUME NEW o \in Counted
               PROVE  Counts(o)' <= Shown(o)' + Aborts' /\ Shown(o)' <= Counts(o)' + Aborts'
  BY DEF DriftIsBounded
<1>2. Aborts' = Aborts /\ Waiting(o)' = Waiting(o)
  BY DEF Aborts, Waiting
<1>3. /\ Cardinality(Early(o)) \in Nat /\ Cardinality(Early(o)') \in Nat
      /\ Cardinality(Early(o)')
           = Cardinality(Early(o)) - Ind(t \in Early(o)) + Ind(t \in Early(o)')
      /\ Cardinality(Late(o)) \in Nat /\ Cardinality(Late(o)') \in Nat
      /\ Cardinality(Late(o)')
           = Cardinality(Late(o)) - Ind(t \in Late(o)) + Ind(t \in Late(o)')
  BY EarlyLateAt
<1>5. Cardinality(Waiting(o)) \in Nat
  BY FiniteAssumption, FS_Subset, FS_CardinalityType DEF Waiting
<1>6. /\ metrics[o] \in Nat /\ metrics'[o] \in Nat
      /\ published[o] \in Nat /\ published'[o] \in Nat
  BY DEF TypeOK, Counted, States, Outcomes
<1>7. Counts(o) <= Shown(o) + Aborts /\ Shown(o) <= Counts(o) + Aborts
  BY DEF DriftIsBounded
<1>8. /\ Counts(o) = metrics[o] + Cardinality(Late(o)) + Cardinality(Waiting(o))
      /\ Counts(o)' = metrics'[o] + Cardinality(Late(o)') + Cardinality(Waiting(o)')
      /\ Shown(o) = published[o] + Cardinality(Early(o))
      /\ Shown(o)' = published'[o] + Cardinality(Early(o)')
  BY DEF Counts, Shown
<1>9. /\ Ind(t \in Late(o)) \in 0 .. 1 /\ Ind(t \in Late(o)') \in 0 .. 1
      /\ Ind(t \in Early(o)) \in 0 .. 1 /\ Ind(t \in Early(o)') \in 0 .. 1
  BY DEF Ind
<1>10. metrics'[o] - metrics[o] + Ind(t \in Late(o)') - Ind(t \in Late(o))
         = published'[o] - published[o] + Ind(t \in Early(o)') - Ind(t \in Early(o))
  OBVIOUS
<1>11. Aborts \in Nat
  BY AbortsFinite
<1>12. QED
  BY <1>2, <1>3, <1>5, <1>6, <1>7, <1>8, <1>9, <1>10, <1>11

(* A step of one cancel() keeps the bound under the same condition.        *)
LEMMA CancelDrift ==
  ASSUME TypeOK, TypeOK', DriftIsBounded, NEW c \in Cancels,
         \A d \in Cancels \ {c} : cpc'[d] = cpc[d],
         UNCHANGED <<pc, pend, aborted>>,
         cpc[c] # "uncounted", cpc'[c] # "uncounted",
         \A o \in Counted :
           metrics'[o] - metrics[o] + Ind(c \in Waiting(o)') - Ind(c \in Waiting(o))
             = published'[o] - published[o]
  PROVE  DriftIsBounded'
<1>1. SUFFICES ASSUME NEW o \in Counted
               PROVE  Counts(o)' <= Shown(o)' + Aborts' /\ Shown(o)' <= Counts(o)' + Aborts'
  BY DEF DriftIsBounded
<1>2. Aborts' = Aborts /\ Early(o)' = Early(o) /\ Late(o)' = Late(o)
  <2>1. CutCancels' = CutCancels /\ AbortedRuns' = AbortedRuns
    BY DEF CutCancels, AbortedRuns
  <2> QED BY <2>1 DEF Aborts, AbortedRuns, CutCancels, Early, Late
<1>3. /\ Cardinality(Waiting(o)) \in Nat /\ Cardinality(Waiting(o)') \in Nat
      /\ Cardinality(Waiting(o)')
           = Cardinality(Waiting(o)) - Ind(c \in Waiting(o)) + Ind(c \in Waiting(o)')
  <2>1. \A x \in Cancels \ {c} : x \in Waiting(o)' <=> x \in Waiting(o)
    BY DEF Waiting
  <2>2. Waiting(o) \in SUBSET Cancels /\ Waiting(o)' \in SUBSET Cancels
    BY DEF Waiting
  <2>3. QED
    BY <2>1, <2>2, FiniteAssumption, CardinalityAt
<1>4. Early(o) \in SUBSET Tasks /\ Late(o) \in SUBSET Tasks
  BY DEF Early, Late
<1>5. Cardinality(Early(o)) \in Nat /\ Cardinality(Late(o)) \in Nat
  BY <1>4, FiniteAssumption, FS_Subset, FS_CardinalityType
<1>6. /\ metrics[o] \in Nat /\ metrics'[o] \in Nat
      /\ published[o] \in Nat /\ published'[o] \in Nat
  BY DEF TypeOK, Counted, States, Outcomes
<1>7. Counts(o) <= Shown(o) + Aborts /\ Shown(o) <= Counts(o) + Aborts
  BY DEF DriftIsBounded
<1>8. /\ Counts(o) = metrics[o] + Cardinality(Late(o)) + Cardinality(Waiting(o))
      /\ Counts(o)' = metrics'[o] + Cardinality(Late(o)') + Cardinality(Waiting(o)')
      /\ Shown(o) = published[o] + Cardinality(Early(o))
      /\ Shown(o)' = published'[o] + Cardinality(Early(o)')
  BY DEF Counts, Shown
<1>9. Ind(c \in Waiting(o)) \in 0 .. 1 /\ Ind(c \in Waiting(o)') \in 0 .. 1
  BY DEF Ind
<1>10. metrics'[o] - metrics[o] + Ind(c \in Waiting(o)') - Ind(c \in Waiting(o))
         = published'[o] - published[o]
  OBVIOUS
<1>11. Aborts \in Nat
  BY AbortsFinite
<1>12. QED
  BY <1>2, <1>3, <1>5, <1>6, <1>7, <1>8, <1>9, <1>10, <1>11

(* A transition adds one to the counter of its new state and to no other.  *)
LEMMA TransitionCounts ==
  ASSUME NEW m \in Metrics, NEW old, NEW new, NEW o \in Counted
  PROVE  OnStateTransition(m, old, new)[o] = m[o] + Ind(o = new)
BY DEF OnStateTransition, Metrics, Counted, Ind

(* An event adds one to the status it is, if it is one.                    *)
LEMMA RecordShows ==
  ASSUME TypeOK, NEW t, NEW e, RecordOn(t, e), NEW o \in Counted
  PROVE  published'[o] = published[o] + Ind(o = e)
<1>1. o \in States /\ published \in [States -> Nat]
  BY DEF Counted, States, Outcomes, TypeOK
<1>2. CASE e \in States
  BY <1>1, <1>2 DEF RecordOn, Ind
<1>3. CASE e \notin States
  BY <1>1, <1>3 DEF RecordOn, Ind
<1> QED BY <1>2, <1>3

(* A run cannot be aborted twice: it is over once it is.                   *)
THEOREM RunsAbortOnceInvariant == Spec => []RunsAbortOnce
<1>1. Init => RunsAbortOnce
  BY MaxRunsAssumption DEF Init, RunsAbortOnce
<1>2. TypeOK /\ RunsAbortOnce /\ [Next]_vars => RunsAbortOnce'
  <2> SUFFICES ASSUME TypeOK, RunsAbortOnce, [Next]_vars PROVE RunsAbortOnce'
    OBVIOUS
  <2> USE DEF TypeOK, RunsAbortOnce, Step, Leave
  <2>1. ASSUME NEW t \in Tasks, Start(t) PROVE RunsAbortOnce'
    BY <2>1, MaxRunsAssumption DEF Start
  <2>2. ASSUME NEW t \in Tasks, Host(t) PROVE RunsAbortOnce'
    BY <2>2 DEF Host, Publish, Refuse, LeaveRefused, Launch, LaunchBroken,
                Continue, OutOfTime, Timeout, Complete, Finish, LeaveReported
  <2>3. ASSUME NEW t \in Tasks, Module(t) PROVE RunsAbortOnce'
    BY <2>3 DEF Module, Return, Yield, StreamEnd, Raise
  <2>4. ASSUME NEW t \in Tasks, AsyncioCancel(t) PROVE RunsAbortOnce'
    BY <2>4 DEF AsyncioCancel
  <2>5. ASSUME NEW t \in Tasks, Expire(t) \/ Settle(t) PROVE RunsAbortOnce'
    BY <2>5 DEF Expire, Settle, execVars
  <2>6. ASSUME NEW c \in Cancels, CancelStep(c) PROVE RunsAbortOnce'
    BY <2>6 DEF CancelStep, Cancel, PublishCanceled, FinishCancel, AbortCancel, execVars
  <2>7. ASSUME UNCHANGED vars PROVE RunsAbortOnce'
    BY <2>7 DEF vars, execVars
  <2> QED
    BY <2>1, <2>2, <2>3, <2>4, <2>5, <2>6, <2>7 DEF Next, Rest
<1> QED
  BY <1>1, <1>2, TypeCorrect, PTL DEF Spec

-----------------------------------------------------------------------------

(* asyncio cancellation takes at most one count or one status with it, and *)
(* is counted itself.                                                      *)
LEMMA AbortDrift ==
  ASSUME TypeOK, TypeOK', EventOrder, RunsAbortOnce, DriftIsBounded,
         NEW t \in Tasks, AsyncioCancel(t)
  PROVE  DriftIsBounded'
<1>1. SUFFICES ASSUME NEW o \in Counted
               PROVE  Counts(o)' <= Shown(o)' + Aborts' /\ Shown(o)' <= Counts(o)' + Aborts'
  BY DEF DriftIsBounded
<1>2. Aborts \in Nat /\ Aborts' = Aborts + 1
  <2>1. run[t] \in 1 .. MaxRuns /\ run[t] \notin aborted[t]
    <3>1. pc[t] # "idle"
      BY DEF AsyncioCancel
    <3>2. run[t] > 0
      BY <3>1 DEF EventOrder
    <3>3. run[t] <= MaxRuns /\ run[t] \notin aborted[t]
      BY <3>1 DEF RunsAbortOnce
    <3>4. run[t] \in Nat
      BY DEF TypeOK
    <3> QED BY <3>2, <3>3, <3>4, MaxRunsAssumption
  <2>2. <<t, run[t]>> \notin AbortedRuns
    BY <2>1 DEF AbortedRuns
  <2>3. AbortedRuns' = AbortedRuns \cup {<<t, run[t]>>}
    <3>1. \A u \in Tasks : aborted'[u] = IF u = t THEN aborted[t] \cup {run[t]} ELSE aborted[u]
      BY DEF AsyncioCancel, TypeOK
    <3>2. \A u \in Tasks, r \in 1 .. MaxRuns :
            r \in aborted'[u] <=> r \in aborted[u] \/ (u = t /\ r = run[t])
      BY <3>1
    <3> QED BY <2>1, <3>2 DEF AbortedRuns
  <2>4. /\ IsFiniteSet(AbortedRuns) /\ Cardinality(AbortedRuns) \in Nat
        /\ Cardinality(CutCancels) \in Nat
        /\ Aborts = Cardinality(AbortedRuns) + Cardinality(CutCancels)
    BY AbortsFinite
  <2>5. Aborts' = Cardinality(AbortedRuns') + Cardinality(CutCancels)
    BY DEF AsyncioCancel, cancelVars, Aborts, AbortedRuns, CutCancels
  <2>6. Cardinality(AbortedRuns \cup {<<t, run[t]>>}) = Cardinality(AbortedRuns) + 1
    BY <2>2, <2>4, FS_AddElement
  <2> QED BY <2>3, <2>4, <2>5, <2>6
<1>3. /\ \A u \in Tasks \ {t} : pc'[u] = pc[u] /\ pend'[u] = pend[u]
      /\ metrics' = metrics /\ published' = published /\ cpc' = cpc
  BY DEF AsyncioCancel, Leave, TypeOK, wireVars, cancelVars
<1>4. /\ Cardinality(Early(o)) \in Nat /\ Cardinality(Early(o)') \in Nat
      /\ Cardinality(Early(o)')
           = Cardinality(Early(o)) - Ind(t \in Early(o)) + Ind(t \in Early(o)')
      /\ Cardinality(Late(o)) \in Nat /\ Cardinality(Late(o)') \in Nat
      /\ Cardinality(Late(o)')
           = Cardinality(Late(o)) - Ind(t \in Late(o)) + Ind(t \in Late(o)')
  BY <1>3, EarlyLateAt
<1>6. t \notin Early(o)' /\ t \notin Late(o)'
  <2>1. pc'[t] = "idle"
    BY DEF AsyncioCancel, Leave, TypeOK
  <2> QED BY <2>1 DEF Early, Late
<1>7. Waiting(o)' = Waiting(o)
  BY <1>3 DEF Waiting
<1>8. Waiting(o) \in SUBSET Cancels
  BY DEF Waiting
<1>9. Cardinality(Waiting(o)) \in Nat
  BY <1>8, FiniteAssumption, FS_Subset, FS_CardinalityType
<1>10. metrics[o] \in Nat /\ published[o] \in Nat
  BY DEF TypeOK, Counted, States, Outcomes
<1>11. /\ Counts(o) = metrics[o] + Cardinality(Late(o)) + Cardinality(Waiting(o))
       /\ Counts(o)' = metrics[o] + Cardinality(Late(o)') + Cardinality(Waiting(o))
       /\ Shown(o) = published[o] + Cardinality(Early(o))
       /\ Shown(o)' = published[o] + Cardinality(Early(o)')
  BY <1>3, <1>7 DEF Counts, Shown
<1>12. Counts(o) <= Shown(o) + Aborts /\ Shown(o) <= Counts(o) + Aborts
  BY DEF DriftIsBounded
<1>13. /\ Ind(t \in Late(o)) \in 0 .. 1 /\ Ind(t \in Late(o)') = 0
       /\ Ind(t \in Early(o)) \in 0 .. 1 /\ Ind(t \in Early(o)') = 0
  BY <1>6 DEF Ind
<1> QED
  BY <1>2, <1>4, <1>9, <1>10, <1>11, <1>12, <1>13

(* asyncio cancellation of cancel() loses at most one count, and is        *)
(* counted itself when it does.                                            *)
LEMMA CutDrift ==
  ASSUME TypeOK, TypeOK', DriftIsBounded, NEW c \in Cancels, AbortCancel(c)
  PROVE  DriftIsBounded'
<1>1. /\ cpc[c] \in {"put", "notify"}
      /\ cpc'[c] = IF cpc[c] = "put" THEN "lost" ELSE "uncounted"
      /\ \A d \in Cancels \ {c} : cpc'[d] = cpc[d]
      /\ UNCHANGED <<pc, pend, aborted, metrics, published>>
  BY DEF AbortCancel, TypeOK, execVars, wireVars
<1>2. \A o \in Counted : metrics[o] \in Nat /\ published[o] \in Nat
  BY DEF TypeOK, Counted, States, Outcomes
<1>3. CASE cpc[c] = "put"
  <2>1. \A o \in Counted : c \notin Waiting(o) /\ c \notin Waiting(o)'
    BY <1>1, <1>3 DEF Waiting
  <2> QED BY <1>1, <1>2, <1>3, <2>1, CancelDrift DEF Ind
<1>4. CASE cpc[c] = "notify"
  <2> SUFFICES ASSUME NEW o \in Counted
               PROVE  Counts(o)' <= Shown(o)' + Aborts' /\ Shown(o)' <= Counts(o)' + Aborts'
    BY DEF DriftIsBounded
  <2>1. /\ c \notin CutCancels /\ c \in CutCancels'
        /\ \A x \in Cancels \ {c} : x \in CutCancels' <=> x \in CutCancels
        /\ CutCancels' \in SUBSET Cancels /\ AbortedRuns' = AbortedRuns
    BY <1>1, <1>4 DEF CutCancels, AbortedRuns
  <2>2. /\ CutCancels \in SUBSET Cancels /\ Cardinality(AbortedRuns) \in Nat
        /\ Aborts = Cardinality(AbortedRuns) + Cardinality(CutCancels) /\ Aborts \in Nat
    BY AbortsFinite
  <2>3. Aborts' = Cardinality(AbortedRuns') + Cardinality(CutCancels')
    BY DEF Aborts, AbortedRuns, CutCancels
  <2>4. /\ Cardinality(CutCancels) \in Nat /\ Cardinality(CutCancels') \in Nat
        /\ Cardinality(CutCancels') = Cardinality(CutCancels) + 1
    BY <2>1, <2>2, FiniteAssumption, CardinalityAt DEF Ind
  <2>5. Aborts' = Aborts + 1
    BY <2>1, <2>2, <2>3, <2>4
  <2>6. /\ Waiting(o) \in SUBSET Cancels /\ Waiting(o)' \in SUBSET Cancels
        /\ \A x \in Cancels \ {c} : x \in Waiting(o)' <=> x \in Waiting(o)
        /\ c \notin Waiting(o)'
    BY <1>1, <1>4 DEF Waiting
  <2>7. /\ Cardinality(Waiting(o)) \in Nat /\ Cardinality(Waiting(o)') \in Nat
        /\ Cardinality(Waiting(o)') = Cardinality(Waiting(o)) - Ind(c \in Waiting(o))
        /\ Ind(c \in Waiting(o)) \in 0 .. 1
    BY <2>6, FiniteAssumption, CardinalityAt DEF Ind
  <2>8. Early(o)' = Early(o) /\ Late(o)' = Late(o)
    BY <1>1 DEF Early, Late
  <2>9. Cardinality(Early(o)) \in Nat /\ Cardinality(Late(o)) \in Nat
    <3>1. Early(o) \in SUBSET Tasks /\ Late(o) \in SUBSET Tasks
      BY DEF Early, Late
    <3> QED BY <3>1, FiniteAssumption, FS_Subset, FS_CardinalityType
  <2>10. /\ Counts(o) = metrics[o] + Cardinality(Late(o)) + Cardinality(Waiting(o))
         /\ Counts(o)' = metrics[o] + Cardinality(Late(o)) + Cardinality(Waiting(o)')
         /\ Shown(o) = published[o] + Cardinality(Early(o)) /\ Shown(o)' = Shown(o)
    BY <1>1, <2>8 DEF Counts, Shown
  <2>11. Counts(o) <= Shown(o) + Aborts /\ Shown(o) <= Counts(o) + Aborts
    BY DEF DriftIsBounded
  <2> QED BY <1>2, <2>2, <2>5, <2>7, <2>9, <2>10, <2>11
<1> QED
  BY <1>1, <1>3, <1>4

(* At any moment /metrics and the queues differ by what is in between, and *)
(* by what asyncio has cut short.                                          *)
THEOREM DriftInvariant == Spec => []DriftIsBounded
<1>1. Init => DriftIsBounded
  <2> SUFFICES ASSUME Init, NEW o \in Counted
               PROVE  Counts(o) <= Shown(o) + Aborts /\ Shown(o) <= Counts(o) + Aborts
    BY DEF DriftIsBounded
  <2>1. Early(o) = {} /\ Late(o) = {} /\ Waiting(o) = {}
    BY DEF Init, Early, Late, Waiting
  <2>2. metrics[o] = 0 /\ published[o] = 0
    BY DEF Init, Counted, States, Outcomes
  <2>3. Cardinality({}) = 0
    BY FS_EmptySet
  <2>4. Counts(o) = 0 /\ Shown(o) = 0
    BY <2>1, <2>2, <2>3 DEF Counts, Shown
  <2> QED BY <2>4, AbortsFinite
<1>2. TypeOK /\ TypeOK' /\ EventOrder /\ RunsAbortOnce /\ DriftIsBounded /\ [Next]_vars
        => DriftIsBounded'
  <2> SUFFICES ASSUME TypeOK, TypeOK', EventOrder, RunsAbortOnce, DriftIsBounded, [Next]_vars
               PROVE  DriftIsBounded'
    OBVIOUS
  <2> USE DEF Step, Leave, Notify, Early, Late, wireVars, cancelVars
  <2>0. metrics \in Metrics
    BY DEF TypeOK, Metrics
  <2>s. \A o \in Counted : o \in {"completed", "failed", "canceled", "input_required"}
    BY DEF Counted
  <2>1. ASSUME NEW t \in Tasks,
               Start(t) \/ Continue(t) \/ Complete(t) \/ Return(t) \/ Yield(t) \/ StreamEnd(t)
        PROVE  DriftIsBounded'
    <3>1. /\ \A u \in Tasks \ {t} : pc'[u] = pc[u] /\ pend'[u] = pend[u]
          /\ UNCHANGED <<cpc, aborted, metrics, published>>
      BY <2>1 DEF TypeOK, Start, Continue, Complete, Return, Yield, StreamEnd
    <3>2. /\ pc[t] \in {"idle", "chunk", "output", "call"}
          /\ pc'[t] \in {"announce", "call", "completing", "output", "chunk"}
          /\ pc'[t] = "completing" => pend'[t] # "none"
      BY <2>1 DEF TypeOK, Start, Continue, Complete, Return, Yield, StreamEnd
    <3>3. \A o \in Counted : /\ t \notin Early(o) /\ t \notin Early(o)'
                             /\ t \notin Late(o) /\ t \notin Late(o)'
      BY <3>2
    <3>4. \A o \in Counted : metrics[o] \in Nat /\ published[o] \in Nat
      BY DEF TypeOK, Counted, States, Outcomes
    <3> QED BY <3>1, <3>3, <3>4, TaskStep DEF Ind
  <2>2. ASSUME NEW t \in Tasks, Publish(t) PROVE DriftIsBounded'
    <3>1. /\ \A u \in Tasks \ {t} : pc'[u] = pc[u] /\ pend'[u] = pend[u]
          /\ UNCHANGED <<cpc, aborted, metrics>> /\ pc'[t] = pc[t] /\ pend'[t] = "none"
      BY <2>2 DEF TypeOK, Publish
    <3>2. \A o \in Counted : published'[o] = published[o] + Ind(o = pend[t])
      BY <2>2, RecordShows DEF Publish
    <3>3. \A o \in Counted : /\ t \notin Early(o)' /\ t \notin Late(o)
                             /\ t \in Late(o)' <=> pc[t] = "completing" /\ o = "completed"
                             /\ t \in Early(o) <=> pc[t] \in {"refusing", "report"} /\ o = pend[t]
      BY <2>2, <2>s, <3>1 DEF Publish
    <3>4. \A o \in Counted : o = pend[t] => pc[t] \in {"refusing", "report", "completing"}
      BY <2>2, <2>s DEF Publish, EventOrder, PutOr, TypeOK, PCs, Guarded, Closers, ChunkEvent
    <3>5. pc[t] = "completing" => pend[t] = "completed"
      BY <2>2 DEF Publish, EventOrder, PutOr
    <3>6. \A o \in Counted : Ind(t \in Late(o)') + Ind(t \in Early(o)) = Ind(o = pend[t])
      BY <3>3, <3>4, <3>5 DEF Ind
    <3>7. \A o \in Counted : /\ Ind(t \in Late(o)) = 0 /\ Ind(t \in Early(o)') = 0
                             /\ Ind(t \in Late(o)') \in Nat /\ Ind(t \in Early(o)) \in Nat
      BY <3>3 DEF Ind
    <3>8. \A o \in Counted : metrics[o] \in Nat /\ published[o] \in Nat
      BY DEF TypeOK, Counted, States, Outcomes
    <3>9. \A o \in Counted :
            metrics'[o] - metrics[o] + Ind(t \in Late(o)') - Ind(t \in Late(o))
              = published'[o] - published[o] + Ind(t \in Early(o)') - Ind(t \in Early(o))
      <4> HIDE DEF Early, Late
      <4> SUFFICES ASSUME NEW o \in Counted
                   PROVE  metrics'[o] - metrics[o] + Ind(t \in Late(o)') - Ind(t \in Late(o))
                            = published'[o] - published[o] + Ind(t \in Early(o)') - Ind(t \in Early(o))
        OBVIOUS
      <4>1. metrics'[o] = metrics[o] /\ published'[o] = published[o] + Ind(o = pend[t])
        BY <3>1, <3>2
      <4>2. Ind(t \in Late(o)') + Ind(t \in Early(o)) = Ind(o = pend[t])
        BY <3>6
      <4>3. /\ Ind(t \in Late(o)) = 0 /\ Ind(t \in Early(o)') = 0
            /\ Ind(t \in Late(o)') \in Nat /\ Ind(t \in Early(o)) \in Nat
            /\ metrics[o] \in Nat /\ published[o] \in Nat
        BY <3>7, <3>8
      <4> DEFINE late == Ind(t \in Late(o)')
                 early == Ind(t \in Early(o))
                 shown == Ind(o = pend[t])
      <4>4. /\ published'[o] = published[o] + shown /\ late + early = shown
            /\ late \in Nat /\ early \in Nat
        BY <4>1, <4>2, <4>3
      <4>5. metrics[o] - metrics[o] + late - 0 = published'[o] - published[o] + 0 - early
        <5> HIDE DEF late, early, shown
        <5> QED BY <4>3, <4>4
      <4> QED BY <4>1, <4>3, <4>5
    <3> QED BY <3>1, <3>9, TaskStep
  <2>3. ASSUME NEW t \in Tasks, NEW e \in Stops \cup {"none"},
               pc'[t] \in {"refusing", "report", "call"}, pc'[t] = "call" <=> e = "none",
               pc[t] \in {"announce", "call", "chunk"},
               Step(t, pc[t], pc'[t], e),
               UNCHANGED <<aborted, cpc, published>>,
               \A o \in Counted : metrics'[o] = metrics[o] + Ind(o = e)
        PROVE  DriftIsBounded'
    <3>1. /\ \A u \in Tasks \ {t} : pc'[u] = pc[u] /\ pend'[u] = pend[u]
          /\ pend'[t] = e
      BY <2>3 DEF TypeOK
    <3>2. \A o \in Counted : /\ t \notin Early(o) /\ t \notin Late(o) /\ t \notin Late(o)'
                             /\ t \in Early(o)' <=> o = e
      BY <2>3, <2>s, <3>1
    <3>3. \A o \in Counted : metrics[o] \in Nat /\ published[o] \in Nat
      BY DEF TypeOK, Counted, States, Outcomes
    <3> QED BY <2>3, <3>1, <3>2, <3>3, TaskStep DEF Ind
  <2>4. ASSUME NEW t \in Tasks, Refuse(t) \/ OutOfTime(t) \/ Timeout(t) PROVE DriftIsBounded'
    <3>1. \A o \in Counted : metrics'[o] = metrics[o] + Ind(o = "failed")
      BY <2>4, <2>0, TransitionCounts DEF Refuse, OutOfTime, Timeout
    <3>2. /\ Step(t, pc[t], pc'[t], "failed") /\ "failed" \in Stops /\ "failed" # "none"
          /\ pc[t] \in {"announce", "call", "chunk"} /\ pc'[t] \in {"refusing", "report"}
          /\ UNCHANGED <<aborted, cpc, published>>
      BY <2>4 DEF TypeOK, Refuse, OutOfTime, Timeout, Stops, Outcomes
    <3> QED BY <2>3, <3>1, <3>2
  <2>5. ASSUME NEW t \in Tasks, NEW code \in Codes, Raise(t, code) PROVE DriftIsBounded'
    <3>1. \A o \in Counted : metrics'[o] = metrics[o] + Ind(o = StatusOf(code))
      BY <2>5, <2>0, TransitionCounts DEF Raise
    <3>2. /\ Step(t, pc[t], pc'[t], StatusOf(code)) /\ StatusOf(code) \in Stops
          /\ pc[t] = "call" /\ pc'[t] = "report" /\ UNCHANGED <<aborted, cpc, published>>
      BY <2>5, StatusType DEF TypeOK, Raise
    <3>3. StatusOf(code) # "none"
      BY <3>2 DEF Stops, Outcomes
    <3> QED BY <2>3, <3>1, <3>2, <3>3
  <2>6. ASSUME NEW t \in Tasks, Launch(t) PROVE DriftIsBounded'
    <3>1. \A o \in Counted : metrics'[o] = metrics[o] + Ind(o = "working")
      BY <2>6, <2>0, TransitionCounts DEF Launch
    <3>2. \A o \in Counted : Ind(o = "working") = Ind(o = "none")
      BY <2>s DEF Ind
    <3>3. \A o \in Counted : metrics'[o] = metrics[o] + Ind(o = "none")
      BY <3>1, <3>2
    <3>4. /\ Step(t, pc[t], pc'[t], "none")
          /\ pc[t] = "announce" /\ pc'[t] = "call" /\ UNCHANGED <<aborted, cpc, published>>
      BY <2>6 DEF TypeOK, Launch
    <3> HIDE DEF Step
    <3> QED BY <2>3, <3>3, <3>4
  <2>7. ASSUME NEW t \in Tasks, LaunchBroken(t) PROVE DriftIsBounded'
    <3>1. OnStateTransition(metrics, "submitted", "working") \in Metrics
      BY <2>0, TransitionType
    <3>2. \A o \in Counted : metrics'[o] = metrics[o] + Ind(o = "working") + Ind(o = "failed")
      BY <2>7, <2>0, <3>1, TransitionCounts DEF LaunchBroken
    <3>3. \A o \in Counted : metrics[o] \in Nat /\ Ind(o = "working") = 0
      BY <2>s DEF TypeOK, Counted, Ind
    <3>4. \A o \in Counted : metrics'[o] = metrics[o] + Ind(o = "failed")
      BY <3>2, <3>3
    <3>5. /\ Step(t, pc[t], pc'[t], "failed") /\ "failed" \in Stops /\ "failed" # "none"
          /\ pc[t] = "announce" /\ pc'[t] = "report" /\ UNCHANGED <<aborted, cpc, published>>
      BY <2>7 DEF TypeOK, LaunchBroken, Stops, Outcomes
    <3> QED BY <2>3, <3>4, <3>5
  <2>8. ASSUME NEW t \in Tasks, Finish(t) PROVE DriftIsBounded'
    <3>1. /\ \A u \in Tasks \ {t} : pc'[u] = pc[u] /\ pend'[u] = pend[u]
          /\ UNCHANGED <<cpc, aborted, published>> /\ pc'[t] = "idle"
          /\ pc[t] = "completing" /\ pend[t] = "none"
      BY <2>8 DEF TypeOK, Finish
    <3>2. \A o \in Counted : metrics'[o] = metrics[o] + Ind(o = "completed")
      BY <2>8, <2>0, TransitionCounts DEF Finish
    <3>3. \A o \in Counted : /\ t \notin Early(o) /\ t \notin Early(o)' /\ t \notin Late(o)'
                             /\ t \in Late(o) <=> o = "completed"
      BY <3>1
    <3>4. \A o \in Counted : metrics[o] \in Nat /\ published[o] \in Nat
      BY DEF TypeOK, Counted, States, Outcomes
    <3> QED BY <3>1, <3>2, <3>3, <3>4, TaskStep DEF Ind
  <2>9. ASSUME NEW t \in Tasks, LeaveRefused(t) \/ LeaveReported(t) PROVE DriftIsBounded'
    <3>1. /\ \A u \in Tasks \ {t} : pc'[u] = pc[u] /\ pend'[u] = pend[u]
          /\ UNCHANGED <<cpc, aborted, published, metrics>> /\ pc'[t] = "idle"
          /\ pc[t] \in {"refusing", "report"} /\ pend[t] = "none"
      BY <2>9 DEF TypeOK, LeaveRefused, LeaveReported
    <3>2. \A o \in Counted : /\ t \notin Early(o) /\ t \notin Early(o)'
                             /\ t \notin Late(o) /\ t \notin Late(o)'
      BY <2>s, <3>1
    <3>3. \A o \in Counted : metrics[o] \in Nat /\ published[o] \in Nat
      BY DEF TypeOK, Counted, States, Outcomes
    <3> QED BY <3>1, <3>2, <3>3, TaskStep DEF Ind
  <2>10. ASSUME NEW t \in Tasks, AsyncioCancel(t) PROVE DriftIsBounded'
    BY <2>10, AbortDrift
  <2>11. ASSUME NEW t \in Tasks, Expire(t) \/ Settle(t) PROVE DriftIsBounded'
    BY <2>11 DEF Expire, Settle, execVars, DriftIsBounded, Counts, Shown, Waiting, Aborts
  <2>12. ASSUME NEW c \in Cancels, NEW t \in Tasks, Cancel(c, t) PROVE DriftIsBounded'
    <3>1. /\ \A d \in Cancels \ {c} : cpc'[d] = cpc[d]
          /\ UNCHANGED <<pc, pend, aborted, metrics, published>>
          /\ cpc[c] = "ready" /\ cpc'[c] = "put"
      BY <2>12 DEF TypeOK, Cancel, execVars
    <3>2. \A o \in Counted : metrics[o] \in Nat /\ published[o] \in Nat
      BY DEF TypeOK, Counted, States, Outcomes
    <3> QED BY <3>1, <3>2, CancelDrift DEF Waiting, Ind
  <2>13. ASSUME NEW c \in Cancels, PublishCanceled(c) PROVE DriftIsBounded'
    <3>1. /\ \A d \in Cancels \ {c} : cpc'[d] = cpc[d]
          /\ UNCHANGED <<pc, pend, aborted, metrics>>
          /\ cpc[c] = "put" /\ cpc'[c] = "notify"
      BY <2>13 DEF TypeOK, PublishCanceled, execVars
    <3>2. \A o \in Counted : published'[o] = published[o] + Ind(o = "canceled")
      BY <2>13, RecordShows DEF PublishCanceled
    <3>3. \A o \in Counted : metrics[o] \in Nat /\ published[o] \in Nat
      BY DEF TypeOK, Counted, States, Outcomes
    <3> QED BY <3>1, <3>2, <3>3, CancelDrift DEF Waiting, Ind
  <2>14. ASSUME NEW c \in Cancels, FinishCancel(c) PROVE DriftIsBounded'
    <3>1. /\ \A d \in Cancels \ {c} : cpc'[d] = cpc[d]
          /\ UNCHANGED <<pc, pend, aborted, published>>
          /\ cpc[c] = "notify" /\ cpc'[c] = "done"
      BY <2>14 DEF TypeOK, FinishCancel, execVars
    <3>2. \A o \in Counted : metrics'[o] = metrics[o] + Ind(o = "canceled")
      BY <2>14, <2>0, TransitionCounts DEF FinishCancel
    <3>3. \A o \in Counted : metrics[o] \in Nat /\ published[o] \in Nat
      BY DEF TypeOK, Counted, States, Outcomes
    <3> QED BY <3>1, <3>2, <3>3, CancelDrift DEF Waiting, Ind
  <2>15. ASSUME UNCHANGED vars PROVE DriftIsBounded'
    BY <2>15 DEF vars, execVars, DriftIsBounded, Counts, Shown, Waiting, Aborts
  <2>16. ASSUME NEW c \in Cancels, AbortCancel(c) PROVE DriftIsBounded'
    BY <2>16, CutDrift
  <2> QED
    BY <2>1, <2>2, <2>4, <2>5, <2>6, <2>7, <2>8, <2>9, <2>10, <2>11, <2>12, <2>13, <2>14, <2>15,
       <2>16
       DEF Next, Host, Module, CancelStep, Rest
<1> QED
  BY <1>1, <1>2, TypeCorrect, EventOrderInvariant, RunsAbortOnceInvariant, PTL DEF Spec

(* At rest nothing is in between: the counters of /metrics are those of    *)
(* the statuses on the queues, give or take one for each execution, and    *)
(* each cancel between the queue and the counter, that asyncio cut short.  *)
THEOREM MetricsMatch == Spec => []MetricsMatchTheWire
<1>1. TypeOK /\ DriftIsBounded => MetricsMatchTheWire
  <2> SUFFICES ASSUME TypeOK, DriftIsBounded, NEW o \in Counted,
                      \A t \in Tasks : pc[t] = "idle",
                      \A c \in Cancels : cpc[c] \notin {"put", "notify"}
               PROVE  metrics[o] <= published[o] + Aborts /\ published[o] <= metrics[o] + Aborts
    BY DEF MetricsMatchTheWire
  <2>1. Early(o) = {} /\ Late(o) = {} /\ Waiting(o) = {}
    BY DEF Early, Late, Waiting
  <2>2. metrics[o] \in Nat /\ published[o] \in Nat
    BY DEF TypeOK, Counted, States, Outcomes
  <2>3. Cardinality({}) = 0
    BY FS_EmptySet
  <2>4. Counts(o) = metrics[o] /\ Shown(o) = published[o]
    BY <2>1, <2>2, <2>3 DEF Counts, Shown
  <2> QED BY <2>4 DEF DriftIsBounded
<1> QED
  BY <1>1, TypeCorrect, DriftInvariant, PTL

-----------------------------------------------------------------------------
(* The gauge *)

(* A transition from an active state does not raise the gauge.             *)
LEMMA GaugeHolds ==
  ASSUME NEW m \in Metrics, m["active"] = 0, NEW old \in ActiveStates, NEW new
  PROVE  OnStateTransition(m, old, new)["active"] = 0
BY DEF OnStateTransition, Metrics

GaugeAtZero == metrics["active"] = 0

(* Nobody reports a transition from a state that is not active, so the     *)
(* gauge of active tasks never leaves zero (on_state_transition counts it  *)
(* up on such a transition only).                                          *)
THEOREM GaugeStaysZero == Spec => []GaugeAtZero
<1>1. Init => GaugeAtZero
  BY DEF Init, GaugeAtZero
<1>2. TypeOK /\ GaugeAtZero /\ [Next]_vars => GaugeAtZero'
  <2>1. SUFFICES ASSUME TypeOK, metrics["active"] = 0, [Next]_vars
                 PROVE  metrics'["active"] = 0
    BY DEF GaugeAtZero
  <2>2. metrics \in Metrics /\ "submitted" \in ActiveStates /\ "working" \in ActiveStates
    <3>1. metrics \in Metrics
      BY <2>1 DEF TypeOK, Metrics
    <3>2. QED
      BY <3>1 DEF ActiveStates
  <2>3. \A old \in ActiveStates : \A new : Notify(old, new) => metrics'["active"] = 0
    BY <2>1, <2>2, GaugeHolds DEF Notify
  <2>4. ASSUME NEW t \in Tasks, LaunchBroken(t) PROVE metrics'["active"] = 0
    <3>1. OnStateTransition(metrics, "submitted", "working") \in Metrics
      BY <2>2, TransitionType
    <3>2. OnStateTransition(metrics, "submitted", "working")["active"] = 0
      BY <2>1, <2>2, GaugeHolds
    <3>3. QED
      BY <2>2, <2>4, <3>1, <3>2, GaugeHolds DEF LaunchBroken
  <2>5. ASSUME NEW t \in Tasks, Refuse(t) \/ Launch(t) \/ OutOfTime(t) \/ Timeout(t) \/ Finish(t)
        PROVE  metrics'["active"] = 0
    BY <2>2, <2>3, <2>5 DEF Refuse, Launch, OutOfTime, Timeout, Finish
  <2>6. ASSUME NEW t \in Tasks, NEW code \in Codes, Raise(t, code) PROVE metrics'["active"] = 0
    BY <2>2, <2>3, <2>6 DEF Raise
  <2>7. ASSUME NEW c \in Cancels, FinishCancel(c) PROVE metrics'["active"] = 0
    BY <2>2, <2>3, <2>7 DEF FinishCancel
  <2>8. ASSUME NEW t \in Tasks,
               \/ Start(t) \/ Publish(t) \/ LeaveRefused(t) \/ Continue(t) \/ Complete(t)
               \/ LeaveReported(t) \/ Return(t) \/ Yield(t) \/ StreamEnd(t)
               \/ AsyncioCancel(t) \/ Expire(t) \/ Settle(t)
        PROVE  UNCHANGED metrics
    BY <2>8 DEF Start, Publish, LeaveRefused, Continue, Complete, LeaveReported, Return,
                Yield, StreamEnd, AsyncioCancel, Expire, Settle
  <2>9. ASSUME NEW c \in Cancels,
               PublishCanceled(c) \/ AbortCancel(c) \/ \E t \in Tasks : Cancel(c, t)
        PROVE  UNCHANGED metrics
    BY <2>9 DEF PublishCanceled, AbortCancel, Cancel
  <2>10. ASSUME UNCHANGED vars PROVE UNCHANGED metrics
    BY <2>10 DEF vars
  <2>11. QED
    BY <2>1, <2>4, <2>5, <2>6, <2>7, <2>8, <2>9, <2>10
       DEF Next, Host, Module, CancelStep, Rest
<1>3. QED
  BY <1>1, <1>2, TypeCorrect, PTL DEF Spec

-----------------------------------------------------------------------------
(* Every message is answered.  Left(t) counts the awaits that are left of  *)
(* an execution when its deadline is the next thing to happen: no step     *)
(* makes it larger, the timer makes it smaller while the module may go on, *)
(* and after that every step of the host does.  That the host and the      *)
(* timer can take those steps is NeverStuck; ENABLED is beyond the prover, *)
(* so NeverStuck is a hypothesis here and checked by TLC.                  *)

Left(t) ==
  LET waits == IF pend[t] = "none" THEN 0 ELSE 1 IN
  CASE pc[t] = "idle"                             -> 0
    [] pc[t] \in {"refusing", "report"}           -> 1 + waits
    [] pc[t] = "completing"                       -> 3 + waits
    [] pc[t] = "output"                           -> 5 + waits
    [] pc[t] = "chunk" /\ expired[t]              -> 7 + waits
    [] pc[t] = "call" /\ expired[t]               -> 9
    [] pc[t] \in {"call", "chunk"} /\ ~expired[t] -> 10
    [] pc[t] = "announce"                         -> 11 + waits

LEMMA LeftType ==
  ASSUME TypeOK, NEW t \in Tasks
  PROVE  Left(t) \in 0 .. 12 /\ (Left(t) = 0 <=> pc[t] = "idle")
BY DEF TypeOK, Left, PCs, Guarded

(* What is not done for t leaves its execution where it is.                *)
LEMMA LeftUnchanged ==
  ASSUME NEW t \in Tasks, pc'[t] = pc[t], pend'[t] = pend[t], expired'[t] = expired[t]
  PROVE  Left(t)' = Left(t)
BY DEF Left

Frozen(t) ==
  pc'[t] = pc[t] /\ pend'[t] = pend[t] /\ expired'[t] = expired[t] /\ run'[t] = run[t]

GetsCloser(t) == Left(t)' < Left(t) \/ (Left(t) = 10 /\ Left(t)' = 10)

(* No step makes it larger, and no other execution of t starts before.     *)
LEMMA LeftNeverGrows ==
  ASSUME TypeOK, EventOrder, [Next]_vars, NEW t \in Tasks, pc[t] # "idle"
  PROVE  run'[t] = run[t] /\ (Frozen(t) \/ GetsCloser(t))
<1> USE DEF TypeOK, Step, Leave
<1>1. ASSUME Publish(t) PROVE run'[t] = run[t] /\ GetsCloser(t)
  <2>1. /\ pc'[t] = pc[t] /\ expired'[t] = expired[t] /\ run'[t] = run[t]
        /\ pend[t] # "none" /\ pend'[t] = "none"
    BY <1>1 DEF Publish
  <2>2. pc[t] \in {"announce", "refusing", "chunk", "output", "completing", "report"}
    BY <2>1 DEF EventOrder, PCs, Guarded
  <2> HIDE DEF TypeOK, Step, Leave
  <2>3. CASE pc[t] = "announce"
    BY <2>1, <2>3 DEF Left, GetsCloser
  <2>4. CASE pc[t] \in {"refusing", "report"}
    BY <2>1, <2>4 DEF Left, GetsCloser
  <2>5. CASE pc[t] \in {"output", "completing"}
    <3>1. CASE pc[t] = "output"
      BY <2>1, <3>1 DEF Left, GetsCloser
    <3>2. CASE pc[t] = "completing"
      BY <2>1, <3>2 DEF Left, GetsCloser
    <3>3. QED
      BY <2>5, <3>1, <3>2
  <2>6. CASE pc[t] = "chunk" /\ expired[t]
    BY <2>1, <2>6 DEF Left, GetsCloser
  <2>7. CASE pc[t] = "chunk" /\ ~expired[t]
    BY <2>1, <2>7 DEF Left, GetsCloser
  <2>8. QED
    BY <2>1, <2>2, <2>3, <2>4, <2>5, <2>6, <2>7
<1>2. ASSUME Refuse(t) \/ LeaveRefused(t) \/ Launch(t) \/ LaunchBroken(t)
      PROVE  run'[t] = run[t] /\ Left(t)' < Left(t)
  BY <1>2 DEF Refuse, LeaveRefused, Launch, LaunchBroken, Left
<1>3. ASSUME Continue(t) PROVE run'[t] = run[t] /\ Left(t) = 10 /\ Left(t)' = 10
  BY <1>3 DEF Continue, Left
<1>4. ASSUME OutOfTime(t) \/ Timeout(t) \/ Complete(t) \/ Finish(t) \/ LeaveReported(t)
      PROVE  run'[t] = run[t] /\ Left(t)' < Left(t)
  BY <1>4 DEF OutOfTime, Timeout, Complete, Finish, LeaveReported, Left
<1>5. ASSUME Module(t) PROVE run'[t] = run[t] /\ GetsCloser(t)
  <2>1. /\ pc[t] = "call" /\ pc'[t] \in {"chunk", "output", "report"}
        /\ expired'[t] = expired[t] /\ run'[t] = run[t]
    BY <1>5 DEF Module, Return, Yield, StreamEnd, Raise
  <2>2. QED
    BY <2>1 DEF Left, GetsCloser
<1>6. ASSUME AsyncioCancel(t) \/ Expire(t) PROVE run'[t] = run[t] /\ Left(t)' < Left(t)
  <2>1. CASE AsyncioCancel(t)
    <3>1. pc'[t] = "idle" /\ run'[t] = run[t]
      BY <2>1 DEF AsyncioCancel
    <3>2. Left(t)' = 0
      BY <3>1 DEF Left
    <3>3. Left(t) \in 0 .. 12 /\ Left(t) # 0
      BY LeftType
    <3>4. QED
      BY <3>1, <3>2, <3>3
  <2>2. CASE Expire(t)
    BY <2>2 DEF Expire, Left
  <2>3. QED
    BY <1>6, <2>1, <2>2
<1>7. ~Start(t)
  BY DEF Start
<1>8. ASSUME NEW u \in Tasks, u # t,
             Start(u) \/ Host(u) \/ Module(u) \/ AsyncioCancel(u) \/ Expire(u)
      PROVE  Frozen(t)
  BY <1>8 DEF Frozen, Start, Host, Module, Publish, Refuse, LeaveRefused, Launch,
              LaunchBroken, Continue, OutOfTime, Timeout, Complete, Finish, LeaveReported,
              Return, Yield, StreamEnd, Raise, AsyncioCancel, Expire
<1>9. ASSUME NEW u \in Tasks, Settle(u) PROVE Frozen(t)
  BY <1>9 DEF Frozen, Settle, execVars
<1>10. ASSUME NEW c \in Cancels, CancelStep(c) PROVE Frozen(t)
  BY <1>10 DEF Frozen, CancelStep, Cancel, PublishCanceled, FinishCancel, AbortCancel, execVars
<1>11. ASSUME UNCHANGED vars PROVE Frozen(t)
  BY <1>11 DEF Frozen, vars, execVars
<1>12. QED
  BY <1>1, <1>2, <1>3, <1>4, <1>5, <1>6, <1>7, <1>8, <1>9, <1>10, <1>11
     DEF Next, Host, Rest, Frozen, GetsCloser
(* Away from rank 10 every step of the host makes the rank smaller; at     *)
(* rank 10 the timer does.                                                 *)
LEMMA HostDescends ==
  ASSUME TypeOK, EventOrder, NEW t \in Tasks, pc[t] # "idle", Left(t) # 10, Host(t)
  PROVE  run'[t] = run[t] /\ Left(t)' < Left(t)
<1>1. Next
  BY DEF Next
<1>2. run'[t] = run[t] /\ (Frozen(t) \/ GetsCloser(t))
  BY <1>1, LeftNeverGrows
<1>3. ~Frozen(t)
  BY DEF Frozen, Host, Publish, Refuse, LeaveRefused, Launch, LaunchBroken, Continue,
         OutOfTime, Timeout, Complete, Finish, LeaveReported, Step, Leave, TypeOK
<1>4. QED
  BY <1>2, <1>3 DEF GetsCloser

LEMMA TimerDescends ==
  ASSUME TypeOK, EventOrder, NEW t \in Tasks, Left(t) = 10, Expire(t)
  PROVE  run'[t] = run[t] /\ Left(t)' < 10
<1>1. CASE pc[t] = "call"
  BY <1>1 DEF Expire, Left, TypeOK
<1>2. CASE pc[t] = "chunk"
  BY <1>2 DEF Expire, Left, TypeOK
<1>3. QED
  BY <1>1, <1>2 DEF Expire

(* The rank says whose turn it is.                                         *)
LEMMA WhoseTurn ==
  ASSUME TypeOK, NEW t \in Tasks, pc[t] # "idle"
  PROVE  IF Left(t) = 10 THEN TimerRunning(t) ELSE HostReady(t)
BY DEF TypeOK, Left, TimerRunning, HostReady, PCs, Guarded
At(t, r, k)    == run[t] = r /\ Left(t) = k
Below(t, r, k) == run[t] = r /\ Left(t) < k
Drops(t, r, k) == At(t, r, k) ~> Below(t, r, k)
Sinks(t, r, n, k) == Below(t, r, n) ~> Below(t, r, k)

(* No rank above zero is for ever: the actor whose turn it is stays        *)
(* enabled until it moves, and fairness makes it move.                     *)
LEMMA RankDrops ==
  ASSUME NEW t \in Tasks, NEW r \in 1 .. MaxRuns, NEW k \in 1 .. 12
  PROVE  Spec /\ Fair(t) /\ []NeverStuck
           => Drops(t, r, k)
<1>1. TypeOK /\ At(t, r, k) => pc[t] # "idle"
  BY LeftType DEF At
<1>2. TypeOK /\ EventOrder /\ [Next]_vars /\ At(t, r, k) => At(t, r, k)' \/ Below(t, r, k)'
  <2>1. SUFFICES ASSUME TypeOK, EventOrder, [Next]_vars, At(t, r, k)
                 PROVE  At(t, r, k)' \/ Below(t, r, k)'
    OBVIOUS
  <2>2. run'[t] = run[t] /\ (Frozen(t) \/ GetsCloser(t))
    BY <1>1, <2>1, LeftNeverGrows
  <2>3. Frozen(t) => Left(t)' = Left(t)
    BY LeftUnchanged DEF Frozen
  <2>4. QED
    BY <2>1, <2>2, <2>3 DEF At, Below, GetsCloser
<1>3. CASE k = 10
  <2>1. TypeOK /\ EventOrder /\ <<Expire(t)>>_vars /\ At(t, r, k) => Below(t, r, k)'
    BY <1>3, TimerDescends DEF At, Below
  <2>2. TypeOK /\ NeverStuck /\ At(t, r, k) => ENABLED <<Expire(t)>>_vars
    BY <1>1, <1>3, WhoseTurn DEF At, NeverStuck
  <2>3. QED
    BY <1>2, <2>1, <2>2, TypeCorrect, EventOrderInvariant, PTL DEF Spec, Fair, Drops
<1>4. CASE ~(k = 10)
  <2>1. TypeOK /\ EventOrder /\ <<Host(t)>>_vars /\ At(t, r, k) => Below(t, r, k)'
    BY <1>1, <1>4, HostDescends DEF At, Below
  <2>2. TypeOK /\ NeverStuck /\ At(t, r, k) => ENABLED <<Host(t)>>_vars
    BY <1>1, <1>4, WhoseTurn DEF At, NeverStuck
  <2>3. QED
    BY <1>2, <2>1, <2>2, TypeCorrect, EventOrderInvariant, PTL DEF Spec, Fair, Drops
<1>5. QED
  BY <1>3, <1>4

(* Every message is answered, whatever the module does: the code behaviour *)
(* is that the loop resumes what it can and that timers fire.  Hypothesis: *)
(* at every await there is a next step (NeverStuck, an ENABLED formula,    *)
(* which TLC checks).                                                      *)
THEOREM EveryMessageIsAnswered == FairSpec /\ []NeverStuck => EveryMessageAnswered
<1>1. SUFFICES ASSUME NEW t \in Tasks, NEW r \in 1 .. MaxRuns
               PROVE  FairSpec /\ []NeverStuck =>
                        ((run[t] = r /\ pc[t] # "idle") ~>
                         (run[t] = r /\ pc[t] = "idle"
                            /\ (last[t] \in Outcomes \/ r \in aborted[t])))
  BY DEF EveryMessageAnswered
<1>2. FairSpec => Spec /\ Fair(t)
  BY DEF FairSpec, Fairness
<1>3. TypeOK /\ run[t] = r => Below(t, r, 13)
  BY LeftType DEF Below
<1>4. TypeOK /\ AnsweredUnlessAborted /\ Below(t, r, 1) =>
        run[t] = r /\ pc[t] = "idle" /\ (last[t] \in Outcomes \/ r \in aborted[t])
  BY LeftType DEF Below, AnsweredUnlessAborted
<1>5. ASSUME NEW k \in 1 .. 12, NEW n, n = k + 1
      PROVE  Spec /\ Fair(t) /\ []NeverStuck => Sinks(t, r, n, k)
  <2>1. TypeOK /\ Below(t, r, n) => At(t, r, k) \/ Below(t, r, k)
    BY <1>5, LeftType DEF Below, At
  <2>2. Spec /\ Fair(t) /\ []NeverStuck => Drops(t, r, k)
    BY RankDrops
  <2>3. QED
    BY <2>1, <2>2, TypeCorrect, PTL DEF Drops, Sinks
<1>6. Spec /\ Fair(t) /\ []NeverStuck =>
        /\ Sinks(t, r, 13, 12) /\ Sinks(t, r, 12, 11) /\ Sinks(t, r, 11, 10)
        /\ Sinks(t, r, 10, 9)  /\ Sinks(t, r, 9, 8)   /\ Sinks(t, r, 8, 7)
        /\ Sinks(t, r, 7, 6)   /\ Sinks(t, r, 6, 5)   /\ Sinks(t, r, 5, 4)
        /\ Sinks(t, r, 4, 3)   /\ Sinks(t, r, 3, 2)   /\ Sinks(t, r, 2, 1)
  BY <1>5
<1>7. QED
  BY <1>2, <1>3, <1>4, <1>6, TypeCorrect, AlwaysAnswered, PTL DEF Sinks

-----------------------------------------------------------------------------
(* How many outcomes, and why one is "canceled" *)

(* Whatever is enqueued comes before any terminal status of its execution. *)
LEMMA PendingComesFirst ==
  ASSUME EventOrder, TypeOK, NEW t \in Tasks, pend[t] # "none"
  PROVE  pc[t] # "idle" /\ last[t] \notin Terminal /\ pend[t] \in Events
<1>1. pc[t] # "idle"
  BY DEF EventOrder
<1>2. pc[t] \in {"announce", "refusing", "call", "chunk", "output", "completing", "report"}
  BY <1>1 DEF TypeOK, PCs, Guarded
<1>3. last[t] \in {"silent", "submitted", "first", "more", "whole", "end"}
  BY <1>2 DEF EventOrder, PutOr, Streamed, Chunks, Closers
<1>4. pend[t] \in Events
  BY DEF TypeOK
<1>5. QED
  BY <1>1, <1>3, <1>4 DEF Terminal, Outcomes

(* The cancel requests that have put their own "canceled" on the queue.    *)
CanceledBy(t) ==
  {c \in Cancels : ctask[c] = t /\ cpc[c] \in {"notify", "done", "uncounted"}}

(* The executions of t that may have put a terminal status there.          *)
Spent(t) == run[t] - Ind(pc[t] # "idle" /\ last[t] \notin Terminal)

OutcomesAreOwed ==
  \A t \in Tasks : terminals[t] <= Spent(t) + Cardinality(CanceledBy(t))

AtMostOneOutcomeEach ==
  \A t \in Tasks : terminals[t] <= run[t] + Cardinality(CanceledBy(t))

LEMMA CanceledByFinite ==
  ASSUME NEW t
  PROVE  CanceledBy(t) \in SUBSET Cancels /\ Cardinality(CanceledBy(t)) \in Nat
<1>1. CanceledBy(t) \in SUBSET Cancels
  BY DEF CanceledBy
<1>2. QED
  BY <1>1, FiniteAssumption, FS_Subset, FS_CardinalityType

(* A step of one execution, which leaves the cancels alone.                *)
LEMMA OwedByTask ==
  ASSUME TypeOK, OutcomesAreOwed, NEW t \in Tasks, UNCHANGED cancelVars,
         \A u \in Tasks \ {t} : /\ terminals'[u] = terminals[u] /\ run'[u] = run[u]
                               /\ pc'[u] = pc[u] /\ last'[u] = last[u],
         terminals'[t] - Spent(t)' <= terminals[t] - Spent(t),
         terminals'[t] \in Nat, run'[t] \in Nat
  PROVE  OutcomesAreOwed'
<1>1. \A u \in Tasks : CanceledBy(u)' = CanceledBy(u)
  BY DEF CanceledBy, cancelVars
<1>2. \A u \in Tasks : Cardinality(CanceledBy(u)) \in Nat
  BY CanceledByFinite
<1>3. Spent(t) \in Int /\ Spent(t)' \in Int /\ terminals[t] \in Nat
  BY DEF TypeOK, Spent, Ind
<1>4. terminals'[t] <= Spent(t)' + Cardinality(CanceledBy(t)')
  <2>1. terminals[t] <= Spent(t) + Cardinality(CanceledBy(t))
    BY DEF OutcomesAreOwed
  <2>2. Cardinality(CanceledBy(t)') = Cardinality(CanceledBy(t))
    BY <1>1
  <2>3. QED
    BY <1>2, <1>3, <2>1, <2>2
<1>5. ASSUME NEW u \in Tasks \ {t}
      PROVE  terminals'[u] <= Spent(u)' + Cardinality(CanceledBy(u)')
  <2>1. Spent(u)' = Spent(u) /\ terminals'[u] = terminals[u]
    BY DEF Spent
  <2>2. QED
    BY <1>1, <2>1 DEF OutcomesAreOwed
<1>6. QED
  BY <1>4, <1>5 DEF OutcomesAreOwed

LEMMA OwedInductive ==
  ASSUME TypeOK, TypeOK', EventOrder, OutcomesAreOwed, [Next]_vars
  PROVE  OutcomesAreOwed'
<1>1. \A t \in Tasks : /\ run[t] \in Nat /\ run'[t] \in Nat
                       /\ terminals[t] \in Nat /\ terminals'[t] \in Nat
  BY DEF TypeOK
<1>2. ASSUME NEW t \in Tasks, Start(t) PROVE OutcomesAreOwed'
  <2>1. /\ run' = [run EXCEPT ![t] = run[t] + 1] /\ last' = [last EXCEPT ![t] = "silent"]
        /\ pc' = [pc EXCEPT ![t] = "announce"] /\ pc[t] = "idle"
        /\ UNCHANGED <<terminals, cancelVars>>
    BY <1>2 DEF Start, Step, wireVars
  <2>2. Spent(t)' = run[t] /\ Spent(t) = run[t]
    <3>1. run'[t] = run[t] + 1 /\ last'[t] = "silent" /\ pc'[t] = "announce"
      BY <2>1 DEF TypeOK
    <3>2. "silent" \notin Terminal
      BY DEF Terminal, Outcomes
    <3>3. Spent(t)' = run'[t] - 1 /\ Spent(t) = run[t] - 0
      BY <2>1, <3>1, <3>2 DEF Spent, Ind
    <3>4. QED
      BY <1>1, <3>1, <3>3
  <2>3. \A u \in Tasks \ {t} : run'[u] = run[u] /\ pc'[u] = pc[u] /\ last'[u] = last[u]
    BY <2>1 DEF TypeOK
  <2>4. QED
    BY <1>1, <2>1, <2>2, <2>3, OwedByTask
<1>3. ASSUME NEW t \in Tasks, Publish(t) PROVE OutcomesAreOwed'
  <2>1. /\ pend[t] # "none" /\ RecordOn(t, pend[t]) /\ last' = [last EXCEPT ![t] = pend[t]]
        /\ UNCHANGED <<pc, run, cancelVars>>
    BY <1>3 DEF Publish
  <2>2. pc[t] # "idle" /\ last[t] \notin Terminal
    BY <2>1, PendingComesFirst
  <2>3. last'[t] = pend[t] /\ \A u \in Tasks \ {t} : last'[u] = last[u]
    BY <2>1 DEF TypeOK
  <2>4. terminals'[t] = terminals[t] + Ind(pend[t] \in Terminal)
        /\ \A u \in Tasks \ {t} : terminals'[u] = terminals[u]
    BY <1>1, <2>1 DEF RecordOn, TypeOK, Ind
  <2>5. Spent(t) = run[t] - 1 /\ Spent(t)' = run[t] - Ind(pend[t] \notin Terminal)
    BY <2>1, <2>2, <2>3 DEF Spent, Ind
  <2>6. terminals'[t] - Spent(t)' <= terminals[t] - Spent(t)
    BY <1>1, <2>4, <2>5 DEF Ind
  <2>7. QED
    BY <1>1, <2>1, <2>3, <2>4, <2>6, OwedByTask
<1>4. ASSUME NEW t \in Tasks, UNCHANGED <<terminals, run, last, cancelVars>>,
             \A u \in Tasks \ {t} : pc'[u] = pc[u],
             pc[t] # "idle"
      PROVE  OutcomesAreOwed'
  <2>1. Spent(t) <= Spent(t)' /\ Spent(t) \in Int /\ Spent(t)' \in Int
    BY <1>1, <1>4 DEF Spent, Ind
  <2>2. terminals'[t] - Spent(t)' <= terminals[t] - Spent(t)
    BY <1>1, <1>4, <2>1
  <2>3. QED
    BY <1>1, <1>4, <2>2, OwedByTask
<1>5. ASSUME NEW t \in Tasks,
             \/ Refuse(t) \/ Launch(t) \/ LaunchBroken(t) \/ Continue(t) \/ OutOfTime(t)
             \/ Timeout(t) \/ Complete(t) \/ Module(t) \/ LeaveRefused(t) \/ Finish(t)
             \/ LeaveReported(t) \/ AsyncioCancel(t) \/ Expire(t)
      PROVE  OutcomesAreOwed'
  <2>1. UNCHANGED <<terminals, run, last, cancelVars>> /\ pc[t] # "idle"
    BY <1>5 DEF Refuse, Launch, LaunchBroken, Continue, OutOfTime, Timeout, Complete, Module,
                Return, Yield, StreamEnd, Raise, LeaveRefused, Finish, LeaveReported,
                AsyncioCancel, Expire, Step, Leave, wireVars
  <2>2. \/ pc' = pc \/ \E to : pc' = [pc EXCEPT ![t] = to]
    BY <1>5 DEF Refuse, Launch, LaunchBroken, Continue, OutOfTime, Timeout, Complete, Module,
                Return, Yield, StreamEnd, Raise, LeaveRefused, Finish, LeaveReported,
                AsyncioCancel, Expire, Step, Leave
  <2>3. \A u \in Tasks \ {t} : pc'[u] = pc[u]
    BY <2>2 DEF TypeOK
  <2>4. QED
    BY <1>4, <2>1, <2>3
<1>6. ASSUME UNCHANGED <<terminals, run, last, pc>>,
             \A t \in Tasks : CanceledBy(t)' = CanceledBy(t)
      PROVE  OutcomesAreOwed'
  <2>1. \A t \in Tasks : Spent(t)' = Spent(t)
    BY <1>6 DEF Spent
  <2>2. QED
    BY <1>6, <2>1 DEF OutcomesAreOwed
<1>7. ASSUME NEW c \in Cancels,
             (\E t \in Tasks : Cancel(c, t)) \/ FinishCancel(c) \/ AbortCancel(c)
      PROVE  OutcomesAreOwed'
  <2>1. /\ UNCHANGED <<terminals, run, last, pc>>
        /\ \/ /\ cpc[c] = "ready" /\ cpc' = [cpc EXCEPT ![c] = "put"]
              /\ \E t \in Tasks : ctask' = [ctask EXCEPT ![c] = t]
           \/ /\ cpc[c] = "notify" /\ ctask' = ctask
              /\ \E to \in {"done", "uncounted"} : cpc' = [cpc EXCEPT ![c] = to]
           \/ cpc[c] = "put" /\ cpc' = [cpc EXCEPT ![c] = "lost"] /\ ctask' = ctask
    BY <1>7 DEF Cancel, FinishCancel, AbortCancel, execVars, wireVars
  <2>2. \A u \in Tasks : CanceledBy(u)' = CanceledBy(u)
    BY <2>1 DEF CanceledBy, TypeOK
  <2>3. QED
    BY <1>6, <2>1, <2>2
<1>8. ASSUME NEW c \in Cancels, PublishCanceled(c) PROVE OutcomesAreOwed'
  <2>1. /\ cpc[c] = "put" /\ cpc' = [cpc EXCEPT ![c] = "notify"] /\ ctask' = ctask
        /\ terminals' = [terminals EXCEPT ![ctask[c]] = terminals[ctask[c]] + 1]
        /\ UNCHANGED <<run, last, pc>>
    BY <1>8 DEF PublishCanceled, RecordOn, execVars, Terminal, Outcomes
  <2>2. ASSUME NEW t \in Tasks
        PROVE  terminals'[t] <= Spent(t)' + Cardinality(CanceledBy(t)')
    <3>1. /\ \A x \in Cancels \ {c} : x \in CanceledBy(t)' <=> x \in CanceledBy(t)
          /\ c \notin CanceledBy(t) /\ (c \in CanceledBy(t)' <=> ctask[c] = t)
      BY <2>1 DEF CanceledBy, TypeOK
    <3>2. CanceledBy(t) \in SUBSET Cancels /\ CanceledBy(t)' \in SUBSET Cancels
      BY DEF CanceledBy
    <3>3. /\ Cardinality(CanceledBy(t)) \in Nat
          /\ Cardinality(CanceledBy(t)')
               = Cardinality(CanceledBy(t)) - Ind(c \in CanceledBy(t)) + Ind(c \in CanceledBy(t)')
      BY <3>1, <3>2, FiniteAssumption, CardinalityAt
    <3>4. terminals'[t] = terminals[t] + Ind(ctask[c] = t)
      BY <1>1, <2>1 DEF TypeOK, Ind
    <3>5. Spent(t)' = Spent(t) /\ Spent(t) \in Int
      BY <1>1, <2>1 DEF Spent, Ind
    <3>6. Cardinality(CanceledBy(t)') = Cardinality(CanceledBy(t)) + Ind(ctask[c] = t)
      BY <3>1, <3>3 DEF Ind
    <3>7. terminals[t] <= Spent(t) + Cardinality(CanceledBy(t)) /\ Ind(ctask[c] = t) \in 0 .. 1
      BY DEF OutcomesAreOwed, Ind
    <3>8. QED
      BY <1>1, <3>3, <3>4, <3>5, <3>6, <3>7
  <2>3. QED
    BY <2>2 DEF OutcomesAreOwed
<1>9. ASSUME NEW t \in Tasks, Settle(t) PROVE OutcomesAreOwed'
  BY <1>6, <1>9 DEF Settle, execVars, cancelVars, CanceledBy
<1>10. CASE UNCHANGED vars
  BY <1>6, <1>10 DEF vars, execVars, cancelVars, wireVars, CanceledBy
<1>11. ASSUME NEW t \in Tasks, Host(t) PROVE OutcomesAreOwed'
  BY <1>3, <1>5, <1>11 DEF Host
<1>12. ASSUME NEW c \in Cancels, CancelStep(c) PROVE OutcomesAreOwed'
  BY <1>7, <1>8, <1>12 DEF CancelStep
<1>13. ASSUME NEW t \in Tasks,
              \/ Start(t) \/ Host(t) \/ Module(t) \/ AsyncioCancel(t) \/ Expire(t) \/ Settle(t)
       PROVE  OutcomesAreOwed'
  BY <1>2, <1>5, <1>9, <1>11, <1>13
<1>14. CASE Rest
  BY <1>10, <1>14 DEF Rest
<1>15. QED
  BY <1>10, <1>12, <1>13, <1>14 DEF Next

(* A message is answered by one terminal status at most, and a cancel      *)
(* request adds one at most: a subscriber never sees an execution end      *)
(* twice, however module errors, timeouts, cancels and asyncio race.       *)
THEOREM OutcomesAreCounted == Spec => []AtMostOneOutcomeEach
<1>1. Init => OutcomesAreOwed
  <2>1. SUFFICES ASSUME Init, NEW t \in Tasks
                 PROVE  terminals[t] <= Spent(t) + Cardinality(CanceledBy(t))
    BY DEF OutcomesAreOwed
  <2>2. terminals[t] = 0 /\ Spent(t) = 0
    BY <2>1 DEF Init, Spent, Ind
  <2>3. Cardinality(CanceledBy(t)) \in Nat
    BY CanceledByFinite
  <2>4. QED
    BY <2>2, <2>3
<1>2. TypeOK /\ TypeOK' /\ EventOrder /\ OutcomesAreOwed /\ [Next]_vars => OutcomesAreOwed'
  BY OwedInductive
<1>3. TypeOK /\ OutcomesAreOwed => AtMostOneOutcomeEach
  <2>1. SUFFICES ASSUME TypeOK, OutcomesAreOwed, NEW t \in Tasks
                 PROVE  terminals[t] <= run[t] + Cardinality(CanceledBy(t))
    BY DEF AtMostOneOutcomeEach
  <2>2. /\ terminals[t] \in Nat /\ run[t] \in Nat
        /\ terminals[t] <= Spent(t) + Cardinality(CanceledBy(t))
    BY <2>1 DEF TypeOK, OutcomesAreOwed
  <2>3. Spent(t) \in Int /\ Spent(t) <= run[t]
    BY <2>2 DEF Spent, Ind
  <2>4. Cardinality(CanceledBy(t)) \in Nat
    BY CanceledByFinite
  <2>5. QED
    BY <2>2, <2>3, <2>4
<1>4. QED
  BY <1>1, <1>2, <1>3, TypeCorrect, EventOrderInvariant, PTL DEF Spec

(* Every token that was called belongs to the task of a cancel request.    *)
SignalsAreRequested ==
  \A x \in signalled : \E c \in Cancels : ctask[c] = x[1] /\ cpc[c] # "ready"

CanceledWasSignalled ==
  \A t \in Tasks : last[t] = "canceled" \/ pend[t] = "canceled" =>
    <<t, run[t]>> \in signalled

CanceledOnRequest ==
  \A t \in Tasks : last[t] = "canceled" =>
    /\ <<t, run[t]>> \in signalled
    /\ \E c \in Cancels : ctask[c] = t /\ cpc[c] # "ready"

LEMMA RequestedInductive ==
  ASSUME TypeOK, SignalsAreRequested, [Next]_vars
  PROVE  SignalsAreRequested'
<1>1. ASSUME NEW c \in Cancels, NEW t \in Tasks, Cancel(c, t) PROVE SignalsAreRequested'
  <2>1. /\ cpc[c] = "ready" /\ cpc' = [cpc EXCEPT ![c] = "put"]
        /\ ctask' = [ctask EXCEPT ![c] = t]
        /\ \A x \in signalled' : x \in signalled \/ x[1] = t
    BY <1>1 DEF Cancel
  <2>2. ctask'[c] = t /\ cpc'[c] = "put"
    BY <2>1 DEF TypeOK
  <2>3. ASSUME NEW x \in signalled
        PROVE  \E d \in Cancels : ctask'[d] = x[1] /\ cpc'[d] # "ready"
    <3>1. PICK d \in Cancels : ctask[d] = x[1] /\ cpc[d] # "ready"
      BY DEF SignalsAreRequested
    <3>2. d # c /\ ctask'[d] = ctask[d] /\ cpc'[d] = cpc[d]
      BY <2>1, <3>1 DEF TypeOK
    <3>3. QED
      BY <3>1, <3>2
  <2>4. QED
    BY <2>1, <2>2, <2>3 DEF SignalsAreRequested
<1>2. ASSUME NEW c \in Cancels, PublishCanceled(c) \/ FinishCancel(c) \/ AbortCancel(c)
      PROVE  SignalsAreRequested'
  <2>1. /\ UNCHANGED <<signalled, ctask>>
        /\ \E to \in {"notify", "done", "lost", "uncounted"} : cpc' = [cpc EXCEPT ![c] = to]
    BY <1>2 DEF PublishCanceled, FinishCancel, AbortCancel, tokenVars
  <2>2. \A d \in Cancels : cpc[d] # "ready" => cpc'[d] # "ready"
    BY <2>1 DEF TypeOK
  <2>3. QED
    BY <2>1, <2>2 DEF SignalsAreRequested
<1>3. CASE UNCHANGED <<signalled, cancelVars>>
  BY <1>3 DEF SignalsAreRequested, cancelVars
<1>4. ASSUME NEW t \in Tasks,
             Start(t) \/ Host(t) \/ Module(t) \/ AsyncioCancel(t) \/ Expire(t) \/ Settle(t)
      PROVE  UNCHANGED <<signalled, cancelVars>>
  BY <1>4 DEF Start, Host, Module, AsyncioCancel, Expire, Settle, Publish, Refuse, LeaveRefused,
              Launch, LaunchBroken, Continue, OutOfTime, Timeout, Complete, Finish,
              LeaveReported, Return, Yield, StreamEnd, Raise, tokenVars
<1>5. CASE UNCHANGED vars
  BY <1>3, <1>5 DEF vars, tokenVars
<1>6. QED
  BY <1>1, <1>2, <1>3, <1>4, <1>5 DEF Next, CancelStep, Rest

LEMMA SignalledInductive ==
  ASSUME TypeOK, CanceledWasSignalled, [Next]_vars
  PROVE  CanceledWasSignalled'
<1>1. /\ last \in [Tasks -> Events \cup {"silent"}] /\ pend \in [Tasks -> Events \cup {"none"}]
      /\ run \in [Tasks -> Nat] /\ chunked \in [Tasks -> BOOLEAN]
  BY DEF TypeOK
<1>2. ASSUME NEW t \in Tasks, Start(t) PROVE CanceledWasSignalled'
  <2>1. /\ pend' = [pend EXCEPT ![t] = "submitted"] /\ last' = [last EXCEPT ![t] = "silent"]
        /\ run' = [run EXCEPT ![t] = run[t] + 1] /\ UNCHANGED signalled
    BY <1>2 DEF Start, Step, tokenVars
  <2>2. QED
    BY <1>1, <2>1 DEF CanceledWasSignalled
<1>3. ASSUME NEW t \in Tasks, Publish(t) PROVE CanceledWasSignalled'
  <2>1. /\ pend' = [pend EXCEPT ![t] = "none"] /\ last' = [last EXCEPT ![t] = pend[t]]
        /\ UNCHANGED <<run, signalled>>
    BY <1>3 DEF Publish, tokenVars
  <2>2. QED
    BY <1>1, <2>1 DEF CanceledWasSignalled
<1>4. ASSUME NEW t \in Tasks, NEW code \in Codes, Raise(t, code)
      PROVE  CanceledWasSignalled'
  <2>1. /\ pend' = [pend EXCEPT ![t] = StatusOf(code)] /\ UNCHANGED <<last, run, signalled>>
        /\ code = "EXECUTION_CANCELLED" => <<t, run[t]>> \in signalled
    BY <1>4 DEF Raise, Step, tokenVars
  <2>2. StatusOf(code) = "canceled" => code = "EXECUTION_CANCELLED"
    BY DEF StatusOf
  <2>3. QED
    BY <1>1, <2>1, <2>2 DEF CanceledWasSignalled
<1>5. ASSUME NEW t \in Tasks, UNCHANGED <<last, run, signalled>>,
             \E e \in {"none", "failed", "first", "more", "whole", "end", "completed"} :
               pend' = [pend EXCEPT ![t] = e]
      PROVE  CanceledWasSignalled'
  BY <1>1, <1>5 DEF CanceledWasSignalled
<1>6. ASSUME NEW t \in Tasks,
             \/ Refuse(t) \/ LaunchBroken(t) \/ OutOfTime(t) \/ Timeout(t)
             \/ Launch(t) \/ Continue(t) \/ Return(t) \/ StreamEnd(t) \/ Complete(t)
      PROVE  CanceledWasSignalled'
  BY <1>5, <1>6 DEF Refuse, LaunchBroken, OutOfTime, Timeout, Launch, Continue, Return,
                    StreamEnd, Complete, Step, tokenVars
<1>7. ASSUME NEW t \in Tasks, Yield(t) PROVE CanceledWasSignalled'
  BY <1>5, <1>7 DEF Yield, ChunkEvent, Step, tokenVars
<1>8. ASSUME NEW t \in Tasks,
             LeaveRefused(t) \/ Finish(t) \/ LeaveReported(t) \/ AsyncioCancel(t)
      PROVE  CanceledWasSignalled'
  BY <1>5, <1>8 DEF LeaveRefused, Finish, LeaveReported, AsyncioCancel, Leave, tokenVars
<1>9. ASSUME UNCHANGED <<last, pend, run>>, signalled \subseteq signalled'
      PROVE  CanceledWasSignalled'
  BY <1>9 DEF CanceledWasSignalled
<1>10. ASSUME NEW t \in Tasks, Expire(t) \/ Settle(t) PROVE CanceledWasSignalled'
  BY <1>9, <1>10 DEF Expire, Settle, execVars, tokenVars
<1>11. ASSUME NEW c \in Cancels, CancelStep(c) PROVE CanceledWasSignalled'
  BY <1>9, <1>11 DEF CancelStep, Cancel, PublishCanceled, FinishCancel, AbortCancel, execVars, tokenVars
<1>12. CASE UNCHANGED vars
  BY <1>9, <1>12 DEF vars, execVars, tokenVars
<1>13. ASSUME NEW t \in Tasks, Host(t) \/ Module(t) PROVE CanceledWasSignalled'
  BY <1>3, <1>4, <1>6, <1>7, <1>8, <1>13 DEF Host, Module
<1>14. CASE Rest
  BY <1>12, <1>14 DEF Rest
<1>15. QED
  BY <1>2, <1>8, <1>10, <1>11, <1>12, <1>13, <1>14 DEF Next

(* An execution only ever ends as canceled because a cancel request for    *)
(* that task was made while this execution was in flight: never by itself, *)
(* by the cancel of another task or by one of an earlier message.          *)
THEOREM CanceledOnlyOnRequest == Spec => []CanceledOnRequest
<1>1. Init => SignalsAreRequested /\ CanceledWasSignalled
  BY DEF Init, SignalsAreRequested, CanceledWasSignalled
<1>2. TypeOK /\ SignalsAreRequested /\ [Next]_vars => SignalsAreRequested'
  BY RequestedInductive
<1>3. TypeOK /\ CanceledWasSignalled /\ [Next]_vars => CanceledWasSignalled'
  BY SignalledInductive
<1>4. SignalsAreRequested /\ CanceledWasSignalled => CanceledOnRequest
  <2>1. SUFFICES ASSUME SignalsAreRequested, CanceledWasSignalled, NEW t \in Tasks,
                        last[t] = "canceled"
                 PROVE  /\ <<t, run[t]>> \in signalled
                        /\ \E c \in Cancels : ctask[c] = t /\ cpc[c] # "ready"
    BY DEF CanceledOnRequest
  <2>2. <<t, run[t]>> \in signalled
    BY <2>1 DEF CanceledWasSignalled
  <2>3. <<t, run[t]>>[1] = t
    OBVIOUS
  <2>4. QED
    BY <2>1, <2>2, <2>3 DEF SignalsAreRequested
<1>5. QED
  BY <1>1, <1>2, <1>3, <1>4, TypeCorrect, PTL DEF Spec
=============================================================================
