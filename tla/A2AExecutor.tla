---------------------------- MODULE A2AExecutor ----------------------------
(***************************************************************************)
(* ApCoreAgentExecutor (server/executor.py): execute() and cancel(), the   *)
(* map of cancel tokens they share, the events they put on a task's queue, *)
(* and the /metrics counters fed by their state-change callback            *)
(* (server/factory.py, _MetricsState).                                     *)
(*                                                                         *)
(* The program is one asyncio event loop: the code between two awaits is   *)
(* atomic and is one action here; every await is a value of pc (or cpc).   *)
(* An "await enqueue_event(e)" is left in two steps, because the loop may  *)
(* run other coroutines before e is on the queue and again before the      *)
(* caller resumes: pend holds e until Publish puts it on the queue, and    *)
(* the next action of the caller waits for pend to be empty.               *)
(*                                                                         *)
(* Events are named by what a subscriber can tell apart:                   *)
(*   "submitted"        the initial Task object, status SUBMITTED          *)
(*   "first" / "more"   a chunk of output, append = FALSE / TRUE           *)
(*   "whole"            the single-call output, append FALSE, last_chunk   *)
(*   "end"              the empty end-of-stream artifact, append TRUE,     *)
(*                      last_chunk TRUE                                    *)
(*   an Outcome         a status update with that state                    *)
(***************************************************************************)
EXTENDS Integers, FiniteSets

CONSTANTS
  Tasks,        \* A2A task ids
  Cancels,      \* tasks/cancel requests that reach the executor (a bound)
  MaxRuns,      \* how often execute() is called for one task (a bound)
  NoTask        \* the task of a cancel request not yet made

ASSUME MaxRunsAssumption == MaxRuns \in Nat
ASSUME NoTaskAssumption == NoTask \notin Tasks
ASSUME FiniteAssumption == IsFiniteSet(Tasks) /\ IsFiniteSet(Cancels)

Outcomes == {"completed", "failed", "canceled", "rejected", "input_required"}
Terminal == Outcomes \ {"input_required"}
Stops    == Outcomes \ {"completed"}
States   == Outcomes \cup {"submitted", "working"}
Chunks   == {"first", "more"}
Closers  == {"whole", "end"}
Events   == {"submitted"} \cup Chunks \cup Closers \cup Outcomes

StreamKinds == {"asyncgen", "coroutine", "none"}

Codes == {"TimeoutError", "MODULE_TIMEOUT", "EXECUTION_CANCELLED",
          "APPROVAL_PENDING", "ACL_DENIED", "APPROVAL_DENIED",
          "APPROVAL_TIMEOUT", "OTHER"}
GovernanceRefusalCodes == {"ACL_DENIED", "APPROVAL_DENIED", "APPROVAL_TIMEOUT"}

VARIABLES
  streamKind,   \* what inspect says of the host's executor.stream: "asyncgen",
                \* "coroutine", or "none" (absent, or an ordinary function)
  pc,           \* where execute(t) is suspended; "idle" when there is none
  pend,         \* the event execute(t) is enqueueing, or "none"
  last,         \* the last event this execution of t enqueued, or "silent"
  heads,        \* artifacts with append = FALSE it has enqueued
  chunked,      \* chunk_index > 0
  expired,      \* its execution_timeout has elapsed
  bind,         \* its apcore Context: "full", "tokenOnly", "none"
  run,          \* how often execute(t) has been called
  aborted,      \* the runs of t that asyncio cancelled
  cancelTokens, \* self._cancel_tokens: the run whose token is registered, or 0
  signalled,    \* <<t, r>>: cancel() was called on the token of run r of t
  cpc,          \* where a cancel() call is suspended, or how it ended
  ctask,        \* the task it cancels
  store,        \* external: what the SDK's task store says of t
  published,    \* status events put on the queues, by state
  terminals,    \* terminal status events put on the queue of t
  metrics       \* _MetricsState

execVars   == <<pc, pend, last, heads, chunked, expired, bind, run, aborted>>
tokenVars  == <<cancelTokens, signalled>>
cancelVars == <<cpc, ctask>>
wireVars   == <<store, published, terminals>>
vars == <<streamKind, execVars, tokenVars, cancelVars, wireVars, metrics>>

-----------------------------------------------------------------------------
(* Metrics *)

Counted == {"completed", "failed", "canceled", "input_required"}
ActiveStates == {"submitted", "working", "input_required"}

(* A slip: only the hyphenated spelling of input-required is counted. *)
OnStateTransitionHyphenOnly(m, old, new) ==
  [c \in DOMAIN m |->
     IF c = new /\ c # "input_required" THEN m[c] + 1 ELSE m[c]]

(* A slip: the gauge is decremented without the floor at zero. *)
OnStateTransitionNoFloor(m, old, new) ==
  [c \in DOMAIN m |->
     IF c = new THEN m[c] + 1
     ELSE IF c = "active" /\ new \notin ActiveStates THEN m[c] - 1 ELSE m[c]]

OnStateTransition(m, old, new) ==
  LET was == old \in ActiveStates
      now == new \in ActiveStates
      gauge == IF ~was /\ now THEN m["active"] + 1
               ELSE IF was /\ ~now /\ m["active"] > 0 THEN m["active"] - 1
               ELSE m["active"]
  IN  [c \in DOMAIN m |->
         IF c = "active" THEN gauge
         ELSE IF c = new THEN m[c] + 1 ELSE m[c]]

Notify(old, new) == metrics' = OnStateTransition(metrics, old, new)

-----------------------------------------------------------------------------
(* The queue of a task *)

RecordOn(t, e) ==
  /\ published' = IF e \in States
                    THEN [published EXCEPT ![e] = @ + 1] ELSE published
  /\ terminals' = IF e \in Terminal
                    THEN [terminals EXCEPT ![t] = @ + 1] ELSE terminals
  /\ store' = IF e = "submitted" /\ store[t] = "absent"
                THEN [store EXCEPT ![t] = "open"] ELSE store

-----------------------------------------------------------------------------
(* Error codes *)

StatusOf(code) ==
  CASE code = "EXECUTION_CANCELLED"         -> "canceled"
    [] code = "APPROVAL_PENDING"            -> "input_required"
    [] code \in GovernanceRefusalCodes      -> "rejected"
    [] OTHER                                -> "failed"

-----------------------------------------------------------------------------
(* The token map *)

(* A slip: the token is created but never put in the map. *)
RegisterNothing(t, b) == cancelTokens

Register(t, b) ==
  IF b = "none" THEN cancelTokens ELSE [cancelTokens EXCEPT ![t] = run[t]]

(* A slip: no finally clause around the execution. *)
ReleaseNothing(t) == cancelTokens

Release(t) == [cancelTokens EXCEPT ![t] = 0]

-----------------------------------------------------------------------------
(* execute(), up to the call of the module *)

Guarded == {"call", "chunk", "output", "completing", "report"}
PCs     == {"idle", "announce", "refusing"} \cup Guarded
Binds   == {"full", "tokenOnly", "none"}

(* Goes from one await of execute(t) to the next, leaving e to be enqueued. *)
Step(t, from, to, e) ==
  /\ pc[t] = from
  /\ pend[t] = "none"
  /\ pc' = [pc EXCEPT ![t] = to]
  /\ pend' = [pend EXCEPT ![t] = e]

(* The SDK calls execute() for a message.  It runs one execute() per task  *)
(* at a time and refuses a message to a task its store knows as ended.     *)
Start(t) ==
  /\ run[t] < MaxRuns
  /\ store[t] # "settled"
  /\ Step(t, "idle", "announce", "submitted")
  /\ run' = [run EXCEPT ![t] = @ + 1]
  /\ last' = [last EXCEPT ![t] = "silent"]
  /\ heads' = [heads EXCEPT ![t] = 0]
  /\ UNCHANGED <<streamKind, chunked, expired, bind, aborted, tokenVars,
                 cancelVars, wireVars, metrics>>

(* enqueue_event puts the pending event on the queue. *)
Publish(t) ==
  /\ pend[t] # "none"
  /\ RecordOn(t, pend[t])
  /\ last' = [last EXCEPT ![t] = pend[t]]
  /\ heads' = IF pend[t] \in {"first", "whole"}
                THEN [heads EXCEPT ![t] = @ + 1] ELSE heads
  /\ pend' = [pend EXCEPT ![t] = "none"]
  /\ UNCHANGED <<streamKind, pc, chunked, expired, bind, run, aborted,
                 tokenVars, cancelVars, metrics>>

(* A slip: the index of the chunks outlives the call it belongs to. *)
LeaveKeepingTheIndex(t) ==
  /\ pc' = [pc EXCEPT ![t] = "idle"]
  /\ pend' = [pend EXCEPT ![t] = "none"]
  /\ bind' = [bind EXCEPT ![t] = "none"]
  /\ expired' = [expired EXCEPT ![t] = FALSE]
  /\ UNCHANGED <<last, heads, run, chunked>>

(* Leaves execute(t): what its locals held is gone. *)
Leave(t) ==
  /\ pc' = [pc EXCEPT ![t] = "idle"]
  /\ pend' = [pend EXCEPT ![t] = "none"]
  /\ bind' = [bind EXCEPT ![t] = "none"]
  /\ chunked' = [chunked EXCEPT ![t] = FALSE]
  /\ expired' = [expired EXCEPT ![t] = FALSE]
  /\ UNCHANGED <<last, heads, run>>

(* No skillId, no such skill, a registry that raises, unparsable parts. *)
Refuse(t) ==
  /\ Step(t, "announce", "refusing", "failed")
  /\ Notify("submitted", "failed")
  /\ UNCHANGED <<streamKind, last, heads, chunked, expired, bind, run, aborted,
                 tokenVars, cancelVars, wireVars>>

LeaveRefused(t) ==
  /\ pc[t] = "refusing" /\ pend[t] = "none"
  /\ Leave(t)
  /\ UNCHANGED <<streamKind, aborted, tokenVars, cancelVars, wireVars,
                 metrics>>

(* The request is valid: register a CancelToken, build the apcore Context  *)
(* (which may fail after the token is registered, or before, when apcore   *)
(* itself cannot be imported) and call the module.                         *)
Launch(t) ==
  /\ streamKind # "coroutine"
  /\ Step(t, "announce", "call", "none")
  /\ \E b \in Binds : /\ bind' = [bind EXCEPT ![t] = b]
                      /\ cancelTokens' = Register(t, b)
  /\ Notify("submitted", "working")
  /\ UNCHANGED <<streamKind, last, heads, chunked, expired, run, aborted,
                 signalled, cancelVars, wireVars>>

(* A coroutine function passes the stream test but has no __aiter__. *)
LaunchBroken(t) ==
  /\ streamKind = "coroutine"
  /\ Step(t, "announce", "report", "failed")
  /\ \E b \in Binds : /\ bind' = [bind EXCEPT ![t] = b]
                      /\ cancelTokens' = Register(t, b)
  /\ metrics' = OnStateTransition(
                  OnStateTransition(metrics, "submitted", "working"),
                  "working", "failed")
  /\ UNCHANGED <<streamKind, last, heads, chunked, expired, run, aborted,
                 signalled, cancelVars, wireVars>>

-----------------------------------------------------------------------------
(* execute(), from the call of the module on *)

(* A slip: every chunk replaces the artifact instead of extending it. *)
ChunkEventReplacing(t) == "first"

ChunkEvent(t) == IF chunked[t] THEN "more" ELSE "first"

(* call_async returned and output_to_parts converted its result. *)
Return(t) ==
  /\ streamKind = "none"
  /\ Step(t, "call", "output", "whole")
  /\ UNCHANGED <<streamKind, last, heads, chunked, expired, bind, run, aborted,
                 tokenVars, cancelVars, wireVars, metrics>>

(* __anext__ returned a chunk and output_to_parts converted it. *)
Yield(t) ==
  /\ streamKind = "asyncgen"
  /\ Step(t, "call", "chunk", ChunkEvent(t))
  /\ UNCHANGED <<streamKind, last, heads, chunked, expired, bind, run, aborted,
                 tokenVars, cancelVars, wireVars, metrics>>

(* The chunk is on the queue and budget remains: ask for the next one. *)
Continue(t) ==
  /\ ~expired[t]
  /\ Step(t, "chunk", "call", "none")
  /\ chunked' = [chunked EXCEPT ![t] = TRUE]
  /\ UNCHANGED <<streamKind, last, heads, expired, bind, run, aborted,
                 tokenVars, cancelVars, wireVars, metrics>>

(* A slip: the stream loop returns without reporting the timeout. *)
OutOfTimeSilently(t) ==
  /\ expired[t]
  /\ pc[t] = "chunk" /\ pend[t] = "none"
  /\ Leave(t)
  /\ cancelTokens' = Release(t)
  /\ UNCHANGED <<streamKind, aborted, signalled, cancelVars, wireVars,
                 metrics>>

(* The chunk is on the queue and no budget remains. *)
OutOfTime(t) ==
  /\ expired[t]
  /\ Step(t, "chunk", "report", "failed")
  /\ Notify("working", "failed")
  /\ UNCHANGED <<streamKind, last, heads, chunked, expired, bind, run, aborted,
                 tokenVars, cancelVars, wireVars>>

(* A slip: the stream is completed without its last_chunk artifact. *)
StreamEndUnmarked(t) ==
  /\ streamKind = "asyncgen"
  /\ Step(t, "call", "completing", "completed")
  /\ UNCHANGED <<streamKind, last, heads, chunked, expired, bind, run, aborted,
                 tokenVars, cancelVars, wireVars, metrics>>

(* StopAsyncIteration: mark the end of the stream. *)
StreamEnd(t) ==
  /\ streamKind = "asyncgen"
  /\ Step(t, "call", "output", "end")
  /\ UNCHANGED <<streamKind, last, heads, chunked, expired, bind, run, aborted,
                 tokenVars, cancelVars, wireVars, metrics>>

Complete(t) ==
  /\ Step(t, "output", "completing", "completed")
  /\ UNCHANGED <<streamKind, last, heads, chunked, expired, bind, run, aborted,
                 tokenVars, cancelVars, wireVars, metrics>>

(* The module, or the conversion of its output, raised.  apcore raises     *)
(* EXECUTION_CANCELLED only out of a Context whose token is cancelled.     *)
Raise(t, code) ==
  /\ code = "EXECUTION_CANCELLED" =>
       bind[t] = "full" /\ <<t, run[t]>> \in signalled
  /\ Step(t, "call", "report", StatusOf(code))
  /\ Notify("working", StatusOf(code))
  /\ UNCHANGED <<streamKind, last, heads, chunked, expired, bind, run, aborted,
                 tokenVars, cancelVars, wireVars>>

(* A slip: the module is awaited without wait_for. *)
TimeoutNever(t) == FALSE /\ UNCHANGED vars

(* asyncio.wait_for gives up on the module. *)
Timeout(t) ==
  /\ expired[t]
  /\ Step(t, "call", "report", "failed")
  /\ Notify("working", "failed")
  /\ UNCHANGED <<streamKind, last, heads, chunked, expired, bind, run, aborted,
                 tokenVars, cancelVars, wireVars>>

(* The completed status is on the queue: count it, run finally. *)
Finish(t) ==
  /\ pc[t] = "completing" /\ pend[t] = "none"
  /\ Leave(t)
  /\ Notify("working", "completed")
  /\ cancelTokens' = Release(t)
  /\ UNCHANGED <<streamKind, aborted, signalled, cancelVars, wireVars>>

(* The status of a failure is on the queue (it was counted before): finally. *)
LeaveReported(t) ==
  /\ pc[t] = "report" /\ pend[t] = "none"
  /\ Leave(t)
  /\ cancelTokens' = Release(t)
  /\ UNCHANGED <<streamKind, aborted, signalled, cancelVars, wireVars,
                 metrics>>

(* asyncio cancels the task that runs execute(t) at the await it is in:    *)
(* CancelledError passes through, only finally runs.                       *)
AsyncioCancel(t) ==
  /\ pc[t] # "idle"
  /\ Leave(t)
  /\ aborted' = [aborted EXCEPT ![t] = @ \cup {run[t]}]
  /\ cancelTokens' = IF pc[t] \in Guarded THEN Release(t) ELSE cancelTokens
  /\ UNCHANGED <<streamKind, signalled, cancelVars, wireVars, metrics>>

(* The clock passes the deadline of a running module. *)
Expire(t) ==
  /\ pc[t] \in {"call", "chunk"} /\ ~expired[t]
  /\ expired' = [expired EXCEPT ![t] = TRUE]
  /\ UNCHANGED <<streamKind, pc, pend, last, heads, chunked, bind, run,
                 aborted, tokenVars, cancelVars, wireVars, metrics>>

-----------------------------------------------------------------------------
(* cancel() *)

(* The SDK calls cancel() for a task its store knows and not as ended. *)
Cancel(c, t) ==
  /\ cpc[c] = "ready"
  /\ store[t] = "open"
  /\ cpc' = [cpc EXCEPT ![c] = "put"]
  /\ ctask' = [ctask EXCEPT ![c] = t]
  /\ cancelTokens' = Release(t)
  /\ signalled' = IF cancelTokens[t] # 0
                    THEN signalled \cup {<<t, cancelTokens[t]>>} ELSE signalled
  /\ UNCHANGED <<streamKind, execVars, wireVars, metrics>>

PublishCanceled(c) ==
  /\ cpc[c] = "put"
  /\ RecordOn(ctask[c], "canceled")
  /\ cpc' = [cpc EXCEPT ![c] = "notify"]
  /\ UNCHANGED <<streamKind, execVars, tokenVars, ctask, metrics>>

FinishCancel(c) ==
  /\ cpc[c] = "notify"
  /\ Notify("working", "canceled")
  /\ cpc' = [cpc EXCEPT ![c] = "done"]
  /\ UNCHANGED <<streamKind, execVars, tokenVars, ctask, wireVars>>

(* asyncio cancels cancel() at its only await: the token has been called,  *)
(* and the event is lost, or is on the queue and never counted.            *)
AbortCancel(c) ==
  /\ cpc[c] \in {"put", "notify"}
  /\ cpc' = [cpc EXCEPT ![c] = IF cpc[c] = "put" THEN "lost" ELSE "uncounted"]
  /\ UNCHANGED <<streamKind, execVars, tokenVars, ctask, wireVars, metrics>>

(* The SDK's consumer reaches a terminal event in the queue of t. *)
Settle(t) ==
  /\ terminals[t] > 0 /\ store[t] # "settled"
  /\ store' = [store EXCEPT ![t] = "settled"]
  /\ UNCHANGED <<streamKind, execVars, tokenVars, cancelVars, published,
                 terminals, metrics>>

-----------------------------------------------------------------------------
Init ==
  /\ streamKind \in StreamKinds
  /\ pc = [t \in Tasks |-> "idle"]
  /\ pend = [t \in Tasks |-> "none"]
  /\ last = [t \in Tasks |-> "silent"]
  /\ heads = [t \in Tasks |-> 0]
  /\ chunked = [t \in Tasks |-> FALSE]
  /\ expired = [t \in Tasks |-> FALSE]
  /\ bind = [t \in Tasks |-> "none"]
  /\ run = [t \in Tasks |-> 0]
  /\ aborted = [t \in Tasks |-> {}]
  /\ cancelTokens = [t \in Tasks |-> 0]
  /\ signalled = {}
  /\ cpc = [c \in Cancels |-> "ready"]
  /\ ctask = [c \in Cancels |-> NoTask]
  /\ store = [t \in Tasks |-> "absent"]
  /\ published = [s \in States |-> 0]
  /\ terminals = [t \in Tasks |-> 0]
  /\ metrics = [c \in Counted \cup {"active"} |-> 0]

(* What the host does by itself once execute(t) has been called. *)
Host(t) ==
  \/ Publish(t) \/ Refuse(t) \/ LeaveRefused(t)
  \/ Launch(t) \/ LaunchBroken(t)
  \/ Continue(t) \/ OutOfTime(t) \/ Timeout(t)
  \/ Complete(t) \/ Finish(t) \/ LeaveReported(t)

(* What the module does, if it does anything. *)
Module(t) ==
  \/ Return(t) \/ Yield(t) \/ StreamEnd(t)
  \/ \E code \in Codes : Raise(t, code)

CancelStep(c) ==
  \/ \E t \in Tasks : Cancel(c, t)
  \/ PublishCanceled(c)
  \/ FinishCancel(c)
  \/ AbortCancel(c)

(* The server is at rest: it only waits for requests. *)
Rest ==
  /\ \A t \in Tasks : pc[t] = "idle"
  /\ \A c \in Cancels : cpc[c] \notin {"put", "notify"}
  /\ UNCHANGED vars

Next ==
  \/ \E t \in Tasks : \/ Start(t) \/ Host(t) \/ Module(t)
                      \/ AsyncioCancel(t) \/ Expire(t) \/ Settle(t)
  \/ \E c \in Cancels : CancelStep(c)
  \/ Rest

Spec == Init /\ [][Next]_vars

(* The loop keeps running what is ready, and timers fire.  Nothing is      *)
(* assumed of the module, of clients, or of asyncio cancellation.          *)
Fair(t) == WF_vars(Host(t)) /\ WF_vars(Expire(t))

Fairness == \A t \in Tasks : Fair(t)

FairSpec == Spec /\ Fairness

-----------------------------------------------------------------------------
(* Properties *)

(* Every variable stays in its type; the gauge of active tasks, which      *)
(* on_state_transition decrements, never goes below zero.                  *)
TypeOK ==
  /\ streamKind \in StreamKinds
  /\ pc \in [Tasks -> PCs]
  /\ pend \in [Tasks -> Events \cup {"none"}]
  /\ last \in [Tasks -> Events \cup {"silent"}]
  /\ heads \in [Tasks -> Nat]
  /\ chunked \in [Tasks -> BOOLEAN]
  /\ expired \in [Tasks -> BOOLEAN]
  /\ bind \in [Tasks -> Binds]
  /\ run \in [Tasks -> Nat]
  /\ aborted \in [Tasks -> SUBSET Nat]
  /\ cancelTokens \in [Tasks -> Nat]
  /\ signalled \subseteq Tasks \X Nat
  /\ cpc \in [Cancels -> {"ready", "put", "notify", "done", "lost", "uncounted"}]
  /\ ctask \in [Cancels -> Tasks \cup {NoTask}]
  /\ store \in [Tasks -> {"absent", "open", "settled"}]
  /\ published \in [States -> Nat]
  /\ terminals \in [Tasks -> Nat]
  /\ metrics \in [Counted \cup {"active"} -> Nat]

(* A module that runs under a CancelToken can be stopped: its token is in  *)
(* the map under its task, or cancel() has already called it.  The map is  *)
(* written by execute() and popped by execute() and cancel(), at awaits of *)
(* their own.                                                              *)
TokenReachable ==
  \A t \in Tasks :
    pc[t] \in Guarded /\ bind[t] # "none" =>
      cancelTokens[t] = run[t] \/ <<t, run[t]>> \in signalled

(* The token map holds nothing of an execution that is over, whether it    *)
(* ended by an answer, an error or asyncio cancellation, and never a token *)
(* of an earlier execution of the same task.                               *)
NoTokenLeak ==
  \A t \in Tasks :
    cancelTokens[t] # 0 => pc[t] \in Guarded /\ cancelTokens[t] = run[t]

(* cancel() only ever signals the execution that is in flight at that      *)
(* moment: no later message to the same task starts out cancelled.         *)
CancelHitsOnlyTheCurrentRun ==
  [][\A x \in signalled' \ signalled :
       pc[x[1]] \in Guarded /\ run[x[1]] = x[2]]_vars

(* An execution that asyncio did not cut short never ends without an       *)
(* answer: when execute() is over, the last event it put on the queue is   *)
(* an outcome, on every path (refusal, completion, module error, both      *)
(* timeouts of the streaming loop, cooperative cancellation).              *)
AnsweredUnlessAborted ==
  \A t \in Tasks :
    pc[t] = "idle" /\ run[t] > 0 /\ run[t] \notin aborted[t] =>
      last[t] \in Outcomes

(* The artifact id is that of the task, so what one execution shows and    *)
(* what an earlier one did share it.  An execution starts the artifact     *)
(* afresh at most once, and a chunk that extends it extends what the same  *)
(* execution began: within one turn nothing shown is replaced, and no turn *)
(* adds its chunks to those of an earlier turn (it replaces them).         *)
ChunksExtendTheirOwnTurn ==
  \A t \in Tasks : heads[t] <= 1 /\ (last[t] = "more" => heads[t] = 1)

(* How many executions asyncio has cut short, and how many cancels between *)
(* the queue and the counter.                                              *)
Aborts ==
  Cardinality({x \in Tasks \X (1 .. MaxRuns) : x[2] \in aborted[x[1]]})
    + Cardinality({c \in Cancels : cpc[c] = "uncounted"})

(* When nothing is in flight the counters of /metrics agree with the       *)
(* statuses that reached the queues, for each counted outcome, although    *)
(* failures are counted before their event is enqueued and completions and *)
(* cancels after; they drift only by what asyncio cuts short in between,   *)
(* an execution or a cancel().                                             *)
MetricsMatchTheWire ==
  (/\ \A t \in Tasks : pc[t] = "idle"
   /\ \A c \in Cancels : cpc[c] \notin {"put", "notify"}) =>
    \A o \in Counted : /\ metrics[o] <= published[o] + Aborts
                       /\ published[o] <= metrics[o] + Aborts

(* The events of each execution follow the protocol a subscriber relies    *)
(* on; how far a turn has got is read off its last event.                  *)
PhaseOf(e) ==
  CASE e = "silent"        -> "silent"
    [] e = "submitted"     -> "open"
    [] e \in Chunks        -> "streaming"
    [] e \in Closers       -> "sealed"
    [] e = "completed"     -> "completed"
    [] OTHER               -> "stopped"

Protocol == INSTANCE ExecutionProtocol
              WITH phase <- [t \in Tasks |-> PhaseOf(last[t])]

ImplementsProtocol == Protocol!Spec

(* An execution never waits for itself, whatever other executions and      *)
(* cancels do to what they share: at every await there is a next step for  *)
(* the host, except while the module runs, and then a timer is running.    *)
HostReady(t) == pc[t] # "idle" /\ (pc[t] = "call" => expired[t])

TimerRunning(t) == pc[t] \in {"call", "chunk"} /\ ~expired[t]

NeverStuck ==
  \A t \in Tasks :
    /\ HostReady(t) => ENABLED <<Host(t)>>_vars
    /\ TimerRunning(t) => ENABLED <<Expire(t)>>_vars

(* Every message is answered, even if the module hangs or streams without  *)
(* end: the execution reaches an outcome and is over, unless asyncio cuts  *)
(* it short.                                                               *)
EveryMessageAnswered ==
  \A t \in Tasks, r \in 1 .. MaxRuns :
    (run[t] = r /\ pc[t] # "idle") ~>
      (run[t] = r /\ pc[t] = "idle" /\ (last[t] \in Outcomes \/ r \in aborted[t]))
=============================================================================
