---------------------------- MODULE StreamClient ----------------------------
(***************************************************************************)
(* A2AClient.stream_message (client/client.py): an async generator that    *)
(* reads the frames of an SSE response and yields the events in them until *)
(* a terminal status, an error frame or the end of the connection.         *)
(*                                                                         *)
(* The server is the environment: it answers with a stream, refuses with a *)
(* body that is no stream (the 401 of AuthMiddleware, a plain JSON-RPC     *)
(* error), or cannot be reached; a stream carries events in any order,     *)
(* keepalive comments, data lines that do not parse and at most one error  *)
(* frame, and is closed, cut or left open.  The request names no version,  *)
(* so a server may answer in the shape of A2A 1.0 or in that of 0.3.  The  *)
(* consumer of the generator resumes it after every event, at its own pace.*)
(***************************************************************************)
EXTENDS JsonRpcErrors, Sequences, FiniteSets

CONSTANTS
  MaxFrames   \* frames the server sends on one stream (a bound)

ASSUME MaxFramesAssumption == MaxFrames \in Nat

(* A statusUpdate with a terminal TASK_STATE_*, as A2A 1.0 frames it, and  *)
(* the same states in the shape of 0.3, which has no statusUpdate.         *)
TerminalStates == {"completed", "failed", "canceled", "rejected"}
LegacyStates == {"completed03", "failed03", "canceled03", "rejected03"}

Events == {"task", "artifact", "input_required"} \cup TerminalStates \cup LegacyStates
Noise == {"keepalive", "garbage"}
ErrorFrames == {"notFound", "denied", "internal"}
Frames == Events \cup Noise \cup ErrorFrames

CodeOf(f) == CASE f = "notFound" -> TaskNotFound
               [] f = "denied"   -> -32040
               [] OTHER          -> InternalError

VARIABLES
  answer,     \* "pending", "stream", "refusal", "unreachable"
  sent,       \* the frames of the response so far
  link,       \* "open", "closed" or "cut"
  pc,         \* "idle", "reading", "yielding", "returned", "raised"
  read,       \* how many frames the client has read
  yielded,    \* what the consumer has been given
  terminal,   \* the local of that name, for the event being yielded
  exception   \* what was raised

serverVars == <<answer, sent, link>>
clientVars == <<pc, read, yielded, terminal, exception>>
vars == <<serverVars, clientVars>>

-----------------------------------------------------------------------------
(* The server and the network *)

Respond(a) ==
  /\ answer = "pending" /\ pc = "reading"
  /\ answer' = a
  /\ UNCHANGED <<sent, link, clientVars>>

Send(f) ==
  /\ answer = "stream" /\ link = "open" /\ Len(sent) < MaxFrames
  /\ \A i \in 1 .. Len(sent) : sent[i] \notin ErrorFrames
  /\ sent' = Append(sent, f)
  /\ UNCHANGED <<answer, link, clientVars>>

(* Closed after the last frame, or cut with frames perhaps still unread. *)
Drop(how) ==
  /\ answer \in {"stream", "refusal"} /\ link = "open"
  /\ link' = how
  /\ UNCHANGED <<answer, sent, clientVars>>

-----------------------------------------------------------------------------
(* The generator *)

(* A slip: a rejected task is not counted as finished. *)
IsTerminalEventButRejected(e) == e \in TerminalStates \ {"rejected"}

(* A slip: an artifact is taken for the end of the task.                   *)
IsTerminalEventAtOutput(e) == e \in TerminalStates \cup {"artifact"}

(* The test knows the frames of A2A 1.0 only. *)
IsTerminalEvent(e) == e \in TerminalStates

Finish(how, e) ==
  /\ pc' = how
  /\ exception' = e
  /\ UNCHANGED <<serverVars, yielded, terminal>>

Start ==
  /\ pc = "idle"
  /\ pc' = "reading"
  /\ UNCHANGED <<serverVars, read, yielded, terminal, exception>>

Unread == read < Len(sent)
Frame == sent[read + 1]

Skip ==
  /\ pc = "reading" /\ Unread /\ Frame \in Noise
  /\ read' = read + 1
  /\ UNCHANGED <<serverVars, pc, yielded, terminal, exception>>

(* A slip: an error frame is yielded as though it were an event. *)
YieldErrorFrame ==
  /\ pc = "reading" /\ Unread /\ Frame \in ErrorFrames
  /\ read' = read + 1
  /\ pc' = "yielding"
  /\ yielded' = Append(yielded, Frame)
  /\ terminal' = FALSE
  /\ UNCHANGED <<serverVars, exception>>

RaiseIfStreamError ==
  /\ pc = "reading" /\ Unread /\ Frame \in ErrorFrames
  /\ read' = read + 1
  /\ Finish("raised", RaiseJsonRpcError(CodeOf(Frame)))

(* A slip: the event is read again when the consumer resumes. *)
YieldWithoutReading ==
  /\ pc = "reading" /\ Unread /\ Frame \in Events
  /\ pc' = "yielding"
  /\ yielded' = Append(yielded, Frame)
  /\ terminal' = (IsTerminalEvent(Frame) \/ Len(yielded) > MaxFrames)
  /\ UNCHANGED <<serverVars, read, exception>>

Yield ==
  /\ pc = "reading" /\ Unread /\ Frame \in Events
  /\ read' = read + 1
  /\ pc' = "yielding"
  /\ yielded' = Append(yielded, Frame)
  /\ terminal' = IsTerminalEvent(Frame)
  /\ UNCHANGED <<serverVars, exception>>

Resume ==
  /\ pc = "yielding"
  /\ pc' = IF terminal THEN "returned" ELSE "reading"
  /\ UNCHANGED <<serverVars, read, yielded, terminal, exception>>

(* A slip: a stream that closes without an outcome is asked for again. *)
StreamClosedReconnecting ==
  /\ pc = "reading" /\ ~Unread /\ link = "closed"
  /\ pc' = "idle"
  /\ UNCHANGED <<serverVars, read, yielded, terminal, exception>>

(* The lines of a refusal do not start with "data:". *)
StreamClosed ==
  /\ pc = "reading" /\ ~Unread /\ link = "closed"
  /\ read' = read
  /\ Finish("returned", "none")

RequestError ==
  /\ pc = "reading" /\ (answer = "unreachable" \/ link = "cut")
  /\ read' = read
  /\ Finish("raised", "A2AConnectionError")

-----------------------------------------------------------------------------

Init ==
  /\ answer = "pending" /\ sent = <<>> /\ link = "open"
  /\ pc = "idle" /\ read = 0 /\ yielded = <<>> /\ terminal = FALSE
  /\ exception = "none"

Over == pc \in {"returned", "raised"}

Rest == Over /\ UNCHANGED vars

Client == \/ Start \/ Skip \/ RaiseIfStreamError \/ Yield \/ Resume
          \/ StreamClosed \/ RequestError

Server == \/ \E a \in {"stream", "refusal", "unreachable"} : Respond(a)
          \/ \E f \in Frames : Send(f)
          \/ \E how \in {"closed", "cut"} : Drop(how)

Next == Client \/ Server \/ Rest

Spec == Init /\ [][Next]_vars

-----------------------------------------------------------------------------
(* Properties *)

TypeOK ==
  /\ answer \in {"pending", "stream", "refusal", "unreachable"}
  /\ sent \in Seq(Frames) /\ Len(sent) \in 0 .. MaxFrames
  /\ link \in {"open", "closed", "cut"}
  /\ pc \in {"idle", "reading", "yielding", "returned", "raised"}
  /\ read \in 0 .. Len(sent)
  /\ yielded \in Seq(Events)
  /\ terminal \in BOOLEAN
  /\ exception \in {"none", "A2AConnectionError", "A2AServerError"}
                     \cup {GovernanceErrors[c] : c \in DOMAIN GovernanceErrors}
                     \cup {JsonRpcErrors[c] : c \in DOMAIN JsonRpcErrors}

(* How many of the first n frames are events. *)
EventsUpTo(frames, n) == Cardinality({i \in 1 .. n : frames[i] \in Events})

(* The consumer gets the events of the frames read so far, each once, in   *)
(* the order they were sent and without the noise between them: an event   *)
(* frame is yielded in the place it has among the events.                  *)
EventsInOrder ==
  /\ Len(yielded) = EventsUpTo(sent, read)
  /\ \A i \in 1 .. read : sent[i] \in Events =>
       yielded[EventsUpTo(sent, i)] = sent[i]

(* A terminal status in the shape of A2A 1.0 is the last thing yielded,    *)
(* even when the server sends a second one: a cancel that raced the end of *)
(* the task.                                                               *)
OneOutcome ==
  \A i \in 1 .. Len(yielded) - 1 : yielded[i] \notin TerminalStates

(* An error frame ends the stream with the exception send_message raises   *)
(* for the same payload; it is never swallowed or passed on as an event.   *)
ErrorFramesAreRaised ==
  \A i \in 1 .. read : sent[i] \in ErrorFrames =>
    pc = "raised" /\ exception = RaiseJsonRpcError(CodeOf(sent[i]))

(* Once a server has sent a terminal status in the shape of A2A 1.0 the    *)
(* stream ends for the consumer, even if that server never closes it.  Of  *)
(* one in the shape of 0.3, which our own server sends, this does not hold.*)
TerminalEndsTheStream ==
  (\E i \in 1 .. Len(sent) : sent[i] \in TerminalStates) ~> Over
=============================================================================
