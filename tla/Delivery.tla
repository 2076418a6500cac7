------------------------------ MODULE Delivery ------------------------------
(***************************************************************************)
(* A streamed message end to end: the turn that carries it out             *)
(* (ExecutionProtocol, which A2AExecutor implements), the event queue the  *)
(* SDK drains into an SSE response, and the generator that reads it        *)
(* (StreamClient).  Another request may cancel the task meanwhile, and     *)
(* asyncio may cut the turn short.                                         *)
(*                                                                         *)
(* The client also has to live with servers that are not ours: for those   *)
(* the server of StreamClient, which may send anything, stays as it is.    *)
(***************************************************************************)
EXTENDS StreamClient

CONSTANTS
  MaxForeign   \* frames a server that is not ours sends (a bound)

ASSUME MaxEventsAssumption == MaxForeign \in 0 .. MaxFrames /\ MaxFrames >= 3

VARIABLES
  peer,      \* whose server answers: "ours" or "other"
  phase,     \* how far the turn has got
  emitted,   \* what has been put on the task's queue, in order
  sealedAt,  \* the place of the event that sealed the output, or 0
  ended      \* execute() has returned or was cut short

Task == "task"

(* What a turn puts on the queue. *)
QueueEvents == Events \ LegacyStates

(* The frame an event becomes.  message/stream without an A2A-Version is   *)
(* answered by the 0.3 routes, so a terminal status leaves in the shape of *)
(* 0.3; to the client the other events are the same in either shape.       *)
OnTheWire(e) == CASE e = "completed" -> "completed03"
                  [] e = "failed"    -> "failed03"
                  [] e = "canceled"  -> "canceled03"
                  [] e = "rejected"  -> "rejected03"
                  [] OTHER           -> e

Turn == INSTANCE ExecutionProtocol WITH Tasks <- {Task}

turnVars == <<peer, phase, emitted, sealedAt, ended>>
deliveryVars == <<vars, turnVars>>

-----------------------------------------------------------------------------
(* The turn: execute() and what it puts on the queue.  With MaxFrames, a   *)
(* chunk or a cancel leaves room for the rest of the turn.                 *)

Owed == IF phase[Task] = "sealed" THEN 1 ELSE 2

Room == Len(emitted) + 1 + Owed <= MaxFrames

Running == peer = "ours" /\ answer = "stream" /\ ~ended

Put(e) ==
  /\ Running
  /\ emitted' = Append(emitted, e)
  /\ UNCHANGED <<vars, peer>>

AnnounceTask ==
  /\ Turn!Announce(Task) /\ Put("task")
  /\ UNCHANGED <<sealedAt, ended>>

Chunk ==
  /\ phase[Task] \in {"open", "streaming"} /\ Room
  /\ phase' = [phase EXCEPT ![Task] = "streaming"]
  /\ Put("artifact")
  /\ UNCHANGED <<sealedAt, ended>>

(* The whole artifact, or the end of the stream. *)
SealOutput ==
  /\ Turn!Seal(Task) /\ Put("artifact")
  /\ sealedAt' = Len(emitted) + 1
  /\ UNCHANGED ended

CompleteTurn ==
  /\ Turn!Complete(Task) /\ Put("completed")
  /\ ended' = TRUE
  /\ UNCHANGED sealedAt

StopTurn(e) ==
  /\ Turn!Stop(Task) /\ Put(e)
  /\ ended' = TRUE
  /\ UNCHANGED sealedAt

(* tasks/cancel of another request, on the same queue. *)
CancelTask ==
  /\ phase[Task] \in {"open", "streaming", "sealed"} /\ Room
  /\ Put("canceled")
  /\ UNCHANGED <<phase, sealedAt, ended>>

Abort ==
  /\ Running /\ ended' = TRUE
  /\ UNCHANGED <<vars, peer, phase, emitted, sealedAt>>

-----------------------------------------------------------------------------
(* The SDK: the consumer of the queue *)

Accept ==
  /\ peer = "ours"
  /\ \E a \in {"stream", "refusal"} : Respond(a)
  /\ UNCHANGED turnVars

Final == TerminalStates \cup {"input_required"}

(* A slip: the artifact that is not yet written is dropped at the end. *)
WriteLatest ==
  /\ peer = "ours" /\ Len(sent) < Len(emitted)
  /\ \A i \in 1 .. Len(sent) : emitted[i] \notin TerminalStates
  /\ Send(OnTheWire(emitted[Len(emitted)]))
  /\ UNCHANGED turnVars

(* Events are written in the order they were put, up to a terminal one.    *)
Write ==
  /\ peer = "ours" /\ Len(sent) < Len(emitted)
  /\ \A i \in 1 .. Len(sent) : emitted[i] \notin TerminalStates
  /\ Send(OnTheWire(emitted[Len(sent) + 1]))
  /\ UNCHANGED turnVars

(* After a final event, or when the turn is over and the queue is drained. *)
Close ==
  /\ peer = "ours"
  /\ \/ answer = "refusal"
     \/ \E i \in 1 .. Len(sent) : emitted[i] \in Final
     \/ ended /\ Len(sent) = Len(emitted)
  /\ Drop("closed")
  /\ UNCHANGED turnVars

-----------------------------------------------------------------------------

Network ==
  /\ Respond("unreachable") \/ Drop("cut")
  /\ UNCHANGED turnVars

OtherServer ==
  /\ peer = "other"
  /\ \/ \E a \in {"stream", "refusal"} : Respond(a)
     \/ Len(sent) < MaxForeign /\ \E f \in Frames : Send(f)
     \/ Drop("closed")
  /\ UNCHANGED turnVars

DeliveryInit ==
  /\ Init /\ Turn!Init
  /\ peer \in {"ours", "other"} /\ emitted = <<>> /\ sealedAt = 0 /\ ended = FALSE

Execute ==
  \/ AnnounceTask \/ SealOutput \/ CompleteTurn \/ Abort
  \/ \E e \in {"failed", "canceled", "rejected", "input_required"} : StopTurn(e)

Generator == Client /\ UNCHANGED turnVars

Serve == Accept \/ Write \/ Close

Finished == Over /\ UNCHANGED deliveryVars

DeliveryNext ==
  \/ Generator \/ Execute \/ Chunk \/ CancelTask \/ Serve
  \/ Network \/ OtherServer \/ Finished

DeliverySpec == DeliveryInit /\ [][DeliveryNext]_deliveryVars

(* The consumer keeps reading, the turn ends (its deadline, A2AExecutor's  *)
(* EveryMessageAnswered) and our server writes what is queued.  Nothing is *)
(* owed by the network or by another server.                               *)
FairDelivery ==
  /\ DeliverySpec
  /\ WF_deliveryVars(Generator) /\ WF_deliveryVars(Execute) /\ WF_deliveryVars(Serve)

-----------------------------------------------------------------------------
(* Properties *)

(* The types, the client's included, and the bound on a turn's events.     *)
DeliveryTypeOK ==
  /\ TypeOK
  /\ peer \in {"ours", "other"} /\ ended \in BOOLEAN
  /\ phase \in [{Task} -> Turn!Phases]
  /\ emitted \in Seq(QueueEvents) /\ sealedAt \in 0 .. Len(emitted)
  /\ peer = "ours" => Len(emitted) <= MaxFrames

(* A consumer that is told "completed" by our server has been given the    *)
(* event that seals the output and everything queued before it, whatever   *)
(* cancels were queued between the two and however the stream was read.    *)
CompletedIsWhole ==
  peer = "ours" =>
    \A i \in 1 .. Len(yielded) : yielded[i] = OnTheWire("completed") =>
      /\ sealedAt \in 1 .. i - 1
      /\ \A j \in 1 .. sealedAt : yielded[j] = OnTheWire(emitted[j])

(* A consumer whose stream ends without an exception has been given a      *)
(* final event, or else the whole of what a turn that was cut short had    *)
(* queued: nothing is lost between the queue and the consumer, whichever   *)
(* of the turn, the SDK and stream_message() comes first.                  *)
QuietEndIsWhole ==
  peer = "ours" /\ answer = "stream" /\ pc = "returned" =>
    \/ \E i \in 1 .. Len(yielded) : yielded[i] \in {OnTheWire(e) : e \in Final}
    \/ ended /\ yielded = [i \in 1 .. Len(emitted) |-> OnTheWire(emitted[i])]

(* A stream from our server ends for its consumer, however the turn ends:  *)
(* completed, stopped (input_required included), cut short by asyncio      *)
(* without any outcome, or refused.  No status of ours is terminal for the *)
(* client, so it is the close of the response that ends the stream.        *)
EveryStreamEnds ==
  peer = "ours" /\ answer # "pending" ~> Over

(* "stream_message stops on a terminal task state" (CHANGELOG.md:566): a   *)
(* generator that is resumed after a terminal state from our own server    *)
(* does not go back to reading the connection.                             *)
StopsOnTerminalState ==
  peer = "ours" =>
    \A i \in 1 .. Len(yielded) :
      yielded[i] \in {OnTheWire(e) : e \in TerminalStates} => pc \in {"yielding", "returned"}
=============================================================================
