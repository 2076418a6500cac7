--------------------------- MODULE DeliveryProofs ---------------------------
(***************************************************************************)
(* A streamed message end to end, for any number of frames.  To the client *)
(* our server is one of the servers StreamClient allows, so what is proved *)
(* of the generator there holds here.  On top of that, "completed" means   *)
(* that the whole output has arrived: the frames sent stand for a prefix   *)
(* of what was queued, the events yielded are the frames read, and in the  *)
(* queue "completed" only stands behind the event that sealed the output.  *)
(***************************************************************************)
EXTENDS Delivery, StreamClientProofs

(* How much of the room of a turn is left, by how far it has got. *)
RoomIsKept ==
  peer = "ours" /\ ~ended =>
    /\ phase[Task] \in {"silent", "open", "streaming", "sealed"}
    /\ phase[Task] = "silent" => Len(emitted) = 0
    /\ phase[Task] \in {"open", "streaming"} => Len(emitted) + 2 <= MaxFrames
    /\ phase[Task] = "sealed" => Len(emitted) + 1 <= MaxFrames

TInv == DeliveryTypeOK /\ RoomIsKept

(* Behind a "completed" the turn is over, and before it the output sealed. *)
SealedBeforeCompleted ==
  /\ ~ended /\ phase[Task] = "sealed" => sealedAt \in 1 .. Len(emitted)
  /\ \A i \in 1 .. Len(emitted) : emitted[i] = "completed" =>
       ended /\ sealedAt \in 1 .. i - 1

SentIsQueued ==
  peer = "ours" =>
    /\ Len(sent) <= Len(emitted)
    /\ \A i \in 1 .. Len(sent) : sent[i] = OnTheWire(emitted[i])

YieldedIsRead ==
  peer = "ours" =>
    /\ Len(yielded) = read
    /\ \A i \in 1 .. read : yielded[i] = sent[i]

DInv == TInv /\ SealedBeforeCompleted /\ SentIsQueued /\ YieldedIsRead

-----------------------------------------------------------------------------
(* Refinement *)

(* What our server writes is an event to the client and no terminal state; *)
(* "completed03" stands for a "completed" and for nothing else.            *)
LEMMA WireFrames ==
  ASSUME NEW e \in QueueEvents
  PROVE  /\ OnTheWire(e) \in Events
         /\ OnTheWire(e) \notin TerminalStates
         /\ OnTheWire(e) \notin ErrorFrames
         /\ OnTheWire(e) = OnTheWire("completed") => e = "completed"
BY DEF QueueEvents, Events, TerminalStates, LegacyStates, ErrorFrames, OnTheWire

(* Every step is a step of StreamClient, or leaves its variables alone.    *)
LEMMA StepIsClientStep ==
  ASSUME DeliveryTypeOK, [DeliveryNext]_deliveryVars
  PROVE  [Next]_vars
<1>1. /\ emitted \in Seq(QueueEvents) /\ Len(emitted) \in Nat /\ Len(sent) \in Nat
  BY DEF DeliveryTypeOK, TypeOK
<1>2. CASE Generator
  BY <1>2 DEF Generator, Next
<1>3. CASE Execute \/ Chunk \/ CancelTask
  BY <1>3 DEF Execute, Chunk, CancelTask, AnnounceTask, SealOutput, CompleteTurn, Abort,
              StopTurn, Put
<1>4. CASE Serve
  <2>1. CASE Accept
    BY <2>1 DEF Accept, Next, Server
  <2>2. CASE Write
    <3>1. OnTheWire(emitted[Len(sent) + 1]) \in Frames
      BY <1>1, <2>2, WireFrames DEF Write, Frames
    <3>2. QED
      BY <2>2, <3>1 DEF Write, Next, Server
  <2>3. CASE Close
    BY <2>3 DEF Close, Next, Server
  <2>4. QED
    BY <1>4, <2>1, <2>2, <2>3 DEF Serve
<1>5. CASE Network
  BY <1>5 DEF Network, Next, Server
<1>6. CASE OtherServer
  BY <1>6 DEF OtherServer, Next, Server
<1>7. CASE Finished \/ UNCHANGED deliveryVars
  BY <1>7 DEF Finished, deliveryVars
<1>8. QED
  BY <1>2, <1>3, <1>4, <1>5, <1>6, <1>7 DEF DeliveryNext

-----------------------------------------------------------------------------
(* Types and room *)

LEMMA TInvInductive ==
  ASSUME TInv, [DeliveryNext]_deliveryVars
  PROVE  TInv'
<1>1. TypeOK'
  BY StepIsClientStep, TypeInductive DEF TInv, DeliveryTypeOK
<1>2. /\ emitted \in Seq(QueueEvents) /\ Len(emitted) \in Nat /\ sealedAt \in 0 .. Len(emitted)
      /\ peer \in {"ours", "other"} /\ ended \in BOOLEAN
      /\ phase \in [{Task} -> Turn!Phases] /\ phase[Task] \in Turn!Phases
      /\ peer = "ours" => Len(emitted) <= MaxFrames
      /\ MaxFrames \in Nat /\ MaxFrames >= 3
  BY MaxFramesAssumption, MaxEventsAssumption DEF TInv, DeliveryTypeOK
<1>3. ASSUME NEW e \in QueueEvents, Put(e)
      PROVE  /\ emitted' = Append(emitted, e) /\ emitted' \in Seq(QueueEvents)
             /\ Len(emitted') = Len(emitted) + 1
             /\ peer = "ours" /\ peer' = peer /\ ~ended
  BY <1>2, <1>3 DEF Put, Running
<1>4. CASE AnnounceTask
  <2>1. Put("task") /\ "task" \in QueueEvents
    BY <1>4 DEF AnnounceTask, QueueEvents, Events, LegacyStates
  <2>2. /\ phase[Task] = "silent" /\ phase' = [phase EXCEPT ![Task] = "open"]
        /\ UNCHANGED <<sealedAt, ended>>
    BY <1>4 DEF AnnounceTask, Turn!Announce, Turn!Move
  <2>3. phase' \in [{Task} -> Turn!Phases] /\ phase'[Task] = "open"
    BY <1>2, <2>2 DEF Turn!Phases
  <2>4. Len(emitted') = 1
    <3>1. peer = "ours" /\ ~ended /\ Len(emitted') = Len(emitted) + 1
      BY <1>3, <2>1
    <3>2. Len(emitted) = 0
      BY <2>2, <3>1 DEF TInv, RoomIsKept
    <3>3. QED
      BY <3>1, <3>2
  <2>5. RoomIsKept'
    BY <1>2, <1>3, <2>1, <2>3, <2>4 DEF RoomIsKept
  <2>6. QED
    BY <1>1, <1>2, <1>3, <2>1, <2>2, <2>3, <2>4, <2>5 DEF TInv, DeliveryTypeOK
<1>5. CASE Chunk
  <2>1. Put("artifact") /\ "artifact" \in QueueEvents
    BY <1>5 DEF Chunk, QueueEvents, Events, LegacyStates
  <2>2. /\ phase' = [phase EXCEPT ![Task] = "streaming"] /\ Len(emitted) + 3 <= MaxFrames
        /\ UNCHANGED <<sealedAt, ended>>
    BY <1>2, <1>5 DEF Chunk, Room, Owed
  <2>3. phase' \in [{Task} -> Turn!Phases] /\ phase'[Task] = "streaming"
    BY <1>2, <2>2 DEF Turn!Phases
  <2>4. RoomIsKept'
    BY <1>2, <1>3, <2>1, <2>2, <2>3 DEF RoomIsKept
  <2>5. QED
    BY <1>1, <1>2, <1>3, <2>1, <2>2, <2>3, <2>4 DEF TInv, DeliveryTypeOK
<1>6. CASE SealOutput
  <2>1. Put("artifact") /\ "artifact" \in QueueEvents
    BY <1>6 DEF SealOutput, QueueEvents, Events, LegacyStates
  <2>2. /\ phase[Task] \in {"open", "streaming"}
        /\ phase' = [phase EXCEPT ![Task] = "sealed"]
        /\ sealedAt' = Len(emitted) + 1 /\ ended' = ended
    BY <1>6 DEF SealOutput, Turn!Seal, Turn!Move
  <2>3. phase' \in [{Task} -> Turn!Phases] /\ phase'[Task] = "sealed"
    BY <1>2, <2>2 DEF Turn!Phases
  <2>4. Len(emitted) + 2 <= MaxFrames
    BY <1>3, <2>1, <2>2 DEF TInv, RoomIsKept
  <2>5. RoomIsKept'
    BY <1>2, <1>3, <2>1, <2>3, <2>4 DEF RoomIsKept
  <2>6. QED
    BY <1>1, <1>2, <1>3, <2>1, <2>2, <2>3, <2>4, <2>5 DEF TInv, DeliveryTypeOK
<1>7. ASSUME NEW e \in QueueEvents, NEW p \in {"completed", "stopped"}, Put(e),
             phase[Task] \in {"open", "streaming", "sealed"},
             phase' = [phase EXCEPT ![Task] = p], ended' = TRUE, sealedAt' = sealedAt
      PROVE  TInv'
  <2>1. phase' \in [{Task} -> Turn!Phases]
    BY <1>2, <1>7 DEF Turn!Phases
  <2>2. Len(emitted) + 1 <= MaxFrames
    BY <1>2, <1>3, <1>7 DEF TInv, RoomIsKept
  <2>3. RoomIsKept'
    BY <1>7 DEF RoomIsKept
  <2>4. QED
    BY <1>1, <1>2, <1>3, <1>7, <2>1, <2>2, <2>3 DEF TInv, DeliveryTypeOK
<1>8. CASE CompleteTurn
  BY <1>7, <1>8 DEF CompleteTurn, Turn!Complete, Turn!Move, QueueEvents, Events, TerminalStates, LegacyStates
<1>9. ASSUME NEW e \in {"failed", "canceled", "rejected", "input_required"}, StopTurn(e)
      PROVE  TInv'
  BY <1>7, <1>9 DEF StopTurn, Turn!Stop, Turn!Move, QueueEvents, Events, TerminalStates, LegacyStates
<1>10. CASE CancelTask
  <2>1. Put("canceled") /\ "canceled" \in QueueEvents
    BY <1>10 DEF CancelTask, QueueEvents, Events, TerminalStates, LegacyStates
  <2>2. /\ phase[Task] \in {"open", "streaming", "sealed"} /\ UNCHANGED <<phase, sealedAt, ended>>
        /\ phase[Task] \in {"open", "streaming"} => Len(emitted) + 3 <= MaxFrames
        /\ phase[Task] = "sealed" => Len(emitted) + 2 <= MaxFrames
    BY <1>2, <1>10 DEF CancelTask, Room, Owed
  <2>3. RoomIsKept'
    BY <1>2, <1>3, <2>1, <2>2 DEF RoomIsKept
  <2>4. QED
    BY <1>1, <1>2, <1>3, <2>1, <2>2, <2>3 DEF TInv, DeliveryTypeOK
<1>11. CASE Abort
  BY <1>1, <1>2, <1>11 DEF Abort, TInv, DeliveryTypeOK, RoomIsKept
<1>12. CASE UNCHANGED turnVars
  BY <1>1, <1>12 DEF turnVars, TInv, DeliveryTypeOK, RoomIsKept
<1>13. QED
  BY <1>4, <1>5, <1>6, <1>8, <1>9, <1>10, <1>11, <1>12
     DEF DeliveryNext, Generator, Execute, Serve, Accept, Write, Close, Network,
         OtherServer, Finished, deliveryVars

-----------------------------------------------------------------------------
(* What is queued *)

LEMMA SealedInductive ==
  ASSUME TInv, TInv', SealedBeforeCompleted, [DeliveryNext]_deliveryVars
  PROVE  SealedBeforeCompleted'
<1>1. /\ emitted \in Seq(QueueEvents) /\ Len(emitted) \in Nat /\ sealedAt \in 0 .. Len(emitted)
      /\ phase \in [{Task} -> Turn!Phases]
  BY DEF TInv, DeliveryTypeOK
<1>2. ASSUME NEW e \in QueueEvents, Put(e)
      PROVE  /\ ~ended /\ Len(emitted') = Len(emitted) + 1 /\ emitted'[Len(emitted) + 1] = e
             /\ \A i \in 1 .. Len(emitted) :
                  emitted'[i] = emitted[i] /\ emitted[i] # "completed"
  <2>1. emitted' = Append(emitted, e) /\ ~ended
    BY <1>2 DEF Put, Running
  <2>2. QED
    BY <1>1, <2>1 DEF SealedBeforeCompleted
<1>3. ASSUME NEW e \in QueueEvents \ {"completed"}, Put(e), sealedAt' \in 0 .. Len(emitted'),
             ~ended' /\ phase'[Task] = "sealed" => sealedAt' \in 1 .. Len(emitted')
      PROVE  SealedBeforeCompleted'
  BY <1>1, <1>2, <1>3 DEF SealedBeforeCompleted
<1>4. CASE AnnounceTask
  <2>1. Put("task") /\ "task" \in QueueEvents \ {"completed"} /\ phase'[Task] = "open"
    BY <1>1, <1>4 DEF AnnounceTask, Turn!Announce, Turn!Move, QueueEvents, Events,
                    LegacyStates
  <2>2. QED
    BY <1>3, <2>1 DEF TInv, DeliveryTypeOK
<1>5. CASE Chunk
  <2>1. Put("artifact") /\ "artifact" \in QueueEvents \ {"completed"} /\ phase'[Task] = "streaming"
    BY <1>1, <1>5 DEF Chunk, QueueEvents, Events, LegacyStates
  <2>2. QED
    BY <1>3, <2>1 DEF TInv, DeliveryTypeOK
<1>6. CASE SealOutput
  <2>1. Put("artifact") /\ "artifact" \in QueueEvents \ {"completed"} /\ sealedAt' = Len(emitted) + 1
    BY <1>6 DEF SealOutput, QueueEvents, Events, LegacyStates
  <2>2. Len(emitted') = Len(emitted) + 1
    BY <1>2, <2>1
  <2>3. QED
    BY <1>1, <1>3, <2>1, <2>2
<1>7. CASE CompleteTurn
  <2>1. /\ Put("completed") /\ "completed" \in QueueEvents /\ phase[Task] = "sealed"
        /\ ended' /\ sealedAt' = sealedAt
    BY <1>7 DEF CompleteTurn, Turn!Complete, Turn!Move, QueueEvents, Events, TerminalStates, LegacyStates
  <2>2. sealedAt \in 1 .. Len(emitted)
    BY <1>2, <2>1 DEF SealedBeforeCompleted
  <2>3. QED
    BY <1>1, <1>2, <2>1, <2>2 DEF SealedBeforeCompleted
<1>8. ASSUME NEW e \in {"failed", "canceled", "rejected", "input_required"}, StopTurn(e)
      PROVE  SealedBeforeCompleted'
  <2>1. Put(e) /\ e \in QueueEvents \ {"completed"} /\ ended'
    BY <1>8 DEF StopTurn, QueueEvents, Events, TerminalStates, LegacyStates
  <2>2. QED
    BY <1>3, <2>1 DEF TInv, DeliveryTypeOK
<1>9. CASE CancelTask
  <2>1. /\ Put("canceled") /\ "canceled" \in QueueEvents \ {"completed"}
        /\ UNCHANGED <<phase, sealedAt, ended>>
    BY <1>9 DEF CancelTask, QueueEvents, Events, TerminalStates, LegacyStates
  <2>2. Len(emitted') = Len(emitted) + 1
    BY <1>2, <2>1
  <2>3. ~ended' /\ phase'[Task] = "sealed" => sealedAt' \in 1 .. Len(emitted')
    BY <1>1, <2>1, <2>2 DEF SealedBeforeCompleted
  <2>4. QED
    BY <1>3, <2>1, <2>3 DEF TInv, DeliveryTypeOK
<1>10. CASE Abort
  BY <1>10 DEF Abort, SealedBeforeCompleted
<1>11. CASE UNCHANGED turnVars
  BY <1>11 DEF turnVars, SealedBeforeCompleted
<1>12. QED
  BY <1>4, <1>5, <1>6, <1>7, <1>8, <1>9, <1>10, <1>11
     DEF DeliveryNext, Generator, Execute, Serve, Accept, Write, Close, Network,
         OtherServer, Finished, deliveryVars

(* The SDK writes the queue in order, and nothing else to our client.      *)
LEMMA SentInductive ==
  ASSUME TInv, SentIsQueued, [DeliveryNext]_deliveryVars
  PROVE  SentIsQueued'
<1>1. /\ emitted \in Seq(QueueEvents) /\ Len(emitted) \in Nat
      /\ sent \in Seq(Frames) /\ Len(sent) \in Nat /\ peer \in {"ours", "other"}
  BY DEF TInv, DeliveryTypeOK, TypeOK
<1>2. ASSUME NEW e, Put(e) PROVE SentIsQueued'
  <2>1. emitted' = Append(emitted, e) /\ sent' = sent /\ peer' = peer
    BY <1>2 DEF Put, vars, serverVars
  <2>2. /\ Len(emitted') = Len(emitted) + 1
        /\ \A i \in 1 .. Len(emitted) : emitted'[i] = emitted[i]
    BY <1>1, <2>1
  <2>3. QED
    BY <1>1, <2>1, <2>2 DEF SentIsQueued
<1>3. CASE Execute \/ Chunk \/ CancelTask
  BY <1>2, <1>3 DEF Execute, Chunk, CancelTask, AnnounceTask, SealOutput, CompleteTurn,
                    StopTurn, Abort, SentIsQueued, vars, serverVars
<1>4. CASE Write
  <2>1. /\ Len(sent) < Len(emitted) /\ sent' = Append(sent, OnTheWire(emitted[Len(sent) + 1]))
        /\ UNCHANGED <<emitted, peer>> /\ peer = "ours"
    BY <1>4 DEF Write, Send, turnVars
  <2>2. /\ Len(sent') = Len(sent) + 1 /\ sent'[Len(sent) + 1] = OnTheWire(emitted[Len(sent) + 1])
        /\ \A i \in 1 .. Len(sent) : sent'[i] = sent[i]
    BY <1>1, <2>1
  <2>3. QED
    BY <1>1, <2>1, <2>2 DEF SentIsQueued
<1>5. CASE OtherServer
  BY <1>5 DEF OtherServer, turnVars, SentIsQueued
<1>6. CASE UNCHANGED <<sent, turnVars>>
  BY <1>6 DEF turnVars, SentIsQueued
<1>7. QED
  BY <1>3, <1>4, <1>5, <1>6
     DEF DeliveryNext, Generator, Client, Start, Skip, RaiseIfStreamError, Yield, Resume,
         StreamClosed, RequestError, Finish, Serve, Accept, Close, Network, Respond, Drop,
         Finished, Over, deliveryVars, vars, serverVars

(* No frame of ours is noise or an error: the client yields all it reads.  *)
LEMMA YieldedInductive ==
  ASSUME TInv, SentIsQueued, YieldedIsRead, [DeliveryNext]_deliveryVars
  PROVE  YieldedIsRead'
<1>1. /\ emitted \in Seq(QueueEvents) /\ Len(emitted) \in Nat /\ sent \in Seq(Frames)
      /\ Len(sent) \in Nat /\ read \in 0 .. Len(sent) /\ yielded \in Seq(Events)
  BY DEF TInv, DeliveryTypeOK, TypeOK
<1>2. ASSUME peer = "ours", Unread PROVE Frame \in Events
  BY <1>1, <1>2, WireFrames DEF SentIsQueued, Unread, Frame
<1>3. CASE Generator /\ Yield
  <2>1. /\ yielded' = Append(yielded, sent[read + 1]) /\ read' = read + 1
        /\ sent' = sent /\ peer' = peer
    BY <1>3 DEF Generator, Yield, Frame, serverVars, turnVars
  <2>2. /\ Len(yielded') = Len(yielded) + 1 /\ yielded'[Len(yielded) + 1] = sent[read + 1]
        /\ \A i \in 1 .. Len(yielded) : yielded'[i] = yielded[i]
    BY <1>1, <2>1
  <2>3. QED
    BY <1>1, <2>1, <2>2 DEF YieldedIsRead
<1>4. CASE Generator /\ (Skip \/ RaiseIfStreamError)
  <2>1. Unread /\ Frame \notin Events /\ peer' = peer
    BY <1>4 DEF Generator, Skip, RaiseIfStreamError, Noise, ErrorFrames, Events,
                TerminalStates, LegacyStates, turnVars
  <2>2. peer # "ours"
    BY <1>2, <2>1
  <2>3. QED
    BY <2>1, <2>2 DEF YieldedIsRead
<1>5. ASSUME UNCHANGED <<yielded, read, peer>>,
             \A i \in 1 .. read : sent'[i] = sent[i]
      PROVE  YieldedIsRead'
  BY <1>5 DEF YieldedIsRead
<1>6. CASE UNCHANGED <<yielded, read, sent, peer>>
  BY <1>5, <1>6
<1>7. ASSUME NEW f, Send(f), peer' = peer PROVE YieldedIsRead'
  <2>1. sent' = Append(sent, f) /\ UNCHANGED <<yielded, read>>
    BY <1>7 DEF Send, clientVars
  <2>2. \A i \in 1 .. read : sent'[i] = sent[i]
    BY <1>1, <2>1
  <2>3. QED
    BY <1>5, <1>7, <2>1, <2>2
<1>8. CASE Generator
  BY <1>3, <1>4, <1>6, <1>8
     DEF Generator, Client, Start, Resume, StreamClosed, RequestError, Finish, serverVars,
         turnVars
<1>9. CASE Serve \/ Network \/ OtherServer
  BY <1>6, <1>7, <1>9 DEF Serve, Network, OtherServer, Accept, Write, Close, Respond, Drop,
                         clientVars, turnVars
<1>10. CASE Execute \/ Chunk \/ CancelTask
  BY <1>6, <1>10 DEF Execute, Chunk, CancelTask, AnnounceTask, SealOutput, CompleteTurn,
                     StopTurn, Abort, Put, vars, serverVars, clientVars
<1>11. QED
  BY <1>6, <1>8, <1>9, <1>10
     DEF DeliveryNext, Finished, Over, deliveryVars, turnVars, vars, serverVars, clientVars

-----------------------------------------------------------------------------

LEMMA DeliveryInvariant == DeliverySpec => []DInv
<1>1. DeliveryInit => DInv
  <2>1. SUFFICES ASSUME DeliveryInit PROVE DInv
    OBVIOUS
  <2>2. /\ Len(sent) = 0 /\ Len(yielded) = 0 /\ Len(emitted) = 0 /\ read = 0
        /\ sent \in Seq(Frames) /\ yielded \in Seq(Events) /\ emitted \in Seq(QueueEvents)
    BY <2>1 DEF DeliveryInit, Init
  <2>3. TypeOK
    <3>1. Len(sent) \in 0 .. MaxFrames /\ read \in 0 .. Len(sent)
      BY <2>2, MaxFramesAssumption
    <3>2. /\ answer = "pending" /\ link = "open" /\ pc = "idle"
          /\ terminal = FALSE /\ exception = "none"
      BY <2>1 DEF DeliveryInit, Init
    <3>3. QED
      BY <2>2, <3>1, <3>2 DEF TypeOK
  <2>4. phase \in [{Task} -> Turn!Phases] /\ phase[Task] = "silent"
    BY <2>1 DEF DeliveryInit, Turn!Init, Turn!Phases
  <2>5. DeliveryTypeOK
    <3>1. peer \in {"ours", "other"} /\ ended = FALSE /\ sealedAt = 0
      BY <2>1 DEF DeliveryInit
    <3>2. Len(emitted) <= MaxFrames /\ sealedAt \in 0 .. Len(emitted)
      BY <2>2, <3>1, MaxFramesAssumption
    <3>3. QED
      BY <2>2, <2>3, <2>4, <3>1, <3>2 DEF DeliveryTypeOK
  <2>6. RoomIsKept /\ SealedBeforeCompleted /\ SentIsQueued /\ YieldedIsRead
    BY <2>1, <2>2, <2>4
       DEF DeliveryInit, RoomIsKept, SealedBeforeCompleted, SentIsQueued, YieldedIsRead
  <2>7. QED
    BY <2>5, <2>6 DEF DInv, TInv
<1>2. DInv /\ [DeliveryNext]_deliveryVars => DInv'
  BY TInvInductive, SealedInductive, SentInductive, YieldedInductive DEF DInv
<1>3. QED
  BY <1>1, <1>2, PTL DEF DeliverySpec

(* The composed system implements the client's own specification, so every *)
(* invariant of StreamClient is one of it.                                 *)
THEOREM ClientImplementation == DeliverySpec => Spec
<1>1. DeliveryInit => Init
  BY DEF DeliveryInit
<1>2. DInv /\ [DeliveryNext]_deliveryVars => [Next]_vars
  BY StepIsClientStep DEF DInv, TInv
<1>3. QED
  BY <1>1, <1>2, DeliveryInvariant, PTL DEF DeliverySpec, Spec

(* The turn of the composed system keeps to the protocol A2AExecutor is    *)
(* shown to implement.                                                     *)
THEOREM TurnImplementation == DeliverySpec => Turn!Spec
<1>1. DeliveryInit => Turn!Init
  BY DEF DeliveryInit
<1>2. DInv /\ [DeliveryNext]_deliveryVars => [Turn!Next]_phase
  <2>1. SUFFICES ASSUME DInv, DeliveryNext PROVE Turn!Next \/ UNCHANGED phase
    BY DEF deliveryVars, turnVars
  <2>2. CASE Chunk
    <3>1. CASE phase[Task] = "open"
      BY <2>2, <3>1 DEF Chunk, Turn!Next, Turn!Stream, Turn!Move
    <3>2. CASE phase[Task] = "streaming"
      BY <2>1, <2>2, <3>2 DEF Chunk, DInv, TInv, DeliveryTypeOK
    <3>3. QED
      BY <2>2, <3>1, <3>2 DEF Chunk
  <2>3. CASE AnnounceTask \/ SealOutput \/ CompleteTurn
    BY <2>3 DEF AnnounceTask, SealOutput, CompleteTurn, Turn!Next
  <2>4. ASSUME NEW e \in {"failed", "canceled", "rejected", "input_required"}, StopTurn(e)
        PROVE  Turn!Next
    BY <2>4 DEF StopTurn, Turn!Next
  <2>5. CASE Abort \/ CancelTask \/ UNCHANGED turnVars
    BY <2>5 DEF Abort, CancelTask, turnVars
  <2>6. QED
    BY <2>1, <2>2, <2>3, <2>4, <2>5
       DEF DeliveryNext, Generator, Execute, Serve, Accept, Write, Close, Network,
           OtherServer, Finished, deliveryVars
<1>3. QED
  BY <1>1, <1>2, DeliveryInvariant, PTL DEF DeliverySpec, Turn!Spec

(* The types, and that a turn never outgrows the stream it is written to.  *)
THEOREM DeliveryTypeCorrect == DeliverySpec => []DeliveryTypeOK
<1>1. DInv => DeliveryTypeOK
  BY DEF DInv, TInv
<1>2. QED
  BY <1>1, DeliveryInvariant, PTL

(* "completed" is only ever given to a consumer that has been given the    *)
(* event that seals the output and all that was queued before it.          *)
THEOREM CompletedMeansWhole == DeliverySpec => []CompletedIsWhole
<1>1. DInv => CompletedIsWhole
  <2>1. SUFFICES ASSUME DInv, peer = "ours", NEW i \in 1 .. Len(yielded),
                        yielded[i] = OnTheWire("completed")
                 PROVE  /\ sealedAt \in 1 .. i - 1
                        /\ \A j \in 1 .. sealedAt : yielded[j] = OnTheWire(emitted[j])
    BY DEF CompletedIsWhole
  <2>2. /\ emitted \in Seq(QueueEvents) /\ Len(emitted) \in Nat /\ Len(sent) \in Nat
        /\ read \in 0 .. Len(sent) /\ yielded \in Seq(Events) /\ Len(sent) <= Len(emitted)
        /\ Len(yielded) = read
    BY <2>1 DEF DInv, TInv, DeliveryTypeOK, TypeOK, SentIsQueued, YieldedIsRead
  <2>3. \A j \in 1 .. read : yielded[j] = OnTheWire(emitted[j])
    BY <2>1, <2>2 DEF DInv, SentIsQueued, YieldedIsRead
  <2>4. emitted[i] = "completed"
    BY <2>1, <2>2, <2>3, WireFrames
  <2>5. sealedAt \in 1 .. i - 1
    BY <2>1, <2>2, <2>4 DEF DInv, SealedBeforeCompleted
  <2>6. QED
    BY <2>1, <2>2, <2>3, <2>5
<1>2. QED
  BY <1>1, DeliveryInvariant, PTL

(* What holds of a client of any server holds of one of our own: its       *)
(* consumer is given the events in order and each once, a terminal status  *)
(* of A2A 1.0 is the last of them, an error frame raises its exception.    *)
THEOREM DeliveredOutcomes ==
  DeliverySpec => [](EventsInOrder /\ OneOutcome /\ ErrorFramesAreRaised)
BY ClientImplementation, EventsArriveInOrder, OneOutcomeOnly, ErrorsAreRaised, PTL

-----------------------------------------------------------------------------
(* How a stream of ours ends.  EveryStreamEnds needs fairness and stays    *)
(* with TLC; here is what it rests on, without fairness.  A turn only ever *)
(* advances; once it is over what is left to do shrinks with every step of *)
(* anybody; and until the consumer's stream is over somebody can act.      *)

(* What execute() still has to do, however many chunks and cancels come    *)
(* between its steps.                                                      *)
TurnAhead == IF ended THEN 0
             ELSE CASE phase[Task] = "silent"               -> 3
                    [] phase[Task] \in {"open", "streaming"} -> 2
                    [] OTHER                                -> 1

TurnAdvances ==
  /\ TurnAhead' <= TurnAhead
  /\ Execute => TurnAhead' < TurnAhead

(* No step of anybody puts a turn back, and each of its own brings it      *)
(* nearer its end: at most three steps between the chunks of the module.   *)
THEOREM TurnNeverGoesBack == DeliverySpec => [][TurnAdvances]_deliveryVars
<1>1. ASSUME DInv, DeliveryNext PROVE TurnAdvances
  <2>1. phase \in [{Task} -> Turn!Phases] /\ TurnAhead \in 0 .. 3 /\ ended \in BOOLEAN
    BY <1>1 DEF DInv, TInv, DeliveryTypeOK, TurnAhead
  <2>2. CASE Execute
    <3>1. ~ended /\ phase[Task] \in {"silent", "open", "streaming", "sealed"}
      <4>1. Running
        BY <2>2 DEF Execute, AnnounceTask, SealOutput, CompleteTurn, StopTurn, Abort, Put
      <4>2. QED
        BY <1>1, <4>1 DEF Running, DInv, TInv, RoomIsKept
    <3>2. CASE AnnounceTask
      <4>1. /\ phase[Task] = "silent" /\ phase' = [phase EXCEPT ![Task] = "open"]
            /\ ended' = ended
        BY <3>2 DEF AnnounceTask, Turn!Announce, Turn!Move
      <4>2. phase'[Task] = "open"
        BY <2>1, <4>1
      <4>3. TurnAhead = 3 /\ TurnAhead' = 2
        BY <3>1, <4>1, <4>2 DEF TurnAhead
      <4>4. QED
        BY <4>3 DEF TurnAdvances
    <3>3. CASE SealOutput
      <4>1. /\ phase[Task] \in {"open", "streaming"} /\ ended' = ended
            /\ phase' = [phase EXCEPT ![Task] = "sealed"]
        BY <3>3 DEF SealOutput, Turn!Seal, Turn!Move
      <4>2. phase'[Task] = "sealed"
        BY <2>1, <4>1
      <4>3. TurnAhead = 2 /\ TurnAhead' = 1
        BY <3>1, <4>1, <4>2 DEF TurnAhead
      <4>4. QED
        BY <4>3 DEF TurnAdvances
    <3>4. CASE ended'
      <4>1. TurnAhead \in 1 .. 3 /\ TurnAhead' = 0
        BY <3>1, <3>4 DEF TurnAhead
      <4>2. QED
        BY <4>1 DEF TurnAdvances
    <3>5. QED
      BY <2>2, <3>2, <3>3, <3>4 DEF Execute, CompleteTurn, StopTurn, Abort
  <2>3. ASSUME ~Execute, TurnAhead' = TurnAhead PROVE TurnAdvances
    BY <2>1, <2>3 DEF TurnAdvances
  <2>4. CASE Chunk
    <3>1. /\ ~ended /\ ended' = ended /\ phase[Task] \in {"open", "streaming"}
          /\ phase' = [phase EXCEPT ![Task] = "streaming"]
      BY <2>4 DEF Chunk, Put, Running
    <3>2. phase'[Task] = "streaming"
      BY <2>1, <3>1
    <3>3. TurnAhead' = TurnAhead
      BY <3>1, <3>2 DEF TurnAhead
    <3>4. QED
      BY <2>1, <2>2, <3>3 DEF TurnAdvances
  <2>5. CASE ~Execute /\ UNCHANGED <<phase, ended>>
    <3>1. TurnAhead' = TurnAhead
      BY <2>5 DEF TurnAhead
    <3>2. QED
      BY <2>3, <2>5, <3>1
  <2>6. QED
    BY <1>1, <2>2, <2>4, <2>5
       DEF DeliveryNext, Generator, Serve, Accept, Write, Close, Network, OtherServer,
           Finished, CancelTask, deliveryVars, turnVars
<1>2. QED
  BY <1>1, DeliveryInvariant, PTL DEF DeliverySpec

(* The turn will put nothing on the queue any more. *)
TurnOver == ended \/ answer \in {"refusal", "unreachable"}

Remaining ==
  (Len(emitted) - Len(sent)) + 2 * (Len(emitted) - read) + Pace
    + (IF link = "open" THEN 1 ELSE 0) + (IF answer = "pending" THEN 1 ELSE 0)

Drains ==
  peer = "ours" /\ TurnOver =>
    /\ TurnOver'
    /\ Remaining \in Nat
    /\ Remaining' < Remaining

(* What is left of a stream whose turn is over is a natural number that    *)
(* every step of anybody lowers: no two parties keep each other busy, and  *)
(* the stream is over, or everything at rest, after that many steps.       *)
THEOREM FinishedTurnsDrain == DeliverySpec => [][Drains]_deliveryVars
<1>1. ASSUME DInv, DeliveryNext PROVE Drains \/ UNCHANGED deliveryVars
  <2>1. SUFFICES ASSUME peer = "ours", TurnOver, ~(UNCHANGED deliveryVars)
                 PROVE  TurnOver' /\ Remaining \in Nat /\ Remaining' < Remaining
    BY DEF Drains
  <2> DEFINE Link == IF link = "open" THEN 1 ELSE 0
             Asked == IF answer = "pending" THEN 1 ELSE 0
             Unsent == Len(emitted) - Len(sent)
             ToYield == 2 * (Len(emitted) - read)
  <2>2. /\ emitted \in Seq(QueueEvents) /\ sent \in Seq(Frames) /\ read \in Nat
        /\ Len(emitted) \in Nat /\ Len(sent) \in Nat
        /\ read <= Len(sent) /\ Len(sent) <= Len(emitted)
    BY <1>1, <2>1 DEF DInv, TInv, DeliveryTypeOK, TypeOK, SentIsQueued
  <2>3. /\ Unsent \in Nat /\ ToYield \in Nat /\ Pace \in Nat /\ Link \in Nat /\ Asked \in Nat
        /\ Remaining = Unsent + ToYield + Pace + Link + Asked
    BY <2>2 DEF Remaining, Pace
  <2>4. Remaining' = Unsent' + ToYield' + Pace' + Link' + Asked'
    BY DEF Remaining
  <2>5. Remaining \in Nat
    BY <2>3
  <2>6. ~Running
    BY <2>1 DEF TurnOver, Running
  <2>7. CASE Generator
    <3>1. UNCHANGED <<serverVars, emitted, ended>>
      BY <2>7 DEF Generator, Client, Start, Skip, RaiseIfStreamError, Yield, Resume,
                  StreamClosed, RequestError, Finish, turnVars
    <3>2. /\ TurnOver' /\ Unsent' = Unsent /\ Link' = Link /\ Asked' = Asked
          /\ Len(emitted') = Len(emitted)
      BY <2>1, <3>1 DEF TurnOver, serverVars
    <3>3. CASE Start \/ Resume \/ StreamClosed \/ RequestError
      <4>1. /\ read' = read
            /\ \/ Pace = 2 /\ (Pace' = 1 \/ Pace' = 0)
               \/ Pace = 1 /\ Pace' = 0
        BY <3>3 DEF Start, Resume, StreamClosed, RequestError, Finish, Pace
      <4>2. ToYield' = ToYield
        BY <3>2, <4>1
      <4> HIDE DEF Link, Asked, Unsent, ToYield
      <4>3. QED
        BY <2>3, <2>4, <2>5, <3>2, <4>1, <4>2
    <3>4. CASE Skip \/ RaiseIfStreamError \/ Yield
      <4>1. read' = read + 1 /\ Pace = 1 /\ (Pace' = 0 \/ Pace' = 1 \/ Pace' = 2)
        BY <3>4 DEF Skip, RaiseIfStreamError, Yield, Finish, Pace
      <4>2. ToYield' = ToYield - 2
        BY <2>2, <3>2, <4>1
      <4> HIDE DEF Link, Asked, Unsent, ToYield
      <4>3. QED
        BY <2>3, <2>4, <2>5, <3>2, <4>1, <4>2
    <3>5. QED
      BY <2>7, <3>3, <3>4 DEF Generator, Client
  <2>8. ASSUME UNCHANGED <<clientVars, turnVars>>,
               \/ Unsent' = Unsent - 1 /\ Link' = Link /\ Asked' = Asked
               \/ Unsent' = Unsent /\ Link = 1 /\ Link' = 0 /\ Asked' = Asked
               \/ Unsent' = Unsent /\ Link' = Link /\ Asked = 1 /\ Asked' = 0
        PROVE  Remaining' < Remaining
    <3>1. Pace' = Pace /\ ToYield' = ToYield
      BY <2>8 DEF clientVars, turnVars, Pace
    <3> HIDE DEF Link, Asked, Unsent, ToYield
    <3>2. QED
      BY <2>3, <2>4, <2>8, <3>1
  <2>9. ASSUME NEW f, Send(f), UNCHANGED turnVars
        PROVE  TurnOver' /\ Remaining' < Remaining
    <3>1. /\ sent' = Append(sent, f) /\ UNCHANGED <<answer, link, clientVars>>
      BY <2>9 DEF Send
    <3>2. Len(sent') = Len(sent) + 1
      BY <2>2, <3>1
    <3>3. Unsent' = Unsent - 1 /\ Link' = Link /\ Asked' = Asked
      BY <2>2, <2>9, <3>1, <3>2 DEF turnVars
    <3>4. TurnOver'
      BY <2>1, <2>9, <3>1 DEF TurnOver, turnVars
    <3>5. QED
      BY <2>8, <2>9, <3>1, <3>3, <3>4
  <2>10. ASSUME NEW how \in {"closed", "cut"}, Drop(how), UNCHANGED turnVars
         PROVE  TurnOver' /\ Remaining' < Remaining
    <3>1. link = "open" /\ link' # "open" /\ UNCHANGED <<answer, sent, clientVars>>
      BY <2>10 DEF Drop
    <3>2. Unsent' = Unsent /\ Link = 1 /\ Link' = 0 /\ Asked' = Asked
      BY <2>10, <3>1 DEF turnVars
    <3>3. TurnOver'
      BY <2>1, <2>10, <3>1 DEF TurnOver, turnVars
    <3>4. QED
      BY <2>8, <2>10, <3>1, <3>2, <3>3
  <2>11. ASSUME NEW a \in {"stream", "refusal", "unreachable"}, Respond(a), UNCHANGED turnVars
         PROVE  TurnOver' /\ Remaining' < Remaining
    <3>1. answer = "pending" /\ answer' # "pending" /\ UNCHANGED <<sent, link, clientVars>>
      BY <2>11 DEF Respond
    <3>2. Unsent' = Unsent /\ Link' = Link /\ Asked = 1 /\ Asked' = 0
      BY <2>11, <3>1 DEF turnVars
    <3>3. TurnOver'
      BY <2>1, <2>11, <3>1 DEF TurnOver, turnVars
    <3>4. QED
      BY <2>8, <2>11, <3>1, <3>2, <3>3
  <2>12. CASE Serve \/ Network
    BY <2>5, <2>9, <2>10, <2>11, <2>12 DEF Serve, Accept, Write, Close, Network
  <2>13. CASE Execute \/ Chunk \/ CancelTask
    BY <2>6, <2>13 DEF Execute, Chunk, CancelTask, AnnounceTask, SealOutput, CompleteTurn,
                       StopTurn, Abort, Put
  <2>14. QED
    BY <1>1, <2>1, <2>5, <2>7, <2>12, <2>13 DEF DeliveryNext, OtherServer, Finished
<1>2. QED
  BY <1>1, DeliveryInvariant, PTL DEF DeliverySpec

(* The guards of Generator and of Serve once the request is answered; of   *)
(* Execute it is Running, since a turn may be cut short at any point.      *)
GeneratorReady ==
  \/ pc \in {"idle", "yielding"}
  \/ pc = "reading" /\ (Unread \/ link # "open" \/ answer = "unreachable")

CloseReady ==
  \/ answer = "refusal"
  \/ /\ answer = "stream"
     /\ \/ \E i \in 1 .. Len(sent) : emitted[i] \in Final
        \/ ended /\ Len(sent) = Len(emitted)

WriteReady ==
  /\ answer = "stream" /\ Len(sent) < Len(emitted) /\ Len(sent) < MaxFrames
  /\ \A i \in 1 .. Len(sent) :
       emitted[i] \notin TerminalStates /\ sent[i] \notin ErrorFrames

ServeReady == link = "open" /\ (CloseReady \/ WriteReady)

SomebodyIsReady ==
  peer = "ours" /\ answer # "pending" /\ ~Over =>
    Running \/ GeneratorReady \/ ServeReady

(* A stream of ours never waits with nobody to wait for: the turn goes on, *)
(* or the generator has something to do, or the SDK has a frame to write   *)
(* or a response to close; also after a turn that was cut short without    *)
(* any outcome and after a canceled that overtook the rest of the queue.   *)
THEOREM NobodyWaitsForNobody == DeliverySpec => []SomebodyIsReady
<1>1. DInv => SomebodyIsReady
  <2>1. SUFFICES ASSUME DInv, peer = "ours", answer # "pending", ~Over, ~Running,
                        ~GeneratorReady
                 PROVE  ServeReady
    BY DEF SomebodyIsReady
  <2>2. /\ emitted \in Seq(QueueEvents) /\ Len(emitted) \in Nat /\ Len(sent) \in Nat
        /\ Len(sent) <= Len(emitted) /\ Len(emitted) <= MaxFrames /\ MaxFrames \in Nat
        /\ \A i \in 1 .. Len(sent) : sent[i] = OnTheWire(emitted[i])
    BY <2>1, MaxFramesAssumption DEF DInv, TInv, DeliveryTypeOK, TypeOK, SentIsQueued
  <2>3. \A i \in 1 .. Len(sent) : sent[i] \notin ErrorFrames
    BY <2>2, WireFrames
  <2>4. /\ pc = "reading" /\ link = "open" /\ answer # "unreachable"
        /\ answer \in {"pending", "stream", "refusal", "unreachable"}
    BY <2>1 DEF Over, GeneratorReady, DInv, TInv, DeliveryTypeOK, TypeOK
  <2>5. CASE answer = "refusal"
    BY <2>4, <2>5 DEF ServeReady, CloseReady
  <2>6. CASE answer = "stream"
    <3>1. ended
      BY <2>1, <2>6 DEF Running
    <3>2. CASE Len(sent) = Len(emitted)
      BY <2>4, <2>6, <3>1, <3>2 DEF ServeReady, CloseReady
    <3>3. CASE \E i \in 1 .. Len(sent) : emitted[i] \in TerminalStates
      BY <2>4, <2>6, <3>3 DEF ServeReady, CloseReady, Final
    <3>4. CASE /\ Len(sent) < Len(emitted)
               /\ \A i \in 1 .. Len(sent) : emitted[i] \notin TerminalStates
      BY <2>2, <2>3, <2>4, <2>6, <3>4 DEF ServeReady, WriteReady
    <3>5. QED
      BY <2>2, <3>2, <3>3, <3>4
  <2>7. QED
    BY <2>1, <2>4, <2>5, <2>6
<1>2. QED
  BY <1>1, DeliveryInvariant, PTL

(* The client has read all of the response, and the server has closed it.  *)
ClosedByServer ==
  peer = "ours" /\ pc = "returned" => link = "closed" /\ read = Len(sent)

(* On a stream of our own server stream_message() never returns at an      *)
(* event: only the close of the response ends it, after its last frame.    *)
(* _is_terminal_event() looks for the frames of A2A 1.0, and what answers  *)
(* an unversioned request writes none.                                     *)
THEOREM OurStreamsEndByTheClose == DeliverySpec => []ClosedByServer
<1>1. DInv /\ ReturnIsClean => ClosedByServer
  <2>1. SUFFICES ASSUME DInv, ReturnIsClean, peer = "ours", pc = "returned"
                 PROVE  link = "closed" /\ read = Len(sent)
    BY DEF ClosedByServer
  <2>2. /\ emitted \in Seq(QueueEvents) /\ Len(emitted) \in Nat /\ Len(sent) \in Nat
        /\ read \in 0 .. Len(sent) /\ Len(sent) <= Len(emitted)
        /\ Len(yielded) \in Nat /\ Len(yielded) = read
    BY <2>1 DEF DInv, TInv, DeliveryTypeOK, TypeOK, SentIsQueued, YieldedIsRead
  <2>3. \A i \in 1 .. read : yielded[i] = OnTheWire(emitted[i])
    BY <2>1, <2>2 DEF DInv, SentIsQueued, YieldedIsRead
  <2>4. \A i \in 1 .. Len(yielded) : yielded[i] \notin TerminalStates
    BY <2>2, <2>3, WireFrames
  <2>5. QED
    BY <2>1, <2>2, <2>4 DEF ReturnIsClean
<1>2. QED
  BY <1>1, DeliveryInvariant, ClientImplementation, ReturnsClean, PTL

(* Our SDK closes a response after a final event, or when the turn is over *)
(* and everything it put on the queue has been written.                    *)
ClosedInOrder ==
  peer = "ours" /\ link = "closed" =>
    /\ answer # "pending"
    /\ answer = "stream" =>
         \/ \E i \in 1 .. Len(sent) : emitted[i] \in Final
         \/ ended /\ Len(sent) = Len(emitted)

LEMMA ClosedInductive ==
  ASSUME DInv, ClosedInOrder, [DeliveryNext]_deliveryVars
  PROVE  ClosedInOrder'
<1>1. CASE Close
  BY <1>1 DEF Close, Drop, turnVars, ClosedInOrder
<1>2. ASSUME UNCHANGED <<peer, answer, sent, link>>,
             ended => UNCHANGED <<emitted, ended>>,
             peer = "ours" => \A i \in 1 .. Len(sent) : emitted'[i] = emitted[i]
      PROVE  ClosedInOrder'
  BY <1>2 DEF ClosedInOrder
<1>3. CASE Execute \/ Chunk \/ CancelTask
  <2>1. UNCHANGED vars /\ ~ended /\ UNCHANGED peer
    BY <1>3 DEF Execute, Chunk, CancelTask, AnnounceTask, SealOutput, CompleteTurn,
                StopTurn, Abort, Put, Running
  <2>2. emitted' = emitted \/ \E e : emitted' = Append(emitted, e)
    BY <1>3 DEF Execute, Chunk, CancelTask, AnnounceTask, SealOutput, CompleteTurn,
                StopTurn, Abort, Put
  <2>3. ASSUME peer = "ours" PROVE \A i \in 1 .. Len(sent) : emitted'[i] = emitted[i]
    <3>1. /\ emitted \in Seq(QueueEvents) /\ Len(emitted) \in Nat /\ Len(sent) \in Nat
          /\ Len(sent) <= Len(emitted)
      BY <2>3 DEF DInv, TInv, DeliveryTypeOK, TypeOK, SentIsQueued
    <3>2. QED
      BY <2>2, <3>1
  <2>4. QED
    BY <1>2, <2>1, <2>3 DEF vars, serverVars
<1>4. ASSUME link' # "closed" PROVE ClosedInOrder'
  BY <1>4 DEF ClosedInOrder
<1>5. ASSUME NEW a, Respond(a), UNCHANGED turnVars PROVE ClosedInOrder'
  BY <1>5 DEF Respond, turnVars, ClosedInOrder
<1>6. CASE Write \/ Network
  BY <1>4, <1>5, <1>6 DEF Write, Network, Send, Drop
<1>7. CASE peer # "ours" /\ peer' = peer
  BY <1>7 DEF ClosedInOrder
<1>8. CASE UNCHANGED <<serverVars, turnVars>>
  BY <1>2, <1>8 DEF serverVars, turnVars
<1>9. QED
  BY <1>1, <1>3, <1>5, <1>6, <1>7, <1>8
     DEF DeliveryNext, Generator, Client, Start, Skip, RaiseIfStreamError, Yield, Resume,
         StreamClosed, RequestError, Finish, Serve, Accept, OtherServer, Finished,
         deliveryVars, vars, turnVars

(* A stream of ours that ends without an exception ends with everything    *)
(* the consumer can rely on: no event is lost between the queue and it,    *)
(* whichever of the turn, the SDK and the generator came first.            *)
THEOREM QuietEndsAreWhole == DeliverySpec => []QuietEndIsWhole
<1>1. DInv /\ ClosedInOrder /\ ClosedByServer => QuietEndIsWhole
  <2>1. SUFFICES ASSUME DInv, ClosedInOrder, ClosedByServer,
                        peer = "ours", answer = "stream", pc = "returned",
                        \A i \in 1 .. Len(yielded) :
                          yielded[i] \notin {OnTheWire(e) : e \in Final}
                 PROVE  ended /\ yielded = [i \in 1 .. Len(emitted) |-> OnTheWire(emitted[i])]
    BY DEF QuietEndIsWhole
  <2>2. /\ emitted \in Seq(QueueEvents) /\ Len(emitted) \in Nat /\ Len(sent) \in Nat
        /\ yielded \in Seq(Events) /\ Len(yielded) \in Nat /\ Len(yielded) = read
    BY <2>1 DEF DInv, TInv, DeliveryTypeOK, TypeOK, SentIsQueued, YieldedIsRead
  <2>3. link = "closed" /\ read = Len(sent)
    BY <2>1 DEF ClosedByServer
  <2>4. \A i \in 1 .. Len(sent) : yielded[i] = OnTheWire(emitted[i])
    BY <2>1, <2>3 DEF DInv, SentIsQueued, YieldedIsRead
  <2>5. \A i \in 1 .. Len(sent) : emitted[i] \notin Final
    BY <2>1, <2>2, <2>3, <2>4
  <2>6. ended /\ Len(sent) = Len(emitted)
    BY <2>1, <2>3, <2>5 DEF ClosedInOrder
  <2>7. yielded = [i \in 1 .. Len(yielded) |-> yielded[i]]
    BY <2>2
  <2>8. QED
    BY <2>2, <2>3, <2>4, <2>6, <2>7
<1>2. DeliveryInit => ClosedInOrder
  BY DEF DeliveryInit, Init, ClosedInOrder
<1>3. DeliverySpec => []ClosedInOrder
  BY <1>2, ClosedInductive, DeliveryInvariant, PTL DEF DeliverySpec
<1>4. QED
  BY <1>1, <1>3, DeliveryInvariant, OurStreamsEndByTheClose, PTL
=============================================================================
