------------------------- MODULE StreamClientProofs -------------------------
(***************************************************************************)
(* The stream of the client, for any number of frames: a terminal status   *)
(* (TerminalStates, the frames of A2A 1.0) is the last event the consumer  *)
(* gets, and an error frame that is read is raised.  Both need to know what the generator may still do: while it is *)
(* reading it has yielded no terminal status and read no error frame, and  *)
(* while it is suspended in a yield the flag says what it has yielded.     *)
(***************************************************************************)
EXTENDS StreamClient, FiniteSetTheorems, TLAPS

Exceptions == {"none", "A2AConnectionError", "A2AServerError"}
                \cup {GovernanceErrors[c] : c \in DOMAIN GovernanceErrors}
                \cup {JsonRpcErrors[c] : c \in DOMAIN JsonRpcErrors}

(* Nothing terminal has been yielded, unless it is what the generator is   *)
(* suspended in or has ended with.                                         *)
LastIsTerminal ==
  /\ pc \in {"idle", "reading"} =>
       \A i \in 1 .. Len(yielded) : yielded[i] \notin TerminalStates
  /\ pc = "yielding" =>
       Len(yielded) > 0 /\ (terminal <=> yielded[Len(yielded)] \in TerminalStates)

IInv == TypeOK /\ OneOutcome /\ LastIsTerminal /\ ErrorFramesAreRaised

(* Whatever an error frame holds is mapped to an exception of the client.  *)
LEMMA MappedException ==
  ASSUME NEW c \in Int
  PROVE  RaiseJsonRpcError(c) \in Exceptions
BY DEF RaiseJsonRpcError, Exceptions

LEMMA TypeInductive == TypeOK /\ [Next]_vars => TypeOK'
<1>1. SUFFICES ASSUME TypeOK, [Next]_vars PROVE TypeOK'
  OBVIOUS
<1> USE MaxFramesAssumption DEF TypeOK
<1>2. ASSUME NEW a \in {"stream", "refusal", "unreachable"}, Respond(a) PROVE TypeOK'
  BY <1>1, <1>2 DEF Respond, clientVars
<1>3. ASSUME NEW f \in Frames, Send(f) PROVE TypeOK'
  <2>1. /\ sent' \in Seq(Frames) /\ Len(sent') = Len(sent) + 1 /\ Len(sent) < MaxFrames
    BY <1>1, <1>3 DEF Send
  <2>2. QED
    BY <1>1, <1>3, <2>1 DEF Send, clientVars
<1>4. ASSUME NEW how \in {"closed", "cut"}, Drop(how) PROVE TypeOK'
  BY <1>1, <1>4 DEF Drop, clientVars
<1>5. CASE Start
  BY <1>1, <1>5 DEF Start, serverVars
<1>6. CASE Skip
  BY <1>1, <1>6 DEF Skip, Unread, serverVars
<1>7. CASE RaiseIfStreamError
  <2>1. CodeOf(Frame) \in Int
    BY DEF CodeOf, TaskNotFound, InternalError
  <2>2. exception' \in Exceptions
    BY <1>7, <2>1, MappedException DEF RaiseIfStreamError, Finish
  <2>3. QED
    BY <1>1, <1>7, <2>2 DEF RaiseIfStreamError, Finish, Unread, serverVars, Exceptions
<1>8. CASE Yield
  <2>1. yielded' \in Seq(Events) /\ terminal' \in BOOLEAN
    BY <1>1, <1>8 DEF Yield, IsTerminalEvent
  <2>2. QED
    BY <1>1, <1>8, <2>1 DEF Yield, Unread, serverVars
<1>9. CASE Resume
  BY <1>1, <1>9 DEF Resume, serverVars
<1>10. CASE StreamClosed
  BY <1>1, <1>10 DEF StreamClosed, Finish, serverVars
<1>11. CASE RequestError
  BY <1>1, <1>11 DEF RequestError, Finish, serverVars
<1>12. CASE UNCHANGED vars
  BY <1>1, <1>12 DEF vars, serverVars, clientVars
<1>13. QED
  BY <1>1, <1>2, <1>3, <1>4, <1>5, <1>6, <1>7, <1>8, <1>9, <1>10, <1>11, <1>12
     DEF Next, Client, Server, Rest

(* What the consumer has been given: one step per action that touches it.  *)
LEMMA OutcomeInductive ==
  ASSUME IInv, [Next]_vars
  PROVE  OneOutcome' /\ LastIsTerminal'
<1>1. yielded \in Seq(Events) /\ Len(yielded) \in Nat
  BY DEF IInv, TypeOK
<1>2. CASE Yield
  <2>1. yielded' = Append(yielded, Frame) /\ terminal' = (Frame \in TerminalStates)
        /\ pc = "reading" /\ pc' = "yielding"
    BY <1>2 DEF Yield, IsTerminalEvent
  <2>2. /\ Len(yielded') = Len(yielded) + 1 /\ yielded'[Len(yielded')] = Frame
        /\ \A i \in 1 .. Len(yielded) : yielded'[i] = yielded[i]
    BY <1>1, <2>1
  <2>3. \A i \in 1 .. Len(yielded) : yielded[i] \notin TerminalStates
    BY <2>1 DEF IInv, LastIsTerminal
  <2>4. OneOutcome'
    BY <1>1, <2>2, <2>3 DEF OneOutcome
  <2>5. LastIsTerminal'
    <3>1. Len(yielded') > 0
      BY <1>1, <2>2
    <3>2. terminal' <=> yielded'[Len(yielded')] \in TerminalStates
      BY <2>1, <2>2, Zenon
    <3>3. QED
      BY <2>1, <3>1, <3>2, Zenon DEF LastIsTerminal
  <2>6. QED
    BY <2>4, <2>5
<1>3. CASE Resume
  <2>1. UNCHANGED <<yielded, terminal>> /\ pc = "yielding"
        /\ pc' = IF terminal THEN "returned" ELSE "reading"
    BY <1>3 DEF Resume
  <2>2. OneOutcome'
    BY <2>1 DEF IInv, OneOutcome
  <2>3. LastIsTerminal'
    BY <1>1, <2>1 DEF IInv, OneOutcome, LastIsTerminal
  <2>4. QED
    BY <2>2, <2>3
<1>4. CASE UNCHANGED <<yielded, terminal, pc>>
  BY <1>4 DEF IInv, OneOutcome, LastIsTerminal
<1>5. CASE Start \/ Skip \/ RaiseIfStreamError \/ StreamClosed \/ RequestError
  <2>1. UNCHANGED <<yielded, terminal>> /\ pc \in {"idle", "reading"} /\ pc' # "yielding"
    BY <1>5 DEF Start, Skip, RaiseIfStreamError, StreamClosed, RequestError, Finish
  <2>2. QED
    BY <2>1 DEF IInv, OneOutcome, LastIsTerminal
<1>6. QED
  BY <1>2, <1>3, <1>4, <1>5
     DEF Next, Client, Server, Rest, Respond, Send, Drop, vars, clientVars

(* What has been read: only RaiseIfStreamError reads an error frame.       *)
LEMMA ErrorsInductive ==
  ASSUME IInv, [Next]_vars
  PROVE  ErrorFramesAreRaised'
<1>1. sent \in Seq(Frames) /\ read \in 0 .. Len(sent) /\ Len(sent) \in Nat
  BY DEF IInv, TypeOK
<1>2. CASE RaiseIfStreamError
  <2>1. /\ sent' = sent /\ read' = read + 1 /\ pc' = "raised" /\ pc = "reading"
        /\ exception' = RaiseJsonRpcError(CodeOf(sent[read + 1]))
    BY <1>2 DEF RaiseIfStreamError, Finish, Frame, serverVars
  <2>2. \A i \in 1 .. read : sent[i] \notin ErrorFrames
    BY <2>1 DEF IInv, ErrorFramesAreRaised
  <2>3. QED
    BY <1>1, <2>1, <2>2 DEF ErrorFramesAreRaised
<1>3. CASE Skip \/ Yield
  <2>1. /\ sent' = sent /\ read' = read + 1 /\ pc = "reading"
        /\ sent[read + 1] \notin ErrorFrames
    BY <1>3 DEF Skip, Yield, Frame, serverVars, Noise, Events, TerminalStates, LegacyStates,
                ErrorFrames
  <2>2. \A i \in 1 .. read : sent[i] \notin ErrorFrames
    BY <2>1 DEF IInv, ErrorFramesAreRaised
  <2>3. QED
    BY <1>1, <2>1, <2>2 DEF ErrorFramesAreRaised
<1>4. CASE Start \/ Resume \/ StreamClosed \/ RequestError
  <2>1. UNCHANGED <<sent, read>> /\ pc # "raised"
    BY <1>4 DEF Start, Resume, StreamClosed, RequestError, Finish, serverVars
  <2>2. QED
    BY <2>1 DEF IInv, ErrorFramesAreRaised
<1>5. ASSUME NEW f \in Frames, Send(f) PROVE ErrorFramesAreRaised'
  <2>1. sent' = Append(sent, f) /\ UNCHANGED <<read, pc, exception>>
    BY <1>5 DEF Send, clientVars
  <2>2. \A i \in 1 .. read : sent'[i] = sent[i]
    BY <1>1, <2>1
  <2>3. QED
    BY <2>1, <2>2 DEF IInv, ErrorFramesAreRaised
<1>6. CASE UNCHANGED <<sent, read, pc, exception>>
  BY <1>6 DEF IInv, ErrorFramesAreRaised
<1>7. QED
  BY <1>2, <1>3, <1>4, <1>5, <1>6
     DEF Next, Client, Server, Rest, Respond, Drop, vars, serverVars, clientVars

LEMMA Invariant == Spec => []IInv
<1>1. Init => IInv
  <2>1. SUFFICES ASSUME Init PROVE IInv
    OBVIOUS
  <2>2. Len(sent) = 0 /\ Len(yielded) = 0 /\ sent \in Seq(Frames) /\ yielded \in Seq(Events)
    BY <2>1 DEF Init
  <2>3. TypeOK
    <3>1. Len(sent) \in 0 .. MaxFrames /\ read \in 0 .. Len(sent)
      BY <2>1, <2>2, MaxFramesAssumption DEF Init
    <3>2. /\ answer = "pending" /\ link = "open" /\ pc = "idle"
          /\ terminal = FALSE /\ exception = "none"
      BY <2>1 DEF Init
    <3>3. QED
      BY <2>2, <3>1, <3>2 DEF TypeOK
  <2>4. OneOutcome /\ LastIsTerminal /\ ErrorFramesAreRaised
    BY <2>1, <2>2 DEF Init, OneOutcome, LastIsTerminal, ErrorFramesAreRaised
  <2>5. QED
    BY <2>3, <2>4 DEF IInv
<1>2. IInv /\ [Next]_vars => IInv'
  BY TypeInductive, OutcomeInductive, ErrorsInductive DEF IInv
<1>3. QED
  BY <1>1, <1>2, PTL DEF Spec

(* The types: only events are ever yielded, never an error frame.          *)
THEOREM TypeCorrect == Spec => []TypeOK
<1>1. IInv => TypeOK
  BY DEF IInv
<1>2. QED
  BY <1>1, Invariant, PTL

(* A terminal status is the last thing the consumer of a stream gets.      *)
THEOREM OneOutcomeOnly == Spec => []OneOutcome
<1>1. IInv => OneOutcome
  BY DEF IInv
<1>2. QED
  BY <1>1, Invariant, PTL

(* An error frame that has been read has been raised as the exception its  *)
(* code is mapped to.                                                      *)
THEOREM ErrorsAreRaised == Spec => []ErrorFramesAreRaised
<1>1. IInv => ErrorFramesAreRaised
  BY DEF IInv
<1>2. QED
  BY <1>1, Invariant, PTL
-----------------------------------------------------------------------------
(* The order of what is yielded.  Counting the events among the frames     *)
(* takes the place of filtering the sequence: a frame that is read adds    *)
(* one to the count if it is an event and nothing otherwise.               *)

(* The counts: of no frames, of one frame more, and of the frames up to an *)
(* event that has been read.                                               *)
LEMMA EventsCounted ==
  ASSUME NEW frames, NEW n \in Nat
  PROVE  /\ EventsUpTo(frames, n) \in Nat
         /\ EventsUpTo(frames, 0) = 0
         /\ EventsUpTo(frames, n + 1) =
              EventsUpTo(frames, n) + (IF frames[n + 1] \in Events THEN 1 ELSE 0)
<1> DEFINE Places(k) == {i \in 1 .. k : frames[i] \in Events}
<1>1. IsFiniteSet(Places(n)) /\ Cardinality(Places(n)) \in Nat
  <2>1. IsFiniteSet(1 .. n) /\ Places(n) \in SUBSET (1 .. n)
    BY FS_Interval
  <2>2. IsFiniteSet(Places(n))
    BY <2>1, FS_Subset
  <2>3. QED
    BY <2>2, FS_CardinalityType
<1>2. Places(0) = {}
  OBVIOUS
<1>3. n + 1 \notin Places(n)
  OBVIOUS
<1>4. Cardinality(Places(n) \cup {n + 1}) = Cardinality(Places(n)) + 1
  BY <1>1, <1>3, FS_AddElement
<1>5. Places(n + 1) = IF frames[n + 1] \in Events THEN Places(n) \cup {n + 1} ELSE Places(n)
  OBVIOUS
<1> HIDE DEF Places
<1>6. QED
  <2>1. \A k : EventsUpTo(frames, k) = Cardinality(Places(k))
    BY DEF EventsUpTo, Places
  <2>2. QED
    BY <1>1, <1>2, <1>4, <1>5, <2>1, FS_EmptySet

LEMMA EventPlace ==
  ASSUME NEW frames, NEW n \in Nat, NEW i \in 1 .. n, frames[i] \in Events
  PROVE  EventsUpTo(frames, i) \in 1 .. EventsUpTo(frames, n)
<1> DEFINE Places(k) == {j \in 1 .. k : frames[j] \in Events}
<1>1. Places(i) \in SUBSET Places(n) /\ i \in Places(i) /\ Places(n) \in SUBSET (1 .. n)
  OBVIOUS
<1> HIDE DEF Places
<1>2. IsFiniteSet(Places(n))
  <2>1. IsFiniteSet(1 .. n)
    BY FS_Interval
  <2>2. QED
    BY <1>1, <2>1, FS_Subset
<1>3. IsFiniteSet(Places(i)) /\ Cardinality(Places(i)) <= Cardinality(Places(n))
  BY <1>1, <1>2, FS_Subset
<1>4. Cardinality(Places(i)) # 0
  BY <1>1, <1>3, FS_EmptySet
<1>5. Cardinality(Places(i)) \in Nat /\ Cardinality(Places(n)) \in Nat
  BY <1>2, <1>3, FS_CardinalityType
<1>6. QED
  <2>1. \A k : EventsUpTo(frames, k) = Cardinality(Places(k))
    BY DEF EventsUpTo, Places
  <2>2. QED
    BY <1>3, <1>4, <1>5, <2>1

(* Frames appended later change no count of frames already there.          *)
LEMMA EventsUpToAppend ==
  ASSUME NEW s \in Seq(Frames), NEW f \in Frames, NEW n \in 0 .. Len(s)
  PROVE  EventsUpTo(Append(s, f), n) = EventsUpTo(s, n)
<1>1. \A i \in 1 .. n : Append(s, f)[i] = s[i]
  OBVIOUS
<1>2. {i \in 1 .. n : Append(s, f)[i] \in Events} = {i \in 1 .. n : s[i] \in Events}
  BY <1>1
<1>3. QED
  BY <1>2 DEF EventsUpTo

LEMMA OrderInductive ==
  ASSUME TypeOK, EventsInOrder, [Next]_vars
  PROVE  EventsInOrder'
<1>1. /\ sent \in Seq(Frames) /\ read \in 0 .. Len(sent) /\ read \in Nat
      /\ yielded \in Seq(Events) /\ Len(yielded) \in Nat
  BY DEF TypeOK
<1>2. CASE Yield
  <2>1. /\ sent' = sent /\ read' = read + 1 /\ sent[read + 1] \in Events
        /\ yielded' = Append(yielded, sent[read + 1])
    BY <1>2 DEF Yield, Frame, serverVars
  <2>2. EventsUpTo(sent, read + 1) = Len(yielded) + 1
    <3>1. EventsUpTo(sent, read + 1) =
            EventsUpTo(sent, read) + (IF sent[read + 1] \in Events THEN 1 ELSE 0)
      BY <1>1, EventsCounted
    <3>2. QED
      BY <2>1, <3>1 DEF EventsInOrder
  <2>3. /\ Len(yielded') = Len(yielded) + 1 /\ yielded'[Len(yielded) + 1] = sent[read + 1]
        /\ \A k \in 1 .. Len(yielded) : yielded'[k] = yielded[k]
    BY <1>1, <2>1
  <2>4. ASSUME NEW i \in 1 .. read, sent[i] \in Events
        PROVE  yielded'[EventsUpTo(sent, i)] = sent[i]
    <3>1. EventsUpTo(sent, i) \in 1 .. Len(yielded)
      BY <1>1, <2>4, EventPlace DEF EventsInOrder
    <3>2. QED
      BY <2>3, <2>4, <3>1 DEF EventsInOrder
  <2>5. \A i \in 1 .. read + 1 : sent[i] \in Events => yielded'[EventsUpTo(sent, i)] = sent[i]
    <3>1. \A i \in 1 .. read + 1 : i \in 1 .. read \/ i = read + 1
      BY <1>1
    <3>2. QED
      BY <2>2, <2>3, <2>4, <3>1
  <2>6. QED
    BY <2>1, <2>2, <2>3, <2>5 DEF EventsInOrder
<1>3. CASE Skip \/ RaiseIfStreamError
  <2>1. /\ sent' = sent /\ read' = read + 1 /\ yielded' = yielded
        /\ sent[read + 1] \notin Events
    BY <1>3 DEF Skip, RaiseIfStreamError, Finish, Frame, serverVars, Noise, Events,
                TerminalStates, LegacyStates, ErrorFrames
  <2>2. EventsUpTo(sent, read + 1) = EventsUpTo(sent, read)
    <3>1. /\ EventsUpTo(sent, read) \in Nat
          /\ EventsUpTo(sent, read + 1) =
               EventsUpTo(sent, read) + (IF sent[read + 1] \in Events THEN 1 ELSE 0)
      BY <1>1, EventsCounted
    <3>2. QED
      BY <2>1, <3>1
  <2>3. \A i \in 1 .. read + 1 : sent[i] \in Events => i \in 1 .. read
    BY <1>1, <2>1
  <2>4. QED
    BY <2>1, <2>2, <2>3 DEF EventsInOrder
<1>4. ASSUME NEW f \in Frames, Send(f) PROVE EventsInOrder'
  <2>1. sent' = Append(sent, f) /\ UNCHANGED <<read, yielded>>
    BY <1>4 DEF Send, clientVars
  <2>2. \A i \in 1 .. read : sent'[i] = sent[i]
    BY <1>1, <2>1
  <2>3. \A n \in 0 .. read : EventsUpTo(sent', n) = EventsUpTo(sent, n)
    BY <1>1, <2>1, EventsUpToAppend
  <2>4. QED
    BY <1>1, <2>1, <2>2, <2>3 DEF EventsInOrder
<1>5. CASE UNCHANGED <<sent, read, yielded>>
  BY <1>5 DEF EventsInOrder
<1>6. QED
  BY <1>2, <1>3, <1>4, <1>5
     DEF Next, Client, Server, Rest, Respond, Drop, Start, Resume, StreamClosed,
         RequestError, Finish, vars, serverVars, clientVars

(* The consumer of a stream gets the events that were sent, each once and  *)
(* in their order, and nothing else, for streams of any length.            *)
THEOREM EventsArriveInOrder == Spec => []EventsInOrder
<1>1. Init => EventsInOrder
  BY EventsCounted DEF Init, EventsInOrder
<1>2. TypeOK /\ EventsInOrder /\ [Next]_vars => EventsInOrder'
  BY OrderInductive
<1>3. QED
  BY <1>1, <1>2, TypeCorrect, PTL DEF Spec

-----------------------------------------------------------------------------
(* How a stream ends.  TerminalEndsTheStream needs fairness and an         *)
(* induction over the frames, which is out of reach here; what it rests on *)
(* is not.  While a terminal frame lies ahead the generator has a move of  *)
(* its own, however long the connection stays silent, and the distance to  *)
(* that frame shrinks with each of them and never grows.                   *)

Pace == CASE pc \in {"idle", "yielding"} -> 2
          [] pc = "reading"              -> 1
          [] OTHER                       -> 0

StepsTo(n) == 2 * (n - read) + Pace

Outcome(n) == n \in 1 .. Len(sent) /\ sent[n] \in TerminalStates

(* A terminal frame is never read past; until the generator is over it is  *)
(* suspended at a point it leaves by itself.                               *)
OutcomeAhead ==
  \A n \in 1 .. MaxFrames : Outcome(n) =>
    /\ read <= n
    /\ Over \/ pc \in {"idle", "yielding"} \/ (pc = "reading" /\ read < n)

(* What the generator has read is behind it: of a terminal frame only the  *)
(* last one, and then it is suspended in its yield, or over.               *)
PassedNoOutcome ==
  \A i \in 1 .. read : sent[i] \in TerminalStates =>
    /\ i = read
    /\ pc = "returned" \/ (pc = "yielding" /\ terminal)

LEMMA PassedInductive ==
  ASSUME TypeOK, PassedNoOutcome, [Next]_vars
  PROVE  PassedNoOutcome'
<1>1. sent \in Seq(Frames) /\ read \in 0 .. Len(sent) /\ Len(sent) \in Nat
  BY DEF TypeOK
<1>2. CASE Yield
  <2>1. /\ sent' = sent /\ read' = read + 1 /\ pc = "reading" /\ pc' = "yielding"
        /\ terminal' = (sent[read + 1] \in TerminalStates)
    BY <1>2 DEF Yield, Frame, IsTerminalEvent, serverVars
  <2>2. \A i \in 1 .. read : sent[i] \notin TerminalStates
    BY <2>1 DEF PassedNoOutcome
  <2>3. \A i \in 1 .. read' : sent'[i] \in TerminalStates => i = read + 1
    BY <1>1, <2>1, <2>2
  <2>4. QED
    BY <2>1, <2>3, Zenon DEF PassedNoOutcome
<1>3. CASE Skip \/ RaiseIfStreamError
  <2>1. /\ sent' = sent /\ read' = read + 1 /\ pc = "reading"
        /\ sent[read + 1] \notin TerminalStates
    BY <1>3 DEF Skip, RaiseIfStreamError, Finish, Frame, serverVars, Noise, ErrorFrames,
                TerminalStates
  <2>2. \A i \in 1 .. read : sent[i] \notin TerminalStates
    BY <2>1 DEF PassedNoOutcome
  <2>3. \A i \in 1 .. read' : sent'[i] \notin TerminalStates
    BY <1>1, <2>1, <2>2
  <2>4. QED
    BY <2>3 DEF PassedNoOutcome
<1>4. CASE Start \/ Resume \/ StreamClosed \/ RequestError
  <2>1. UNCHANGED <<sent, read>> /\ pc # "returned"
        /\ (pc = "yielding" /\ terminal => pc' = "returned")
    BY <1>4 DEF Start, Resume, StreamClosed, RequestError, Finish, serverVars
  <2>2. QED
    BY <2>1 DEF PassedNoOutcome
<1>5. ASSUME NEW f \in Frames, Send(f) PROVE PassedNoOutcome'
  <2>1. sent' = Append(sent, f) /\ UNCHANGED <<read, pc, terminal>>
    BY <1>5 DEF Send, clientVars
  <2>2. \A i \in 1 .. read : sent'[i] = sent[i]
    BY <1>1, <2>1
  <2>3. QED
    BY <2>1, <2>2 DEF PassedNoOutcome
<1>6. CASE UNCHANGED <<sent, read, pc, terminal>>
  BY <1>6 DEF PassedNoOutcome
<1>7. QED
  BY <1>2, <1>3, <1>4, <1>5, <1>6
     DEF Next, Client, Server, Rest, Respond, Drop, vars, serverVars, clientVars

LEMMA PassedInvariant == Spec => []PassedNoOutcome
<1>1. Init => PassedNoOutcome
  BY DEF Init, PassedNoOutcome
<1>2. TypeOK /\ PassedNoOutcome /\ [Next]_vars => PassedNoOutcome'
  BY PassedInductive
<1>3. QED
  BY <1>1, <1>2, TypeCorrect, PTL DEF Spec

(* A terminal frame, once sent, is never read past, and until the stream   *)
(* is over the generator waits neither for the server nor for the network. *)
THEOREM OutcomeIsReached == Spec => []OutcomeAhead
<1>1. TypeOK /\ PassedNoOutcome => OutcomeAhead
  <2>1. SUFFICES ASSUME TypeOK, PassedNoOutcome, NEW n \in 1 .. MaxFrames, Outcome(n)
                 PROVE  /\ read <= n
                        /\ Over \/ pc \in {"idle", "yielding"}
                                \/ (pc = "reading" /\ read < n)
    BY DEF OutcomeAhead
  <2>2. n \in Nat /\ read \in Nat /\ n \in 1 .. Len(sent) /\ sent[n] \in TerminalStates
    BY <2>1, MaxFramesAssumption DEF TypeOK, Outcome
  <2>3. n \in 1 .. read => n = read /\ pc # "reading"
    BY <2>1, <2>2 DEF PassedNoOutcome
  <2>4. pc \in {"idle", "reading", "yielding", "returned", "raised"}
    BY <2>1 DEF TypeOK
  <2>5. QED
    BY <2>2, <2>3, <2>4 DEF Over
<1>2. QED
  BY <1>1, TypeCorrect, PassedInvariant, PTL

(* The distance to a terminal frame that has been sent is a natural number *)
(* which each step of the generator lowers and no step raises: at most two *)
(* steps a frame, so it is over within 2 * n + 2 steps of its own.         *)
ClientAdvances ==
  \A n \in 1 .. MaxFrames : Outcome(n) =>
    /\ StepsTo(n) \in 0 .. 2 * n + 2
    /\ StepsTo(n)' <= StepsTo(n)
    /\ Client => StepsTo(n)' < StepsTo(n)

(* No step of anybody takes the generator away from a terminal frame that  *)
(* has been sent, and each step of its own brings it nearer, whatever else *)
(* the server sends behind it.                                             *)
THEOREM OutcomeDrawsNear == Spec => [][ClientAdvances]_vars
<1>1. ASSUME TypeOK, OutcomeAhead, [Next]_vars PROVE ClientAdvances \/ UNCHANGED vars
  <2>1. SUFFICES ASSUME Next, NEW n \in 1 .. MaxFrames, Outcome(n)
                 PROVE  /\ StepsTo(n) \in 0 .. 2 * n + 2
                        /\ StepsTo(n)' <= StepsTo(n)
                        /\ Client => StepsTo(n)' < StepsTo(n)
    BY <1>1 DEF ClientAdvances
  <2>2. /\ n \in Nat /\ read \in Nat /\ read <= n
        /\ pc \in {"idle", "reading", "yielding", "returned", "raised"}
    BY <1>1, <2>1, MaxFramesAssumption DEF TypeOK, OutcomeAhead
  <2>3. StepsTo(n) \in 0 .. 2 * n + 2
    BY <2>2 DEF StepsTo, Pace
  <2>4. StepsTo(n) = 2 * (n - read) + Pace /\ StepsTo(n)' = 2 * (n - read') + Pace'
    BY DEF StepsTo
  <2>5. CASE Start \/ Resume \/ StreamClosed \/ RequestError
    <3>1. /\ read' = read
          /\ \/ Pace = 2 /\ (Pace' = 1 \/ Pace' = 0)
             \/ Pace = 1 /\ Pace' = 0
      BY <2>5 DEF Start, Resume, StreamClosed, RequestError, Finish, Pace
    <3>2. StepsTo(n)' < StepsTo(n)
      BY <2>2, <2>4, <3>1
    <3>3. QED
      BY <2>2, <2>3, <2>4, <3>1, <3>2
  <2>6. CASE Skip \/ RaiseIfStreamError \/ Yield
    <3>1. read' = read + 1 /\ Pace = 1 /\ (Pace' = 0 \/ Pace' = 1 \/ Pace' = 2)
      BY <2>6 DEF Skip, RaiseIfStreamError, Yield, Finish, Pace
    <3>2. StepsTo(n)' < StepsTo(n)
      BY <2>2, <2>4, <3>1
    <3>3. QED
      BY <2>2, <2>3, <2>4, <3>1, <3>2
  <2>7. CASE Server \/ Rest
    <3>1. UNCHANGED clientVars
      BY <2>7 DEF Server, Rest, Respond, Send, Drop, vars
    <3>2. Client => read' = read + 1 \/ pc' # pc
      BY DEF Client, Start, Skip, RaiseIfStreamError, Yield, Resume, StreamClosed,
             RequestError, Finish
    <3>3. read' = read /\ Pace' = Pace /\ ~Client
      BY <2>2, <3>1, <3>2 DEF clientVars, Pace
    <3>4. StepsTo(n)' = StepsTo(n)
      BY <2>4, <3>3
    <3>5. QED
      BY <2>3, <3>3, <3>4
  <2>8. QED
    BY <2>1, <2>5, <2>6, <2>7 DEF Next, Client
<1>2. QED
  BY <1>1, TypeCorrect, OutcomeIsReached, PTL DEF Spec

(* A generator that returns without an exception has been given a terminal *)
(* status, or everything on a connection that was closed properly: a cut   *)
(* connection never looks like the end of the stream.                      *)
ReturnIsClean ==
  pc = "returned" =>
    \/ Len(yielded) > 0 /\ yielded[Len(yielded)] \in TerminalStates
    \/ link = "closed" /\ read = Len(sent)

(* stream_message() returns only behind a terminal status or behind the    *)
(* last frame of a response that was closed, never on a cut connection.    *)
THEOREM ReturnsClean == Spec => []ReturnIsClean
<1>1. Init => ReturnIsClean
  BY DEF Init, ReturnIsClean
<1>2. ASSUME IInv, ReturnIsClean, [Next]_vars PROVE ReturnIsClean'
  <2>1. read \in 0 .. Len(sent) /\ Len(sent) \in Nat
    BY <1>2 DEF IInv, TypeOK
  <2>2. CASE Resume
    <3>1. CASE terminal
      <4>1. Len(yielded) > 0 /\ yielded[Len(yielded)] \in TerminalStates /\ yielded' = yielded
        BY <1>2, <2>2, <3>1 DEF IInv, LastIsTerminal, Resume
      <4>2. QED
        BY <4>1 DEF ReturnIsClean
    <3>2. CASE ~terminal
      BY <2>2, <3>2 DEF Resume, ReturnIsClean
    <3>3. QED
      BY <3>1, <3>2
  <2>3. CASE StreamClosed
    BY <2>1, <2>3 DEF StreamClosed, Finish, Unread, serverVars, ReturnIsClean
  <2>4. CASE Start \/ Skip \/ RaiseIfStreamError \/ Yield \/ RequestError
    BY <2>4 DEF Start, Skip, RaiseIfStreamError, Yield, RequestError, Finish, ReturnIsClean
  <2>5. CASE Server
    <3>1. UNCHANGED clientVars /\ (link = "closed" => UNCHANGED <<sent, link>>)
      BY <2>5 DEF Server, Respond, Send, Drop
    <3>2. QED
      BY <1>2, <3>1 DEF ReturnIsClean, clientVars
  <2>6. CASE UNCHANGED vars
    BY <1>2, <2>6 DEF ReturnIsClean, vars, serverVars, clientVars
  <2>7. QED
    BY <1>2, <2>2, <2>3, <2>4, <2>5, <2>6 DEF Next, Client, Rest
<1>3. QED
  BY <1>1, <1>2, Invariant, PTL DEF Spec
=============================================================================
