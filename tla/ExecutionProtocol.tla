------------------------- MODULE ExecutionProtocol -------------------------
(***************************************************************************)
(* What a subscriber of a task is promised about the events of ONE         *)
(* execution of it, however that execution is carried out.                 *)
(*                                                                         *)
(* A message opens a turn.  The turn first announces the task, then may    *)
(* stream partial output, may seal the output, and closes: completed only  *)
(* once the output is sealed, stopped (failed, canceled, rejected or       *)
(* waiting for input) only while it is not.  After that the turn is        *)
(* silent.  A turn may also be cut short at any point, in which case the   *)
(* next event, if there is one, belongs to the next turn.                  *)
(***************************************************************************)
CONSTANT Tasks

VARIABLE phase              \* phase[t]: how far the current turn of t has got

Phases == {"silent", "open", "streaming", "sealed", "completed", "stopped"}

Init == phase = [t \in Tasks |-> "silent"]

Move(t, from, to) ==
  /\ phase[t] \in from
  /\ phase' = [phase EXCEPT ![t] = to]

Begin(t)    == Move(t, Phases, "silent")
Announce(t) == Move(t, {"silent"}, "open")
Stream(t)   == Move(t, {"open"}, "streaming")
Seal(t)     == Move(t, {"open", "streaming"}, "sealed")
Complete(t) == Move(t, {"sealed"}, "completed")
Stop(t)     == Move(t, {"open", "streaming"}, "stopped")

Next == \E t \in Tasks : \/ Begin(t) \/ Announce(t) \/ Stream(t)
                         \/ Seal(t) \/ Complete(t) \/ Stop(t)

Spec == Init /\ [][Next]_phase
=============================================================================
