------------------------------- MODULE StopAndGo -----------------------------
(***************************************************************************)
(* What debugging one engine promises its user, with no threads, sockets   *)
(* or messages: the program stops at a place, the user is shown that       *)
(* place and gives one command, and the program goes on with that command. *)
(***************************************************************************)
CONSTANTS
  Places,    \* where the program can stop
  Commands,  \* what the user can answer
  None       \* no place and no command; in neither set

VARIABLES
  mode,    \* "running", "stopping", "stopped" or "resuming"
  place,   \* where the program stands
  shown,   \* what the user sees
  order,   \* the command the user has given at this stop
  obeyed   \* the command the program went on with last

vars == <<mode, place, shown, order, obeyed>>

Init ==
  /\ mode = "running"
  /\ place = None
  /\ shown = None
  /\ order = None
  /\ obeyed = None

Stop ==
  /\ mode = "running"
  /\ mode' = "stopping"
  /\ place' \in Places
  /\ UNCHANGED <<shown, order, obeyed>>

Show ==
  /\ mode = "stopping"
  /\ mode' = "stopped"
  /\ shown' = place
  /\ UNCHANGED <<place, order, obeyed>>

Command ==
  /\ mode = "stopped"
  /\ mode' = "resuming"
  /\ order' \in Commands
  /\ UNCHANGED <<place, shown, obeyed>>

Resume ==
  /\ mode = "resuming"
  /\ mode' = "running"
  /\ obeyed' = order
  /\ place' = None
  /\ shown' = None
  /\ order' = None

Next ==
  \/ Stop
  \/ Show
  \/ Command
  \/ Resume

Spec == Init /\ [][Next]_vars /\ WF_vars(Show) /\ WF_vars(Resume)
=============================================================================
