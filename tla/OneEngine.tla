------------------------------- MODULE OneEngine -----------------------------
(***************************************************************************)
(* One engine E, one control request at a time and a host that stays: the  *)
(* system implements StopAndGo.                                            *)
(***************************************************************************)
EXTENDS DebugSystem

CONSTANT E  \* the engine

\* What the system means by None: no stop location, and no command.
Nowhere == "Nothing"

Standing == pc[E] \in {"vars", "wait", "take"}

ControlRequests == {i \in DOMAIN requests : requests[i].type = "control"}
CommandsTo == {i \in DOMAIN InFlight(E) : InFlight(E)[i].type = "COMMAND"}

\* The command VS Code has requested and the engine has not gone on with, on
\* its way through request, socket, receiver and polling loop.
OrderUnderWay ==
  IF pc[E] = "take" THEN cmd[E]
  ELSE IF debugCommand[E] # "Nothing" THEN debugCommand[E]
  ELSE IF CommandsTo # {}
    THEN InFlight(E)[CHOOSE i \in CommandsTo : TRUE].command
  ELSE IF ControlRequests # {}
    THEN requests[CHOOSE i \in ControlRequests : TRUE].command
  ELSE Nowhere

ModeSeen ==
  IF ~Standing THEN "running"
  ELSE IF OrderUnderWay # Nowhere THEN "resuming"
  ELSE IF uiStopped /\ awaiting = 0 THEN "stopped"
  ELSE "stopping"

PlaceSeen == IF Standing THEN target[E] ELSE Nowhere
OrderSeen == IF Standing THEN OrderUnderWay ELSE Nowhere
ShownSeen ==
  IF ModeSeen \in {"stopped", "resuming"} THEN currentBreakpoint ELSE Nowhere

UserView ==
  INSTANCE StopAndGo
    WITH Places <- Location,
         Commands <- DebugCommands,
         None <- Nowhere,
         mode <- ModeSeen,
         place <- PlaceSeen,
         shown <- ShownSeen,
         order <- OrderSeen,
         obeyed <- previousCommand[E]

\* Every stop is shown where it is, gets exactly one command, and is left with
\* that command; no stop stays unseen and no command unheard.
UserViewImplemented == UserView!Spec
=============================================================================
