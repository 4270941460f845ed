----------------------------- MODULE DebugSystem -----------------------------
(***************************************************************************)
(* The whole system: engine processes, the debug adapter, the connections  *)
(* between them, and VS Code with its user, who are the environment.       *)
(***************************************************************************)
EXTENDS MockEngine, AsdbgSession

CONSTANTS
  MaxEdits,    \* bound: how often the user changes the breakpoints of a file
  MaxPending,  \* how many control requests VS Code has unanswered at once
  MaxQueue,    \* bound: the backlog of an engine at which the user pauses
  MayExit      \* may the extension host go away and come back

ASSUME UiAssumption ==
  /\ MaxEdits \in Nat
  /\ MaxPending \in Nat
  /\ MaxQueue \in Nat
  /\ MayExit \in BOOLEAN

VARIABLES
  uiStopped,  \* VS Code shows the session as stopped
  awaiting,   \* control requests VS Code awaits the response of
  edits       \* breakpoint changes so far

uiVars == <<uiStopped, awaiting, edits>>
vars == <<wireVars, engineVars, sessionVars, uiVars>>

UiTypeOK ==
  /\ uiStopped \in BOOLEAN
  /\ awaiting \in Int
  /\ edits \in 0..MaxEdits

UiInit ==
  /\ uiStopped = FALSE
  /\ awaiting = 0
  /\ edits = 0

Init ==
  /\ WireInit
  /\ BackendInit
  /\ ThreadInit
  /\ SessionInit
  /\ UiInit

-----------------------------------------------------------------------------
\* VS Code and its user

SetBreakpoints ==
  /\ serving
  /\ edits < MaxEdits
  /\ edits' = edits + 1
  /\ \E path \in Paths, lines \in SUBSET Lines :
       requests' = Append(requests, [type |-> "setBreakpoints", path |-> path,
                                     lines |-> lines])
  /\ UNCHANGED <<wireVars, engineVars, serving, breakpoints, clients,
                 currentBreakpoint, scriptVariables, events, uiStopped,
                 awaiting>>

\* The step and continue buttons are live while VS Code shows a stop; it shows
\* the session as running once the response has come.
Press ==
  /\ serving
  /\ uiStopped
  /\ awaiting < MaxPending
  /\ \A e \in Engines : Len(toEngine[e]) < MaxQueue
  /\ awaiting' = awaiting + 1
  /\ \E c \in DebugCommands :
       requests' = Append(requests, [type |-> "control", command |-> c])
  /\ UNCHANGED <<wireVars, engineVars, serving, breakpoints, clients,
                 currentBreakpoint, scriptVariables, events, uiStopped, edits>>

ReadEvent ==
  /\ serving
  /\ events # <<>>
  /\ events' = Tail(events)
  /\ CASE Head(events) = "stopped" -> /\ uiStopped' = TRUE
                                      /\ UNCHANGED awaiting
       [] Head(events) = "resumed" -> /\ uiStopped' = FALSE
                                      /\ awaiting' = awaiting - 1
       [] OTHER -> UNCHANGED <<uiStopped, awaiting>>
  /\ UNCHANGED <<wireVars, engineVars, serving, breakpoints, clients,
                 currentBreakpoint, scriptVariables, requests, edits>>

\* The extension host goes away with the adapter in it and all its sockets.
HostExit ==
  /\ MayExit
  /\ serving
  /\ link' = [e \in Engines |-> IF link[e] = "none" THEN "none" ELSE "down"]
  /\ WriteToEngines(Engines, EndOfStream)
  /\ serving' = FALSE
  /\ breakpoints' = [p \in Paths |-> {}]
  /\ clients' = {}
  /\ currentBreakpoint' = Unknown
  /\ scriptVariables' = FALSE
  /\ requests' = <<>>
  /\ events' = <<>>
  /\ uiStopped' = FALSE
  /\ awaiting' = 0
  /\ UNCHANGED <<toSession, engineVars, edits>>

-----------------------------------------------------------------------------
Start(e) ==
  \/ serving /\ Connect(e)
  \/ ~serving /\ ConnectFail(e)

Engine(e) == (Start(e) \/ ScriptThread(e)) /\ UNCHANGED <<sessionVars, uiVars>>
ReceiverThread(e) == Receiver(e) /\ UNCHANGED <<threadVars, sessionVars, uiVars>>
Adapter(e) == Socket(e) /\ UNCHANGED <<engineVars, uiVars>>
AdapterRequest == (Initialize \/ Dap) /\ UNCHANGED <<engineVars, uiVars>>
User == SetBreakpoints \/ Press
VSCode == ReadEvent

Next ==
  \/ \E e \in Engines : Engine(e) \/ ReceiverThread(e) \/ Adapter(e)
  \/ AdapterRequest
  \/ User
  \/ VSCode
  \/ HostExit

Spec == Init /\ [][Next]_vars

\* The threads run, the event loop runs its callbacks and VS Code reads what
\* the adapter sends.  Nothing makes a user act, an engine start or a host exit.
Fairness ==
  /\ \A e \in Engines :
       /\ WF_vars(ScriptThread(e) /\ UNCHANGED <<sessionVars, uiVars>>)
       /\ WF_vars(ReceiverThread(e))
       /\ WF_vars(Adapter(e))
  /\ WF_vars(Dap /\ UNCHANGED <<engineVars, uiVars>>)
  /\ WF_vars(VSCode)

FairSpec == Spec /\ Fairness

-----------------------------------------------------------------------------
\* The types of all variables.
TypeOK ==
  /\ WireTypeOK
  /\ BackendTypeOK
  /\ ThreadTypeOK
  /\ SessionTypeOK
  /\ UiTypeOK

InFlight(e) == rxQueue[e] \o toEngine[e]

\* The engine's request for breakpoints is not answered yet.
AwaitsBreakpoints(e) ==
  \/ pc[e] \in {"spawn", "request"}
  \/ \E i \in DOMAIN toSession[e] : toSession[e][i] = GetBreakpointsMsg

\* Nothing is under way between the adapter and engine e.
Quiet(e) ==
  /\ link[e] = "up"
  /\ rx[e] \in {"loop", "recv"}
  /\ toEngine[e] = <<>>
  /\ ~AwaitsBreakpoints(e)

\* Whatever edits, connections and answers to GET_BREAKPOINTS raced, once
\* nothing is under way a connected engine has exactly the breakpoints the
\* adapter holds, unless the last breakpoint message it has read did not fit its
\* recv, or came behind the stray header that such a one had left.
Converged ==
  \A e \in Engines :
    Quiet(e) /\ ~misread[e] => breakpointList[e] = Entries(breakpoints)

-----------------------------------------------------------------------------
\* Why Converged holds: an invariant of single steps.

\* The last breakpoint list in queue q is S.
LastListIs(q, S) ==
  \E i \in 1..Len(q) :
    /\ IsBreakpoints(q[i])
    /\ q[i].list = S
    /\ \A j \in 1..Len(q) : j > i => ~IsBreakpoints(q[j])

\* The adapter broadcasts to clients only: an engine it has not accepted yet
\* must still have its request ahead, and one it has accepted is a client.
Reachable(e) ==
  /\ link[e] = "pending" => AwaitsBreakpoints(e)
  /\ link[e] = "up" => e \in clients

\* The receiver has no chunk and no list in hand when it is not parsing, and
\* is not there before it is started.
HandsEmpty(e) ==
  /\ pc[e] \in {"start", "spawn"} => rx[e] = "off"
  /\ rx[e] \in {"off", "loop", "recv"} => rxQueue[e] = <<>>
  /\ rx[e] \in {"off", "loop", "recv", "parse"} => rxFill[e] = {}

\* What the adapter holds is still to be requested, or is the last list on the
\* way, or the last list of the chunk, or what the list will be once filled.
UpdateUnderWay(e) ==
  LET current == Entries(breakpoints)
  IN  \/ AwaitsBreakpoints(e)
      \/ LastListIs(toEngine[e], current)
      \/ /\ NoBreakpoints(toEngine[e], Len(toEngine[e]))
         /\ \/ misread[e]
            \/ LastListIs(rxQueue[e], current)
            \/ /\ NoBreakpoints(rxQueue[e], Len(rxQueue[e]))
               /\ breakpointList[e] \cup rxFill[e] = current

\* The inductive invariant behind Converged: as long as the adapter can write to
\* an engine that receives, no change of the breakpoints is lost on the way.
NoUpdateLost ==
  \A e \in Engines :
    /\ Reachable(e)
    /\ HandsEmpty(e)
    /\ link[e] \in {"pending", "up"} /\ rx[e] # "done" => UpdateUnderWay(e)

-----------------------------------------------------------------------------
\* The queues of engine e, and the command it has stored, hold no command.
NoCommandUnderWay(e) ==
  /\ debugCommand[e] = "Nothing"
  /\ \A i \in DOMAIN InFlight(e) : InFlight(e)[i].type # "COMMAND"

\* With one engine and one request at a time, a command is under way only while
\* the engine stands at a stop and it is the command the engine takes: none is
\* left over for a later stop, and the store of Nothing erases no newer one.
CommandOnlyAtStop ==
  \A e \in Engines :
    \/ NoCommandUnderWay(e)
    \/ pc[e] \in {"vars", "wait"}
    \/ pc[e] = "take" /\ debugCommand[e] = cmd[e]

\* With one engine, when VS Code shows a stop that no request is to end, the
\* engine stands at that stop, and it is the location the adapter reports.
ShowsTheStop ==
  \A e \in Engines :
    uiStopped /\ awaiting = 0 =>
      pc[e] \in {"vars", "wait"} /\ currentBreakpoint = target[e]

\* With one engine, the engine and VS Code never both wait for the other: when
\* an engine with a connection polls for a command, a command is under way, or
\* VS Code has been told of the stop and is not taken back to running.
NeverBothWaiting ==
  \A e \in Engines :
    pc[e] = "wait" /\ link[e] = "up" =>
      \/ ~NoCommandUnderWay(e)
      \/ uiStopped
      \/ requests # <<>> \/ events # <<>>
      \/ \E i \in DOMAIN toSession[e] : toSession[e][i].type = "STOP"

\* However the user answers the stops of one line, the tests of LineCallback make at
\* most two stops for step commands there, and the second answers a step in.
StepStopsEnd ==
  \A e \in Engines :
    /\ stepStops[e] <= 2
    /\ stepStops[e] = 2 /\ site[e] # "hit" => site[e] = "in" /\ previousCommand[e] = "StepIn"

\* When the user stops editing, every engine that stays connected gets the
\* breakpoints of the adapter and keeps them.
EventuallyConverged ==
  \A e \in Engines :
    <>[](link[e] = "up" /\ rx[e] \notin {"off", "done"} =>
           breakpointList[e] = Entries(breakpoints))

-----------------------------------------------------------------------------
\* What its documents say, and the code does not do.

\* readme.md: "hit breakpoints set in script files".  A line is looked up while
\* its breakpoint is in the list being replaced and in the list replacing it.
HitsKeptBreakpoints ==
  \A e \in Engines :
    pc[e] = "lookup" /\ site[e] = "hit" =>
      \A b \in before[e] \cap (breakpointList[e] \cup rxFill[e]) :
        Matches(b, at[e].path, at[e].line) => b \in breakpointList[e]
=============================================================================
