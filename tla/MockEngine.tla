------------------------------ MODULE MockEngine -----------------------------
(***************************************************************************)
(* An engine process (mock_engine.cpp): main() starts the backend, builds  *)
(* and executes the script, whose every line calls LineCallback on the     *)
(* same thread, and shuts the backend down.  The actions are the steps of  *)
(* this thread; AsdbgBackend has those of the receiver thread.             *)
(***************************************************************************)
EXTENDS AsdbgBackend

VARIABLES
  pc,               \* where the script thread is
  previousCommand,  \* g_previousCommand
  at,               \* the section and line LineCallback was called for
  site,             \* which of LineCallback's three tests is being made
  target,           \* the location that test looked up, then the one it sent
  cmd,              \* the local cmd of TriggerBreakpoint
  stepStops         \* history: stops made for step commands at this line

threadVars == <<pc, previousCommand, at, site, target, cmd, stepStops>>
engineVars == <<backendVars, threadVars>>

\* In the order the thread goes through them; "lookup" to "take" are inside
\* LineCallback, and "aborted" is the end by an exception Start throws.
ThreadStates == {"start", "spawn", "request", "build", "script", "lookup",
                 "send", "vars", "wait", "take", "finished", "exit", "ended",
                 "aborted"}
Stopping == {"send", "vars", "wait", "take"}
Sites == {"over", "in", "hit"}

ThreadTypeOK ==
  /\ pc \in [Engines -> ThreadStates]
  /\ previousCommand \in [Engines -> {"Nothing"} \cup DebugCommands]
  /\ at \in [Engines -> Location]
  /\ site \in [Engines -> Sites]
  /\ target \in [Engines -> Location]
  /\ cmd \in [Engines -> {"Nothing"} \cup DebugCommands]
  /\ stepStops \in [Engines -> Nat]

NoLocation == [path |-> Garbage, line |-> 0]

ThreadInit ==
  /\ pc = [e \in Engines |-> "start"]
  /\ previousCommand = [e \in Engines |-> "Nothing"]
  /\ at = [e \in Engines |-> NoLocation]
  /\ site = [e \in Engines |-> "hit"]
  /\ target = [e \in Engines |-> NoLocation]
  /\ cmd = [e \in Engines |-> "Nothing"]
  /\ stepStops = [e \in Engines |-> 0]

Goto(e, from, to) ==
  /\ pc[e] = from
  /\ pc' = [pc EXCEPT ![e] = to]

-----------------------------------------------------------------------------
\* AsdbgBackend::Start

\* connect() succeeds; the adapter has yet to run its connection callback.
Connect(e) ==
  /\ Goto(e, "start", "spawn")
  /\ sock' = [sock EXCEPT ![e] = "open"]
  /\ link' = [link EXCEPT ![e] = "pending"]
  /\ UNCHANGED <<toSession, toEngine, running, breakpointList, debugCommand,
                 rx, rxQueue, rxFill, loan, before, misread, previousCommand,
                 at, site, target, cmd, stepStops>>

\* "Failed to connect to debugger.": nobody catches it.
ConnectFail(e) ==
  /\ Goto(e, "start", "aborted")
  /\ UNCHANGED <<wireVars, backendVars, previousCommand, at, site, target, cmd,
                 stepStops>>

StartReceiverThread(e) ==
  /\ Goto(e, "spawn", "request")
  /\ rx' = [rx EXCEPT ![e] = "loop"]
  /\ UNCHANGED <<wireVars, sock, running, breakpointList, debugCommand,
                 rxQueue, rxFill, loan, before, misread, previousCommand, at,
                 site, target, cmd, stepStops>>

SendBreakpointsRequest(e) ==
  /\ Goto(e, "request", "build")
  /\ SendToSession(e, GetBreakpointsMsg)
  /\ UNCHANGED <<link, toEngine, backendVars, previousCommand, at, site, target,
                 cmd, stepStops>>

-----------------------------------------------------------------------------
\* main

\* The script is built and starts at once: nothing waits for breakpoints.
BuildScript(e) ==
  /\ Goto(e, "build", "script")
  /\ UNCHANGED <<wireVars, backendVars, previousCommand, at, site, target, cmd,
                 stepStops>>

\* "Failed to build the script module!": main returns.
BuildFail(e) ==
  /\ Goto(e, "build", "exit")
  /\ UNCHANGED <<wireVars, backendVars, previousCommand, at, site, target, cmd,
                 stepStops>>

\* running = false
ScriptEnds(e) ==
  /\ Goto(e, "script", "finished")
  /\ running' = [running EXCEPT ![e] = FALSE]
  /\ UNCHANGED <<wireVars, sock, breakpointList, debugCommand, rx, rxQueue,
                 rxFill, loan, before, misread, previousCommand, at, site,
                 target, cmd, stepStops>>

Shutdown(e) ==
  /\ Goto(e, "finished", "exit")
  /\ sock' = [sock EXCEPT ![e] = "closed"]
  /\ CloseStream(e)
  /\ UNCHANGED <<toEngine, running, breakpointList, debugCommand, rx, rxQueue,
                 rxFill, loan, before, misread, previousCommand, at, site,
                 target, cmd, stepStops>>

\* main has returned: the process takes its threads and its socket with it.
ProcessExit(e) ==
  /\ Goto(e, "exit", "ended")
  /\ rx' = [rx EXCEPT ![e] = "done"]
  /\ sock' = [sock EXCEPT ![e] = "closed"]
  /\ IF sock[e] = "open" THEN CloseStream(e) ELSE UNCHANGED <<link, toSession>>
  /\ UNCHANGED <<toEngine, running, breakpointList, debugCommand, rxQueue,
                 rxFill, loan, before, misread, previousCommand, at, site,
                 target, cmd, stepStops>>

-----------------------------------------------------------------------------
\* LineCallback, and the TriggerBreakpoint it calls at each of three sites

\* The test that the last command makes LineCallback start with.
FirstSite(c) ==
  CASE c = "StepOver" -> "over"
    [] c = "StepIn" -> "in"
    [] OTHER -> "hit"

\* The script thread reaches some line.
ExecuteLine(e) ==
  /\ Goto(e, "script", "lookup")
  /\ \E section \in Sections, line \in Lines :
       at' = [at EXCEPT ![e] = [path |-> section, line |-> line]]
  /\ site' = [site EXCEPT ![e] = FirstSite(previousCommand[e])]
  /\ UNCHANGED <<wireVars, backendVars, previousCommand, target, cmd, stepStops>>

\* LineCallback returns, and what it kept of this line is gone.
Return(e) ==
  /\ at' = [at EXCEPT ![e] = NoLocation]
  /\ target' = [target EXCEPT ![e] = NoLocation]
  /\ stepStops' = [stepStops EXCEPT ![e] = 0]

\* GetAbsolutePath iterates over the list without the mutex.
GetAbsolutePath(e) ==
  /\ Goto(e, "lookup", "send")
  /\ site[e] \in {"over", "in"}
  /\ \E path \in AbsolutePaths(e, at[e].path) :
       target' = [target EXCEPT ![e] = [path |-> path, line |-> at[e].line]]
  /\ loan' = [loan EXCEPT ![e] = "held"]
  /\ UNCHANGED <<wireVars, sock, running, breakpointList, debugCommand, rx,
                 rxQueue, rxFill, before, misread, previousCommand, at, site,
                 cmd, stepStops>>

\* FindBreakpoint returns a pointer into the list and releases the mutex.
FindBreakpoint(e) ==
  /\ Goto(e, "lookup", "send")
  /\ site[e] = "hit"
  /\ \E b \in Found(e, at[e].path, at[e].line) :
       target' = [target EXCEPT ![e] = b]
  /\ loan' = [loan EXCEPT ![e] = "held"]
  /\ UNCHANGED <<wireVars, sock, running, breakpointList, debugCommand, rx,
                 rxQueue, rxFill, before, misread, previousCommand, at, site,
                 cmd, stepStops>>

FindNothing(e) ==
  /\ Goto(e, "lookup", "script")
  /\ site[e] = "hit"
  /\ Found(e, at[e].path, at[e].line) = {}
  /\ Return(e)
  /\ UNCHANGED <<wireVars, backendVars, previousCommand, site, cmd>>

\* TriggerBreakpoint reads the location and sends it.
SendStop(e) ==
  /\ Goto(e, "send", "vars")
  /\ \E loc \in Readable(e, target[e]) :
       /\ SendToSession(e, StopMsg(loc))
       /\ target' = [target EXCEPT ![e] = loc]
  /\ loan' = [loan EXCEPT ![e] = "none"]
  /\ stepStops' = [stepStops EXCEPT ![e] = IF site[e] = "hit" THEN @ ELSE @ + 1]
  /\ UNCHANGED <<link, toEngine, sock, running, breakpointList, debugCommand,
                 rx, rxQueue, rxFill, before, misread, previousCommand, at,
                 site, cmd>>

\* Reading changed memory may also end the process.
Crash(e) ==
  /\ Goto(e, "send", "ended")
  /\ loan[e] = "torn"
  /\ rx' = [rx EXCEPT ![e] = "done"]
  /\ sock' = [sock EXCEPT ![e] = "closed"]
  /\ CloseStream(e)
  /\ UNCHANGED <<toEngine, running, breakpointList, debugCommand, rxQueue,
                 rxFill, loan, before, misread, previousCommand, at, site,
                 target, cmd, stepStops>>

\* Mutant: what is in the command slot is dropped before the wait begins.
SendVariables_drops(e) ==
  /\ Goto(e, "vars", "wait")
  /\ SendToSession(e, VariablesMsg)
  /\ debugCommand' = [debugCommand EXCEPT ![e] = "Nothing"]
  /\ UNCHANGED <<link, toEngine, sock, running, breakpointList, rx, rxQueue,
                 rxFill, loan, before, misread, previousCommand, at, site,
                 target, cmd, stepStops>>

SendVariables(e) ==
  /\ Goto(e, "vars", "wait")
  /\ SendToSession(e, VariablesMsg)
  /\ UNCHANGED <<link, toEngine, backendVars, previousCommand, at, site, target,
                 cmd, stepStops>>

\* The polling loop leaves only for a command: it does not look at running.
LoadCommand(e) ==
  /\ Goto(e, "wait", "take")
  /\ debugCommand[e] # "Nothing"
  /\ cmd' = [cmd EXCEPT ![e] = debugCommand[e]]
  /\ UNCHANGED <<wireVars, backendVars, previousCommand, at, site, target,
                 stepStops>>

\* Mutant: the command is not reset when it has been taken.
StoreNothing_forgets(e) ==
  /\ pc[e] = "take"
  /\ previousCommand' = [previousCommand EXCEPT ![e] = cmd[e]]
  /\ cmd' = [cmd EXCEPT ![e] = "Nothing"]
  /\ IF site[e] = "hit"
       THEN /\ pc' = [pc EXCEPT ![e] = "script"]
            /\ Return(e)
            /\ UNCHANGED site
       ELSE /\ pc' = [pc EXCEPT ![e] = "lookup"]
            /\ site' = [site EXCEPT ![e] = "hit"]
            /\ UNCHANGED <<at, target, stepStops>>
  /\ UNCHANGED <<wireVars, sock, running, breakpointList, debugCommand, rx,
                 rxQueue, rxFill, loan, before, misread>>

\* Mutant: a step in answered by a step in is tested for again.
StoreNothing_stepsInAgain(e) ==
  /\ pc[e] = "take"
  /\ debugCommand' = [debugCommand EXCEPT ![e] = "Nothing"]
  /\ previousCommand' = [previousCommand EXCEPT ![e] = cmd[e]]
  /\ cmd' = [cmd EXCEPT ![e] = "Nothing"]
  /\ IF site[e] = "hit"
       THEN /\ pc' = [pc EXCEPT ![e] = "script"]
            /\ Return(e)
            /\ UNCHANGED site
       ELSE /\ pc' = [pc EXCEPT ![e] = "lookup"]
            /\ site' = [site EXCEPT ![e] = IF cmd[e] = "StepIn" THEN "in" ELSE "hit"]
            /\ UNCHANGED <<at, target, stepStops>>
  /\ UNCHANGED <<wireVars, sock, running, breakpointList, rx, rxQueue, rxFill,
                 loan, before, misread>>

\* The store erases whatever the receiver has stored since the load.
\* LineCallback goes on to its next test.
StoreNothing(e) ==
  /\ pc[e] = "take"
  /\ debugCommand' = [debugCommand EXCEPT ![e] = "Nothing"]
  /\ previousCommand' = [previousCommand EXCEPT ![e] = cmd[e]]
  /\ cmd' = [cmd EXCEPT ![e] = "Nothing"]
  /\ IF site[e] = "hit"
       THEN /\ pc' = [pc EXCEPT ![e] = "script"]
            /\ Return(e)
            /\ UNCHANGED site
       ELSE /\ pc' = [pc EXCEPT ![e] = "lookup"]
            /\ site' = [site EXCEPT
                          ![e] = IF @ = "over" /\ cmd[e] = "StepIn"
                                   THEN "in" ELSE "hit"]
            /\ UNCHANGED <<at, target, stepStops>>
  /\ UNCHANGED <<wireVars, sock, running, breakpointList, rx, rxQueue, rxFill,
                 loan, before, misread>>

ScriptThread(e) ==
  \/ StartReceiverThread(e)
  \/ SendBreakpointsRequest(e)
  \/ BuildScript(e)
  \/ BuildFail(e)
  \/ ScriptEnds(e)
  \/ Shutdown(e)
  \/ ProcessExit(e)
  \/ ExecuteLine(e)
  \/ GetAbsolutePath(e)
  \/ FindBreakpoint(e)
  \/ FindNothing(e)
  \/ SendStop(e)
  \/ Crash(e)
  \/ SendVariables(e)
  \/ LoadCommand(e)
  \/ StoreNothing(e)
=============================================================================
