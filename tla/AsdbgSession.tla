----------------------------- MODULE AsdbgSession ----------------------------
(***************************************************************************)
(* class AsdbgSession: the debug adapter inside the VS Code extension      *)
(* host.  It is single threaded: each action is one callback of the event  *)
(* loop, a DAP request of VS Code or the messages of one engine write.     *)
(***************************************************************************)
EXTENDS DebugWire

VARIABLES
  serving,            \* the net server has been created and listens
  breakpoints,        \* breakpoints[path]: the lines VS Code has set there
  clients,            \* _clients: the engines whose sockets it keeps
  currentBreakpoint,  \* _currentBreakpoint
  scriptVariables,    \* _variables holds what SendVariables sends
  requests,           \* DAP requests VS Code has sent, oldest first
  events              \* DAP events and responses VS Code has not read

sessionVars == <<serving, breakpoints, clients, currentBreakpoint,
                 scriptVariables, requests, events>>

\* stackTraceRequest shows it until a STOP has come.
Unknown == [path |-> <<"u", "n", "k", "n", "o", "w", "n">>, line |-> 0]

Requests == [type : {"setBreakpoints"}, path : Paths, lines : SUBSET Lines]
              \cup [type : {"control"}, command : DebugCommands]

SessionTypeOK ==
  /\ serving \in BOOLEAN
  /\ breakpoints \in [Paths -> SUBSET Lines]
  /\ clients \in SUBSET Engines
  /\ currentBreakpoint \in Location \cup {Unknown}
  /\ scriptVariables \in BOOLEAN
  /\ requests \in Seq(Requests)
  /\ events \in Seq({"stopped", "resumed", "verified"})

SessionInit ==
  /\ serving = FALSE
  /\ breakpoints = [p \in Paths |-> {}]
  /\ clients = {}
  /\ currentBreakpoint = Unknown
  /\ scriptVariables = FALSE
  /\ requests = <<>>
  /\ events = <<>>

\* What sendBreakpoints writes, read back as breakpoints of the backend.
Entries(bps) ==
  {b \in [path : Paths, line : Lines] : b.line \in bps[b.path]}

-----------------------------------------------------------------------------
\* initializeRequest and the socket callbacks it installs

Initialize ==
  /\ ~serving
  /\ serving' = TRUE
  /\ UNCHANGED <<wireVars, breakpoints, clients, currentBreakpoint,
                 scriptVariables, requests, events>>

OnConnection(e) ==
  /\ link[e] = "pending"
  /\ link' = [link EXCEPT ![e] = "up"]
  /\ clients' = clients \cup {e}
  /\ UNCHANGED <<toSession, toEngine, serving, breakpoints, currentBreakpoint,
                 scriptVariables, requests, events>>

\* The socket of e emits its next message.
Handling(e, type) ==
  /\ link[e] \in {"up", "reset"}
  /\ toSession[e] # <<>>
  /\ Head(toSession[e]).type = type
  /\ toSession' = [toSession EXCEPT ![e] = Tail(@)]

HandleGetBreakpoints(e) ==
  /\ Handling(e, "GET_BREAKPOINTS")
  /\ WriteToEngines({e}, BreakpointsMsg(Entries(breakpoints)))
  /\ UNCHANGED <<link, sessionVars>>

\* The line behind STOP has no comma if the path goes over several lines.
InOneLine(path) == \A i \in DOMAIN path : path[i] # NL

\* Mutant: the location of the first stop is kept.
HandleStop_keepsFirst(e) ==
  /\ Handling(e, "STOP")
  /\ IF InOneLine(Head(toSession[e]).at.path)
       THEN /\ currentBreakpoint' = IF currentBreakpoint = Unknown
                                      THEN Head(toSession[e]).at
                                      ELSE currentBreakpoint
            /\ events' = Append(events, "stopped")
       ELSE UNCHANGED <<currentBreakpoint, events>>
  /\ UNCHANGED <<link, toEngine, serving, breakpoints, clients,
                 scriptVariables, requests>>

\* Mutant: VS Code is not told.
HandleStop_silent(e) ==
  /\ Handling(e, "STOP")
  /\ currentBreakpoint' = IF InOneLine(Head(toSession[e]).at.path)
                            THEN Head(toSession[e]).at ELSE currentBreakpoint
  /\ UNCHANGED <<link, toEngine, serving, breakpoints, clients,
                 scriptVariables, requests, events>>

\* VS Code is told to stop at once: the VARIABLES message is another write.
\* "Invalid STOP message received.": a location it cannot take apart is dropped.
HandleStop(e) ==
  /\ Handling(e, "STOP")
  /\ IF InOneLine(Head(toSession[e]).at.path)
       THEN /\ currentBreakpoint' = Head(toSession[e]).at
            /\ events' = Append(events, "stopped")
       ELSE UNCHANGED <<currentBreakpoint, events>>
  /\ UNCHANGED <<link, toEngine, serving, breakpoints, clients,
                 scriptVariables, requests>>

HandleVariables(e) ==
  /\ Handling(e, "VARIABLES")
  /\ scriptVariables' = TRUE
  /\ UNCHANGED <<link, toEngine, serving, breakpoints, clients,
                 currentBreakpoint, requests, events>>

\* 'end'
OnEnd(e) ==
  /\ Handling(e, "EOF")
  /\ clients' = clients \ {e}
  /\ link' = [link EXCEPT ![e] = "down"]
  /\ UNCHANGED <<toEngine, serving, breakpoints, currentBreakpoint,
                 scriptVariables, requests, events>>

-----------------------------------------------------------------------------
\* DAP requests

Requested(type) ==
  /\ serving
  /\ requests # <<>>
  /\ Head(requests).type = type
  /\ requests' = Tail(requests)

\* Mutant: the clients get the breakpoints from before the change.
SetBreakPointsRequest_sendsOld ==
  /\ Requested("setBreakpoints")
  /\ LET r == Head(requests)
     IN  IF IsScriptFile(r.path)
           THEN /\ breakpoints' = [breakpoints EXCEPT ![r.path] = r.lines]
                /\ WriteToEngines(clients, BreakpointsMsg(Entries(breakpoints)))
                /\ events' = Append(events, "verified")
           ELSE UNCHANGED <<breakpoints, toEngine, events>>
  /\ UNCHANGED <<link, toSession, serving, clients, currentBreakpoint,
                 scriptVariables>>

\* Mutant: only one client gets the change.
SetBreakPointsRequest_onlyOne ==
  /\ Requested("setBreakpoints")
  /\ LET r == Head(requests)
         set == [breakpoints EXCEPT ![r.path] = r.lines]
     IN  /\ breakpoints' = set
         /\ \E S \in SUBSET clients :
              /\ Cardinality(S) <= 1
              /\ clients = {} \/ S # {}
              /\ WriteToEngines(S, BreakpointsMsg(Entries(set)))
         /\ events' = Append(events, "verified")
  /\ UNCHANGED <<link, toSession, serving, clients, currentBreakpoint,
                 scriptVariables>>

\* Mutant: without a client the request is not answered.
SetBreakPointsRequest_onlyWithClients ==
  /\ Requested("setBreakpoints")
  /\ LET r == Head(requests)
         set == [breakpoints EXCEPT ![r.path] = r.lines]
     IN  IF IsScriptFile(r.path) /\ clients # {}
           THEN /\ breakpoints' = set
                /\ WriteToEngines(clients, BreakpointsMsg(Entries(set)))
                /\ events' = Append(events, "verified")
           ELSE UNCHANGED <<breakpoints, toEngine, events>>
  /\ UNCHANGED <<link, toSession, serving, clients, currentBreakpoint,
                 scriptVariables>>

\* setBreakPointsRequest.  A file that is not a script gets no response.
SetBreakPointsRequest ==
  /\ Requested("setBreakpoints")
  /\ LET r == Head(requests)
     IN  IF IsScriptFile(r.path)
           THEN LET set == [breakpoints EXCEPT ![r.path] = r.lines]
                IN  /\ breakpoints' = set
                    /\ WriteToEngines(clients, BreakpointsMsg(Entries(set)))
                    /\ events' = Append(events, "verified")
           ELSE UNCHANGED <<breakpoints, toEngine, events>>
  /\ UNCHANGED <<link, toSession, serving, clients, currentBreakpoint,
                 scriptVariables>>

\* nextRequest, stepInRequest and continueRequest: to all clients.
ControlRequest ==
  /\ Requested("control")
  /\ WriteToEngines(clients, CommandMsg(Head(requests).command))
  /\ events' = Append(events, "resumed")
  /\ UNCHANGED <<link, toSession, serving, breakpoints, clients,
                 currentBreakpoint, scriptVariables>>

Socket(e) ==
  \/ OnConnection(e)
  \/ HandleGetBreakpoints(e)
  \/ HandleStop(e)
  \/ HandleVariables(e)
  \/ OnEnd(e)

Dap ==
  \/ SetBreakPointsRequest
  \/ ControlRequest
=============================================================================
