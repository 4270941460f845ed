---------------------------- MODULE DebugSessions ----------------------------
(***************************************************************************)
(* The debug sessions of one VS Code window.  InlineDebugAdapterFactory    *)
(* gives every session the same AsdbgSession object: its breakpoints, its  *)
(* clients and its server outlive a session, and engines connect, stop and *)
(* wait whether or not one is active.  VS Code is the environment.         *)
(***************************************************************************)
EXTENDS DebugSystem

CONSTANT MaxSessions  \* bound: debug sessions started

ASSUME SessionsAssumption == MaxSessions \in Nat

VARIABLES
  marks,       \* the breakpoints the user sees in the editor, by file
  session,     \* "off", "starting" until it is configured, or "on"
  toSend,      \* files whose breakpoints the starting session is still to send
  unanswered,  \* its setBreakpoints requests without a response
  sessions     \* debug sessions started so far

sessionsVars == <<marks, session, toSend, unanswered, sessions>>
allVars == <<vars, sessionsVars>>

SessionsInit ==
  /\ Init
  /\ marks = [p \in Paths |-> {}]
  /\ session = "off"
  /\ toSend = {}
  /\ unanswered = <<>>
  /\ sessions = 0

-----------------------------------------------------------------------------
\* VS Code

\* createDebugAdapterDescriptor and initializeRequest, which a later session
\* runs on the same object: the server it creates then cannot listen.  What the
\* adapter has said in between went to no session.
StartSession ==
  /\ session = "off"
  /\ sessions < MaxSessions
  /\ sessions' = sessions + 1
  /\ session' = "starting"
  /\ toSend' = {p \in Paths : marks[p] # {}}
  /\ serving' = TRUE
  /\ events' = <<>>
  /\ UNCHANGED <<wireVars, engineVars, breakpoints, clients, currentBreakpoint,
                 scriptVariables, requests, uiVars, marks, unanswered>>

\* A setBreakpoints request, one of those the session starts with or later.
Request(p, lines, initial) ==
  /\ requests' = Append(requests, [type |-> "setBreakpoints", path |-> p,
                                   lines |-> lines])
  /\ unanswered' = Append(unanswered, [path |-> p, initial |-> initial])

\* InitializedEvent has come: the breakpoints of every file that has some.
SendInitial ==
  /\ session = "starting"
  /\ \E p \in toSend :
       /\ toSend' = toSend \ {p}
       /\ Request(p, marks[p], TRUE)
  /\ UNCHANGED <<wireVars, engineVars, serving, breakpoints, clients,
                 currentBreakpoint, scriptVariables, events, uiVars, marks,
                 session, sessions>>

\* configurationDone, once they are all answered.
Configured ==
  /\ session = "starting"
  /\ toSend = {}
  /\ \A i \in DOMAIN unanswered : ~unanswered[i].initial
  /\ session' = "on"
  /\ UNCHANGED <<vars, marks, toSend, unanswered, sessions>>

\* The user changes the breakpoints of a file, in a session or between two.
Edit ==
  /\ edits < MaxEdits
  /\ edits' = edits + 1
  /\ \E p \in Paths, lines \in SUBSET Lines :
       /\ marks' = [marks EXCEPT ![p] = lines]
       /\ IF session = "off" THEN UNCHANGED <<requests, unanswered>>
                             ELSE Request(p, lines, FALSE)
  /\ UNCHANGED <<wireVars, engineVars, serving, breakpoints, clients,
                 currentBreakpoint, scriptVariables, events, uiStopped,
                 awaiting, session, toSend, sessions>>

\* Requests for scripts are answered in their order, others not at all.
Answered ==
  LET i == CHOOSE i \in DOMAIN unanswered :
             /\ IsScriptFile(unanswered[i].path)
             /\ \A j \in 1..i - 1 : ~IsScriptFile(unanswered[j].path)
  IN  SubSeq(unanswered, 1, i - 1) \o SubSeq(unanswered, i + 1, Len(unanswered))

ReadEventInSession ==
  /\ session # "off"
  /\ ReadEvent
  /\ unanswered' = IF Head(events) = "verified" THEN Answered ELSE unanswered
  /\ UNCHANGED <<marks, session, toSend, sessions>>

\* disconnect, which the adapter handles after the requests before it.
EndSession ==
  /\ session # "off"
  /\ requests = <<>>
  /\ session' = "off"
  /\ toSend' = {}
  /\ unanswered' = <<>>
  /\ events' = <<>>
  /\ uiStopped' = FALSE
  /\ awaiting' = 0
  /\ UNCHANGED <<wireVars, engineVars, serving, breakpoints, clients,
                 currentBreakpoint, scriptVariables, requests, edits, marks,
                 sessions>>

-----------------------------------------------------------------------------
Others ==
  /\ \/ \E e \in Engines : Engine(e) \/ ReceiverThread(e) \/ Adapter(e)
     \/ Dap /\ UNCHANGED <<engineVars, uiVars>>
     \/ Press
  /\ UNCHANGED sessionsVars

SessionsNext ==
  \/ StartSession
  \/ SendInitial
  \/ Configured
  \/ Edit
  \/ ReadEventInSession
  \/ EndSession
  \/ Others

SessionsSpec == SessionsInit /\ [][SessionsNext]_allVars

-----------------------------------------------------------------------------
\* The session is configured and has no request under way.
Settled == session = "on" /\ requests = <<>>

InList(e, p) == {b.line : b \in {x \in breakpointList[e] : x.path = p}}

\* Whatever was edited between sessions, sent again or answered to an engine
\* that connected early: once a session is configured and nothing is under way,
\* a connected engine has the breakpoints the editor shows in a script, and no others
\* there.  A script that has none any more is the exception: a session does not send
\* it, and the adapter has what the session before has left.
EngineHasMarks ==
  \A e \in Engines, p \in Paths :
    Settled /\ Quiet(e) /\ ~misread[e] /\ IsScriptFile(p) /\ marks[p] # {} =>
      InList(e, p) = marks[p]

\* A stop is shown, and commands are given, only for a stop of this session
\* that the engine still stands at, though engine and adapter are those of the
\* session before.
ShowsTheStopOfSession ==
  /\ uiStopped => session # "off"
  /\ ShowsTheStop

\* A session gets the responses its configuration waits for: of the setBreakpoints
\* requests for scripts that VS Code has no response to, each is still to be handled or
\* its response is on the way, though one session object serves them all.
ResponsesUnderWay ==
  Cardinality({i \in DOMAIN unanswered : IsScriptFile(unanswered[i].path)}) =
    Cardinality({i \in DOMAIN requests :
                   /\ requests[i].type = "setBreakpoints"
                   /\ IsScriptFile(requests[i].path)})
      + Cardinality({i \in DOMAIN events : events[i] = "verified"})
=============================================================================
