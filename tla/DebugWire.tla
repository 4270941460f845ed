------------------------------ MODULE DebugWire ------------------------------
(***************************************************************************)
(* The TCP connections between the engine processes and the debug adapter  *)
(* (port 4712).  Each direction of a connection is a FIFO sequence of      *)
(* messages.                                                               *)
(***************************************************************************)
EXTENDS DebugMessages

VARIABLES
  link,       \* link[e]: "none" before connect, "pending" until the adapter
              \* has run its connection callback, then "up"; "down" once
              \* closed, "reset" once closed without an 'end' event
  toSession,  \* toSession[e]: messages from e the adapter has not handled
  toEngine    \* toEngine[e]: messages to e that its recv has not returned

wireVars == <<link, toSession, toEngine>>

LinkStates == {"none", "pending", "up", "reset", "down"}

WireTypeOK ==
  /\ link \in [Engines -> LinkStates]
  /\ toSession \in [Engines -> Seq(SessionMsgs)]
  /\ toEngine \in [Engines -> Seq(EngineMsgs)]

WireInit ==
  /\ link = [e \in Engines |-> "none"]
  /\ toSession = [e \in Engines |-> <<>>]
  /\ toEngine = [e \in Engines |-> <<>>]

\* send_data by engine e: lost when the connection is gone.
SendToSession(e, m) ==
  toSession' = IF link[e] \in {"pending", "up"}
                 THEN [toSession EXCEPT ![e] = Append(@, m)]
                 ELSE toSession

\* The socket of engine e closes.  A socket closed while data waits to be
\* read resets the connection, and the adapter's socket then emits 'error',
\* not 'end'; otherwise the adapter reads the end of the stream.
CloseStream(e) ==
  \/ /\ SendToSession(e, EndOfStream)
     /\ UNCHANGED link
  \/ /\ link[e] = "up"
     /\ toEngine[e] # <<>>
     /\ link' = [link EXCEPT ![e] = "reset"]
     /\ UNCHANGED toSession

\* socket.write to the sockets of a set: nothing reaches a closed one.
WriteToEngines(S, m) ==
  toEngine' = [e \in Engines |->
                 IF e \in S /\ link[e] \in {"pending", "up"}
                   THEN Append(toEngine[e], m) ELSE toEngine[e]]
=============================================================================
