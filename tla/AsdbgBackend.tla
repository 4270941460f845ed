----------------------------- MODULE AsdbgBackend ----------------------------
(***************************************************************************)
(* class AsdbgBackend: the library an engine links.  Its state is shared   *)
(* by the script thread, which looks breakpoints up and polls for a        *)
(* command, and by the detached receiver thread, whose steps are the       *)
(* actions below.  A step is one access to shared state, or one critical   *)
(* section of the breakpoint mutex.                                        *)
(***************************************************************************)
EXTENDS DebugWire

VARIABLES
  sock,            \* m_socket: "none", "open" or "closed"
  running,         \* the flag main() shares with the receiver thread
  breakpointList,  \* m_breankpointList, as a set
  debugCommand,    \* m_debugCommand
  rx,              \* where the receiver thread is
  rxQueue,         \* the messages of the chunk it is parsing
  rxFill,          \* the entries of the BREAKPOINTS message still to push
  loan,            \* the script thread's unlocked use of list memory: "none",
                   \* "held", or "torn" once the receiver has changed the memory
  before,          \* history: the list the receiver is replacing
  misread          \* history: the breakpoint message read last was cut, or read
                   \* behind the header that a cut one has left

backendVars == <<sock, running, breakpointList, debugCommand, rx, rxQueue,
                 rxFill, loan, before, misread>>

RxStates == {"off", "loop", "recv", "parse", "fill", "done"}

BackendTypeOK ==
  /\ sock \in [Engines -> {"none", "open", "closed"}]
  /\ running \in [Engines -> BOOLEAN]
  /\ breakpointList \in [Engines -> SUBSET ReadBreakpoint]
  /\ debugCommand \in [Engines -> {"Nothing"} \cup DebugCommands]
  /\ rx \in [Engines -> RxStates]
  /\ rxQueue \in [Engines -> Seq(EngineMsgs)]
  /\ rxFill \in [Engines -> SUBSET ReadBreakpoint]
  /\ loan \in [Engines -> {"none", "held", "torn"}]
  /\ before \in [Engines -> SUBSET ReadBreakpoint]
  /\ misread \in [Engines -> BOOLEAN]

BackendInit ==
  /\ sock = [e \in Engines |-> "none"]
  /\ running = [e \in Engines |-> TRUE]
  /\ breakpointList = [e \in Engines |-> {}]
  /\ debugCommand = [e \in Engines |-> "Nothing"]
  /\ rx = [e \in Engines |-> "off"]
  /\ rxQueue = [e \in Engines |-> <<>>]
  /\ rxFill = [e \in Engines |-> {}]
  /\ loan = [e \in Engines |-> "none"]
  /\ before = [e \in Engines |-> {}]
  /\ misread = [e \in Engines |-> FALSE]

-----------------------------------------------------------------------------
\* What the script thread reads.

\* Does breakpoint b stop a script of that section at that line?
Matches(b, section, line) ==
  b.line = line /\ AreSameFiles(b.path, section)

\* The breakpoints FindBreakpoint may return; it takes the first in the list.
Found(e, section, line) ==
  {b \in breakpointList[e] : Matches(b, section, line)}

\* Mutant: a name without a breakpoint is reported as an empty name.
AbsolutePaths_empty(e, section) ==
  LET named == {b.path : b \in {x \in breakpointList[e] : EndWith(x.path, section)}}
  IN  IF named = {} THEN {<<>>} ELSE named

\* The names GetAbsolutePath may return: of some breakpoint, or the section's.
AbsolutePaths(e, section) ==
  LET named == {b.path : b \in {x \in breakpointList[e] : EndWith(x.path, section)}}
  IN  IF named = {} THEN {section} ELSE named

\* What the caller reads of a location looked up as loc: once the memory has
\* changed under it, the old text, a breakpoint stored there since, or noise.
Readable(e, loc) ==
  IF loan[e] = "torn"
    THEN {loc, [path |-> Garbage, line |-> loc.line]} \cup breakpointList[e]
    ELSE {loc}

-----------------------------------------------------------------------------
\* The receiver thread.

\* while (running)
CheckRunning(e) ==
  /\ rx[e] = "loop"
  /\ rx' = [rx EXCEPT ![e] = IF running[e] THEN "recv" ELSE "done"]
  /\ UNCHANGED <<wireVars, sock, running, breakpointList, debugCommand,
                 rxQueue, rxFill, loan, before, misread>>

Receivable(e) ==
  /\ rx[e] = "recv"
  /\ sock[e] = "open"
  /\ toEngine[e] # <<>>

\* recv returns the first k messages, the rest has not arrived yet.
Receive(e) ==
  /\ Receivable(e)
  /\ \E k \in 1..Len(toEngine[e]) :
       /\ toEngine[e][k].type # "EOF"
       /\ \E room \in RecvLines : LinesUpTo(toEngine[e], k) <= room
       /\ rxQueue' = [rxQueue EXCEPT ![e] = SubSeq(toEngine[e], 1, k)]
       /\ toEngine' = [toEngine EXCEPT
                         ![e] = SubSeq(@, k + 1, Len(@))]
       /\ misread' = [misread EXCEPT
                          ![e] = @ /\ NoBreakpoints(toEngine[e], k)]
  /\ rx' = [rx EXCEPT ![e] = "parse"]
  /\ UNCHANGED <<link, toSession, sock, running, breakpointList, debugCommand,
                 rxFill, loan, before>>

\* recv fills its buffer with k - 1 messages and n lines of the k-th, and perhaps
\* with a part of its next line.  What is left of it comes with the next recv.
Cut(e, k, n, left) ==
  LET m == toEngine[e][k]
  IN  /\ m.type # "EOF"
      /\ LinesUpTo(toEngine[e], k - 1) + n \in RecvLines
      /\ n + left = TextLines(m)
      /\ \E reading \in CutReadings(m, n) :
           rxQueue' = [rxQueue EXCEPT
                         ![e] = SubSeq(toEngine[e], 1, k - 1) \o reading]
      /\ \E rest \in Rests(m, left) :
           toEngine' = [toEngine EXCEPT
                          ![e] = <<rest>> \o SubSeq(@, k + 1, Len(@))]
      /\ misread' = [misread EXCEPT
                       ![e] = \/ IsBreakpoints(m)
                              \/ @ /\ NoBreakpoints(toEngine[e], k - 1)]

ReceiveCut(e) ==
  /\ Receivable(e)
  /\ \E k \in 1..Len(toEngine[e]) :
       \E n \in 0..TextLines(toEngine[e][k]), left \in 1..TextLines(toEngine[e][k]) :
         Cut(e, k, n, left)
  /\ rx' = [rx EXCEPT ![e] = "parse"]
  /\ UNCHANGED <<link, toSession, sock, running, breakpointList, debugCommand,
                 rxFill, loan, before>>

\* "Disconnected or error.": recv returns 0 or fails.
Disconnected(e) ==
  /\ rx[e] = "recv"
  /\ \/ sock[e] = "closed"
     \/ toEngine[e] # <<>> /\ Head(toEngine[e]).type = "EOF"
  /\ running' = [running EXCEPT ![e] = FALSE]
  /\ rx' = [rx EXCEPT ![e] = "done"]
  /\ UNCHANGED <<wireVars, sock, breakpointList, debugCommand, rxQueue, rxFill,
                 loan, before, misread>>

\* The message queue of the chunk is empty.
ChunkDone(e) ==
  /\ rx[e] = "parse"
  /\ rxQueue[e] = <<>>
  /\ rx' = [rx EXCEPT ![e] = "loop"]
  /\ UNCHANGED <<wireVars, sock, running, breakpointList, debugCommand,
                 rxQueue, rxFill, loan, before, misread>>

Parsing(e, type) ==
  /\ rx[e] = "parse"
  /\ rxQueue[e] # <<>>
  /\ Head(rxQueue[e]).type = type
  /\ rxQueue' = [rxQueue EXCEPT ![e] = Tail(@)]

\* ParseBeakpoints, its first critical section: clear the list.
ClearBreakpoints(e) ==
  /\ Parsing(e, "BREAKPOINTS")
  /\ breakpointList' = [breakpointList EXCEPT ![e] = {}]
  /\ before' = [before EXCEPT ![e] = breakpointList[e]]
  /\ rxFill' = [rxFill EXCEPT ![e] = Head(rxQueue[e]).list]
  /\ rx' = [rx EXCEPT ![e] = "fill"]
  /\ loan' = [loan EXCEPT ![e] = IF @ = "held" THEN "torn" ELSE @]
  /\ UNCHANGED <<wireVars, sock, running, debugCommand, misread>>

\* ParseBeakpoints takes the rest of an END_BREAKPOINTS for the first line of a
\* list: it clears the list, and what it reads up to the next END_BREAKPOINTS of
\* the chunk goes into it.
StrayHeader(e) ==
  /\ rx[e] = "parse"
  /\ rxQueue[e] # <<>>
  /\ Head(rxQueue[e]).type = "HEADER"
  /\ breakpointList' = [breakpointList EXCEPT ![e] = {}]
  /\ before' = [before EXCEPT ![e] = breakpointList[e]]
  /\ \E r \in BehindHeader(Tail(rxQueue[e])) :
       /\ rxFill' = [rxFill EXCEPT ![e] = r.list]
       /\ rxQueue' = [rxQueue EXCEPT ![e] = r.left]
       /\ misread' = [misread EXCEPT ![e] = @ \/ NoBreakpoints(r.left, Len(r.left))]
  /\ rx' = [rx EXCEPT ![e] = "fill"]
  /\ loan' = [loan EXCEPT ![e] = IF @ = "held" THEN "torn" ELSE @]
  /\ UNCHANGED <<wireVars, sock, running, debugCommand>>

\* Mutant: an entry is pushed only into an empty list.
PushBreakpoint_onlyFirst(e) ==
  /\ rx[e] = "fill"
  /\ \E b \in rxFill[e] :
       /\ breakpointList' = [breakpointList EXCEPT
                               ![e] = IF @ = {} THEN {b} ELSE @]
       /\ rxFill' = [rxFill EXCEPT ![e] = @ \ {b}]
  /\ UNCHANGED <<wireVars, sock, running, debugCommand, rx, rxQueue, loan,
                 before, misread>>

\* ParseBeakpoints, one critical section per entry.  A push may move the list.
PushBreakpoint(e) ==
  /\ rx[e] = "fill"
  /\ \E b \in rxFill[e] :
       /\ breakpointList' = [breakpointList EXCEPT ![e] = @ \cup {b}]
       /\ rxFill' = [rxFill EXCEPT ![e] = @ \ {b}]
  /\ \E l \in IF loan[e] = "held" THEN {"held", "torn"} ELSE {loan[e]} :
       loan' = [loan EXCEPT ![e] = l]
  /\ UNCHANGED <<wireVars, sock, running, debugCommand, rx, rxQueue, before,
                 misread>>

\* END_BREAKPOINTS.
EndBreakpoints(e) ==
  /\ rx[e] = "fill"
  /\ rxFill[e] = {}
  /\ rx' = [rx EXCEPT ![e] = "parse"]
  /\ before' = [before EXCEPT ![e] = {}]
  /\ UNCHANGED <<wireVars, sock, running, breakpointList, debugCommand,
                 rxQueue, rxFill, loan, misread>>

\* ParseCommand stores the command whether or not anyone waits for one.
ParseCommand(e) ==
  /\ Parsing(e, "COMMAND")
  /\ debugCommand' = [debugCommand EXCEPT ![e] = Head(rxQueue[e]).command]
  /\ UNCHANGED <<wireVars, sock, running, breakpointList, rx, rxFill, loan,
                 before, misread>>

\* "Unknown message": the rest of a cut one, line by line.
UnknownMessage(e) ==
  /\ Parsing(e, "REST")
  /\ UNCHANGED <<wireVars, sock, running, breakpointList, debugCommand, rx,
                 rxFill, loan, before, misread>>

Receiver(e) ==
  \/ CheckRunning(e)
  \/ Receive(e)
  \/ ReceiveCut(e)
  \/ Disconnected(e)
  \/ ChunkDone(e)
  \/ ClearBreakpoints(e)
  \/ StrayHeader(e)
  \/ PushBreakpoint(e)
  \/ EndBreakpoints(e)
  \/ ParseCommand(e)
  \/ UnknownMessage(e)
=============================================================================
