---------------------------- MODULE DebugMessages ----------------------------
(***************************************************************************)
(* The messages the engine processes and the debug adapter exchange, and   *)
(* what is read of one that a recv has cut.  A message stands for the text *)
(* lines of one write.  The order of the entries inside a BREAKPOINTS      *)
(* message is abstracted: the message carries a set.  LineProtocol checks  *)
(* the readings against the text, with those of the rest of a cut message. *)
(***************************************************************************)
EXTENDS ScriptPaths, Integers, FiniteSets

LOCAL INSTANCE FiniteSetsExt

CONSTANTS
  Engines,    \* engine processes that may connect to the adapter
  Paths,      \* absolute source paths VS Code sets breakpoints in
  Sections,   \* names of the script sections the engines execute
  Lines,      \* line numbers
  RecvLines   \* how many text lines one recv of the backend can have room for:
              \* it reads characters, and lines differ in their length

ASSUME WireAssumption ==
  /\ Lines \subseteq Nat
  /\ RecvLines \subseteq Nat \ {0}

\* What a read of freed or half-written memory yields instead of a path.
Garbage == <<"?">>

DebugCommands == {"StepOver", "StepIn", "Continue"}
Breakpoint == [path : Paths, line : Nat]

\* A path read up to the comma of a later line begins with the lines before it,
\* which stand here as one line feed.
NL == "\n"
Stray(b) == [b EXCEPT !.path = <<NL>> \o @]
StrayPaths == {<<NL>> \o p : p \in Paths}

\* What the backend can hold as a breakpoint, and what it can send as a location.
ReadBreakpoint == [path : Paths \cup StrayPaths, line : Nat]
Location == [path : Paths \cup StrayPaths \cup Sections \cup {Garbage}, line : Nat]

\* Engine to adapter.
GetBreakpointsMsg == [type |-> "GET_BREAKPOINTS"]
StopMsg(loc) == [type |-> "STOP", at |-> loc]
VariablesMsg == [type |-> "VARIABLES"]
\* Adapter to engine.
BreakpointsMsg(bps) == [type |-> "BREAKPOINTS", list |-> bps]
CommandMsg(c) == [type |-> "COMMAND", command |-> c]
\* What a recv has left of a message it cut: so many lines of unknown text, the
\* end of a list or not, or the line BREAKPOINTS that is the rest of a list whose
\* END_ is gone.
RestMsg(n, endsList) == [type |-> "REST", lines |-> n, endsList |-> endsList]
HeaderMsg == [type |-> "HEADER"]
\* The end of a stream: the peer has closed its socket.
EndOfStream == [type |-> "EOF"]

SessionMsgs == [type : {"GET_BREAKPOINTS", "VARIABLES", "EOF"}]
                 \cup [type : {"STOP"}, at : Location]
EngineMsgs == [type : {"EOF", "HEADER"}]
                \cup [type : {"BREAKPOINTS"}, list : SUBSET Breakpoint]
                \cup [type : {"COMMAND"}, command : DebugCommands]
                \cup [type : {"REST"}, lines : Nat, endsList : BOOLEAN]

IsBreakpoints(m) == m.type = "BREAKPOINTS"
NoBreakpoints(q, k) == \A i \in 1..k : ~IsBreakpoints(q[i])

\* The text lines of one message, and of the first k messages of a queue.
TextLines(m) ==
  CASE IsBreakpoints(m) -> 2 + Cardinality(m.list)
    [] m.type = "REST" -> m.lines
    [] m.type = "HEADER" -> 1
    [] OTHER -> 2
LinesUpTo(q, k) == MapThenSumSet(LAMBDA i : TextLines(q[i]), 1..k)

-----------------------------------------------------------------------------
\* What the first digits of a line number, or all of them, read as.
LeadingDigits(line) == {line \div d : d \in {1, 10, 100, 1000, 10000}} \ {0}

\* What is read of a list cut in its n-th entry: the entries before it, and
\* that entry too if the cut only takes digits of its line, or its line feed.
CutLists(list, n) ==
  LET whole == {S \in SUBSET list : Cardinality(S) = n - 1}
      Cut(b) == {[b EXCEPT !.line = l] : l \in LeadingDigits(b.line)}
  IN  whole \cup UNION {{S \cup {b} : b \in UNION {Cut(x) : x \in list \ S}} :
                         S \in whole}

\* The readings of message m cut after n lines.  A line without its line feed
\* is read, a part of a keyword and a rest are unknown text.  A header comes
\* first in what recv returns and is not cut.
CutReadings(m, n) ==
  CASE IsBreakpoints(m) /\ n > 0 -> {<<BreakpointsMsg(list)>> : list \in CutLists(m.list, n)}
    [] IsBreakpoints(m) /\ n = 0 -> {<<>>, <<BreakpointsMsg({})>>}
    [] m.type = "COMMAND" /\ n > 0 -> {<<>>, <<m>>}
    [] OTHER -> {<<>>}

\* What comes with the next recv when n lines of m are left, the first of them
\* perhaps in part: unknown text, unless the cut is between END_ and BREAKPOINTS.
Rests(m, n) ==
  LET endsList == IsBreakpoints(m) \/ (m.type = "REST" /\ m.endsList)
  IN  {RestMsg(n, endsList)}
        \cup IF endsList /\ n = 1 THEN {HeaderMsg} ELSE {}

\* What a header in front of messages q reads as, list and messages left: up to
\* the next END_BREAKPOINTS each line of q is an entry.  Those of the next list
\* are its entries; those before it are read up to the next comma of the chunk,
\* so that they all become the entry behind that comma once more.
BehindHeader(q) ==
  LET Full(k) == IsBreakpoints(q[k]) /\ q[k].list # {}
      nextEntries == UNION {q[k].list : k \in {k \in DOMAIN q :
                               Full(k) /\ \A j \in 1..(k - 1) : ~Full(j)}}
      Read(list) == IF nextEntries = {} THEN {list}
                    ELSE {list \cup {Stray(b)} : b \in nextEntries}
  IN  IF NoBreakpoints(q, Len(q))
        THEN {[list |-> {}, left |-> <<>>]}
        ELSE UNION {{[list |-> list, left |-> SubSeq(q, i + 1, Len(q))] :
                       list \in Read(q[i].list)} :
                     i \in {i \in DOMAIN q :
                              IsBreakpoints(q[i]) /\ NoBreakpoints(q, i - 1)}}
=============================================================================
