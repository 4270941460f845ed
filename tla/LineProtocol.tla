---------------------------- MODULE LineProtocol -----------------------------
(***************************************************************************)
(* The text of the messages to the engine and how the backend reads it,    *)
(* one line at a time: SplitLines, MessageQueue, ParseBeakpoints and       *)
(* ParseCommand.  It reads what one recv has returned as if nothing came   *)
(* before or after it.  The other modules use messages and CutReadings,    *)
(* Rests and BehindHeader instead of text; this one checks that text reads *)
(* that way.  DataEvents has the other direction.                          *)
(***************************************************************************)
EXTENDS DebugMessages, MessageText

CONSTANTS
  RecvSize,    \* the characters one recv of the backend can return
  MaxEntries,  \* bound: breakpoints set at once
  MaxWrites    \* bound: messages written

ASSUME TextAssumption ==
  /\ RecvSize \in Nat \ {0}
  /\ MaxEntries \in Nat
  /\ MaxWrites \in Nat

VARIABLES
  entries,    \* what the adapter's breakpoints Map holds, in its order
  toBackend,  \* messages written to the engine and not received as a whole
  offset,     \* how much of the first of them has been received
  list,       \* m_breankpointList, in its order
  command,    \* m_debugCommand
  writes      \* messages written so far

vars == <<entries, toBackend, offset, list, command, writes>>

-----------------------------------------------------------------------------
\* Texts

BreakpointsText(locs) ==
  <<"BREAKPOINTS", NL>> \o FlattenSeq([i \in DOMAIN locs |-> LocationText(locs[i]) \o <<NL>>])
                        \o <<"END_", "BREAKPOINTS", NL>>

CommandName == [StepOver |-> <<"STEP_", "OVER">>,
                StepIn   |-> <<"STEP_", "IN">>,
                Continue |-> <<"CON", "TINUE">>]
CommandText(c) == <<"COM", "MAND", NL>> \o CommandName[c] \o <<NL>>

-----------------------------------------------------------------------------
\* Lines

\* The first position of each line.  There is none after a last line feed.
SplitLines(text) ==
  SelectSeq([i \in DOMAIN text |-> i], LAMBDA i : i = 1 \/ text[i - 1] = NL)

-----------------------------------------------------------------------------
\* The backend reads a chunk

\* next.data() has no end of its own: the path is all up to the next comma of
\* the chunk, be it lines away, and the number what follows in that comma's line.
Entry(text) ==
  [path |-> UpTo(text, ","), line |-> LeadingNumber(UpTo(After(text, ","), NL))]

\* One line, for what the lines before it have left to expect.
BackendLine(text, i, r) ==
  LET line == UpTo(From(text, i), NL)
      entry == Entry(From(text, i))
  IN  CASE r.expects = "any" /\ line = <<"BREAKPOINTS">> ->
             [r EXCEPT !.expects = "entry", !.list = <<>>]
        [] r.expects = "any" /\ line = <<"COM", "MAND">> ->
             [r EXCEPT !.expects = "argument"]
        [] r.expects = "entry" /\ line = <<"END_", "BREAKPOINTS">> ->
             [r EXCEPT !.expects = "any"]
        [] r.expects = "entry" /\ entry.line # NotANumber ->
             [r EXCEPT !.list = Append(@, entry)]
        [] r.expects = "argument" ->
             [r EXCEPT !.expects = "any",
                       !.command = IF \E c \in DebugCommands : CommandName[c] = line
                         THEN CHOOSE c \in DebugCommands : CommandName[c] = line
                         ELSE @]
        [] OTHER -> r

\* Mutant: the list is not cleared before it is filled.
ParseChunk_keepsOld(text) ==
  FoldLeft(LAMBDA r, i :
             LET s == BackendLine(text, i, r)
             IN  IF r.expects = "any" /\ s.expects = "entry"
                   THEN [s EXCEPT !.list = r.list] ELSE s,
           [expects |-> "any", list |-> list, command |-> command],
           SplitLines(text))

\* The loop over the message queue of one chunk.
ParseChunk(text) ==
  FoldLeft(LAMBDA r, i : BackendLine(text, i, r),
           [expects |-> "any", list |-> list, command |-> command],
           SplitLines(text))

-----------------------------------------------------------------------------
\* The two ends and the stream between them

Init ==
  /\ entries = <<>>
  /\ toBackend = <<>>
  /\ offset = 0
  /\ list = <<>>
  /\ command = "Nothing"
  /\ writes = 0

Entries(locs) == {locs[i] : i \in DOMAIN locs}
ListMessage(locs) == [text |-> BreakpointsText(locs),
                      says |-> BreakpointsMsg(Entries(locs))]
CommandMessage(c) == [text |-> CommandText(c), says |-> CommandMsg(c)]

Written == writes < MaxWrites /\ writes' = writes + 1

\* The breakpoints of one or more files are set, and sent.  Two on one line, in
\* different columns, are left out: the other modules have sets.
SetBreakpoints ==
  /\ Written
  /\ entries' \in {locs \in BoundedSeq([path : Paths, line : Lines], MaxEntries) :
                    IsInjective(locs)}
  /\ toBackend' = Append(toBackend, ListMessage(entries'))
  /\ UNCHANGED <<offset, list, command>>

SendCommand ==
  /\ Written
  /\ \E c \in DebugCommands : toBackend' = Append(toBackend, CommandMessage(c))
  /\ UNCHANGED <<entries, offset, list, command>>

\* The answer to a request.
SendBreakpoints ==
  /\ Written
  /\ toBackend' = Append(toBackend, ListMessage(entries))
  /\ UNCHANGED <<entries, offset, list, command>>

\* The stream to the backend, and where its messages end in it.
Stream ==
  From(FlattenSeq([i \in DOMAIN toBackend |-> toBackend[i].text]), offset + 1)
Ends ==
  [i \in DOMAIN toBackend |->
     Len(FlattenSeq([j \in 1..i |-> toBackend[j].text])) - offset]

\* The messages a recv of n characters ends; what it leaves of the next one.
EndedBy(n) == Cardinality({i \in DOMAIN Ends : Ends[i] <= n})
LeftOf(n) == IF EndedBy(n) = 0 THEN offset + n ELSE n - Ends[EndedBy(n)]

\* recv returns some messages, or as much of them as fits its buffer.
Recv(n) ==
  /\ n <= Len(Stream)
  /\ n = RecvSize \/ LeftOf(n) = 0
  /\ LET r == ParseChunk(SubSeq(Stream, 1, n))
     IN  list' = r.list /\ command' = r.command
  /\ offset' = LeftOf(n)
  /\ toBackend' = From(toBackend, EndedBy(n) + 1)
  /\ UNCHANGED <<entries, writes>>

Next ==
  \/ SetBreakpoints
  \/ SendCommand
  \/ SendBreakpoints
  \/ \E n \in 1..RecvSize : Recv(n)

Spec == Init /\ [][Next]_vars

-----------------------------------------------------------------------------
\* The same in terms of messages

LinesIn(text) == Len(SelectSeq(text, LAMBDA c : c = NL))

\* The part of the i-th message that has not been received.
Unread(i) == From(toBackend[i].text, IF i = 1 THEN offset + 1 ELSE 1)

\* What is under way: the messages, or the rest of the first of them.
Pending ==
  [i \in DOMAIN toBackend |->
     CASE i > 1 \/ offset = 0 -> toBackend[i].says
       [] Unread(i) = <<"BREAKPOINTS", NL>> -> HeaderMsg
       [] OTHER -> RestMsg(LinesIn(Unread(i)), IsBreakpoints(toBackend[i].says))]

\* A recv of n characters cuts message EndedBy(n) + 1 after these lines of it.
Cuts(n) == LeftOf(n) > 0
LinesBefore(n) ==
  LET i == EndedBy(n) + 1
  IN  LinesIn(Unread(i)) - LinesIn(From(toBackend[i].text, LeftOf(n) + 1))

\* The messages a recv of n characters is taken to return, and to leave.
ReadAs(n) ==
  LET whole == SubSeq(Pending, 1, EndedBy(n))
  IN  IF Cuts(n) THEN {whole \o q : q \in CutReadings(Pending[EndedBy(n) + 1], LinesBefore(n))}
                 ELSE {whole}
LeavesRest(n) ==
  LET m == Pending[EndedBy(n) + 1]
  IN  Head(Pending') \in Rests(m, TextLines(m) - LinesBefore(n))

\* The path of an entry that came with the lines before it.
Entered(b) ==
  LET i == SelectLastInSeq(b.path, LAMBDA c : c = NL)
  IN  IF i = 0 THEN b ELSE Stray([b EXCEPT !.path = From(@, i + 1)])

\* What handling messages makes of the list and the command.
Handle(queue, start) ==
  FoldLeft(LAMBDA r, m : CASE IsBreakpoints(m) -> [r EXCEPT !.list = m.list]
                           [] m.type = "COMMAND" -> [r EXCEPT !.command = m.command]
                           [] OTHER -> r,
           [list |-> start, command |-> command], queue)
Handled(queue) ==
  IF queue # <<>> /\ Head(queue).type = "HEADER"
    THEN {Handle(r.left, r.list) : r \in BehindHeader(Tail(queue))}
    ELSE {Handle(queue, {Entered(b) : b \in Entries(list)})}

\* AsdbgBackend says what a recv reads and what it leaves for the next in terms of
\* messages.  The parser over text, which forgets everything at the end of a chunk,
\* takes the rest of a cut line for a line, and reads an entry up to any later
\* comma, does nothing else, wherever a recv ends.
ReadsAsModelled ==
  [][\A n \in 1..RecvSize :
       Recv(n) =>
         /\ \E q \in ReadAs(n) :
              [list |-> {Entered(b) : b \in Entries(list')}, command |-> command']
                \in Handled(q)
         /\ Cuts(n) => LeavesRest(n)]_vars
=============================================================================
