-------------------------- MODULE DebugSystem_proofs -------------------------
(***************************************************************************)
(* Every variable of DebugSystem keeps its type, for every set of engines, *)
(* paths, sections and lines, and for every size of recv's buffer; the     *)
(* stops a line makes for step commands end.  No change of the breakpoints *)
(* is lost between the adapter and an engine that receives, unless the     *)
(* list read last was cut or came behind a stray header; and so a          *)
(* connection with nothing under way has both sides agree.                 *)
(***************************************************************************)
EXTENDS DebugSystem, SequenceTheorems, TLAPS

LEMMA MessageParts ==
  ASSUME NEW m \in EngineMsgs
  PROVE  /\ m.type \in {"EOF", "BREAKPOINTS", "COMMAND", "REST", "HEADER"}
         /\ m.type = "BREAKPOINTS" => m.list \in SUBSET Breakpoint
         /\ m.type = "COMMAND" => m.command \in DebugCommands
  BY DEF EngineMsgs

\* A cut list still holds breakpoints only.
LEMMA CutListsType ==
  ASSUME NEW list \in SUBSET Breakpoint, NEW n, NEW l \in CutLists(list, n)
  PROVE  l \in SUBSET Breakpoint
<1> DEFINE whole == {S \in SUBSET list : Cardinality(S) = n - 1}
           Shortened(b) == {[b EXCEPT !.line = d] : d \in LeadingDigits(b.line)}
<1>1. ASSUME NEW b \in Breakpoint, NEW c \in Shortened(b)
      PROVE  c \in Breakpoint
  <2>1. b.line \in Nat
    BY DEF Breakpoint
  <2>2. \A d \in LeadingDigits(b.line) : d \in Nat
    BY <2>1 DEF LeadingDigits
  <2> QED
    BY <2>2 DEF Breakpoint
<1>2. l \in whole \cup UNION {{S \cup {b} : b \in UNION {Shortened(x) : x \in list \ S}} :
                            S \in whole}
  BY Zenon DEF CutLists
<1>3. whole \subseteq SUBSET list
  OBVIOUS
<1> HIDE DEF whole, Shortened
<1>4. CASE l \in whole
  BY <1>3, <1>4
<1>5. CASE l \notin whole
  <2>1. PICK S \in whole : l \in {S \cup {b} : b \in UNION {Shortened(x) : x \in list \ S}}
    BY <1>2, <1>5
  <2>2. PICK b \in UNION {Shortened(x) : x \in list \ S} : l = S \cup {b}
    BY <2>1
  <2>3. PICK x \in list \ S : b \in Shortened(x)
    BY <2>2
  <2>4. b \in Breakpoint
    BY <1>1, <2>3
  <2> QED
    BY <1>3, <2>2, <2>4
<1> QED
  BY <1>4, <1>5

\* What a cut message reads as is one message or none: a list if it is one, a
\* command only if it is that command.
LEMMA CutReadingsType ==
  ASSUME NEW m \in EngineMsgs, NEW n \in Nat, NEW reading \in CutReadings(m, n)
  PROVE  /\ reading \in Seq(EngineMsgs)
         /\ IsBreakpoints(m) =>
              reading = <<>> \/ \E list : reading = <<BreakpointsMsg(list)>>
         /\ ~IsBreakpoints(m) => reading = <<>> \/ reading = <<m>>
<1>1. CASE IsBreakpoints(m) /\ n = 0
  <2>1. reading = <<>> \/ reading = <<BreakpointsMsg({})>>
    BY <1>1 DEF CutReadings, IsBreakpoints
  <2>2. BreakpointsMsg({}) \in EngineMsgs
    BY DEF BreakpointsMsg, EngineMsgs
  <2>3. <<BreakpointsMsg({})>> \in Seq(EngineMsgs) /\ <<>> \in Seq(EngineMsgs)
    BY <2>2
  <2>4. reading \in Seq(EngineMsgs)
    BY <2>1, <2>3, Zenon
  <2>5. reading = <<>> \/ \E list : reading = <<BreakpointsMsg(list)>>
    BY <2>1, Zenon
  <2> QED
    BY <1>1, <2>4, <2>5, Zenon
<1>2. CASE IsBreakpoints(m) /\ n > 0
  <2>1. PICK l \in CutLists(m.list, n) : reading = <<BreakpointsMsg(l)>>
    BY <1>2 DEF CutReadings, IsBreakpoints
  <2>2. m.list \in SUBSET Breakpoint
    BY <1>2, MessageParts DEF IsBreakpoints
  <2>3. BreakpointsMsg(l) \in EngineMsgs
    BY <2>2, CutListsType DEF BreakpointsMsg, EngineMsgs
  <2>4. reading \in Seq(EngineMsgs)
    BY <2>1, <2>3
  <2>5. reading = <<>> \/ \E list : reading = <<BreakpointsMsg(list)>>
    BY <2>1, Zenon
  <2> QED
    BY <1>2, <2>4, <2>5
<1>3. CASE ~IsBreakpoints(m)
  <2>1. reading = <<>> \/ reading = <<m>>
    BY <1>3 DEF CutReadings
  <2>2. <<>> \in Seq(EngineMsgs) /\ <<m>> \in Seq(EngineMsgs)
    OBVIOUS
  <2>3. reading \in Seq(EngineMsgs)
    BY <2>1, <2>2, Zenon
  <2> QED
    BY <1>3, <2>1, <2>3, Zenon
<1> QED
  BY <1>1, <1>2, <1>3

\* What a cut leaves for the next recv is neither a list nor a command.
LEMMA RestsType ==
  ASSUME NEW m, NEW n \in Nat, NEW rest \in Rests(m, n)
  PROVE  /\ rest \in EngineMsgs
         /\ rest.type \in {"REST", "HEADER"}
<1>1. PICK endsList \in BOOLEAN : rest \in {RestMsg(n, endsList), HeaderMsg}
  <2>1. (IsBreakpoints(m) \/ (m.type = "REST" /\ m.endsList)) \in BOOLEAN
    OBVIOUS
  <2> QED
    BY <2>1, Zenon DEF Rests
<1>2. CASE rest = RestMsg(n, endsList)
  BY <1>2 DEF RestMsg, EngineMsgs
<1>3. CASE rest = HeaderMsg
  BY <1>3 DEF HeaderMsg, EngineMsgs
<1> QED
  BY <1>1, <1>2, <1>3

\* A header reads a list of breakpoints, some of them perhaps with stray lines, and
\* leaves the end of the chunk: what is behind a list, or nothing if it has none.
LEMMA BehindHeaderType ==
  ASSUME NEW q \in Seq(EngineMsgs), NEW r \in BehindHeader(q)
  PROVE  /\ r.list \in SUBSET ReadBreakpoint
         /\ r.left \in Seq(EngineMsgs)
         /\ \/ r.left = <<>> /\ NoBreakpoints(q, Len(q))
            \/ \E i \in 1..Len(q) : r.left = SubSeq(q, i + 1, Len(q))
<1> DEFINE Full(k) == IsBreakpoints(q[k]) /\ q[k].list # {}
           nextEntries == UNION {q[k].list : k \in {k \in DOMAIN q :
                                    Full(k) /\ \A j \in 1..(k - 1) : ~Full(j)}}
           Read(list) == IF nextEntries = {} THEN {list}
                         ELSE {list \cup {Stray(b)} : b \in nextEntries}
           lists == {i \in DOMAIN q : IsBreakpoints(q[i]) /\ NoBreakpoints(q, i - 1)}
           Readings(i) == {[list |-> list, left |-> SubSeq(q, i + 1, Len(q))] :
                             list \in Read(q[i].list)}
<1>1. CASE NoBreakpoints(q, Len(q))
  <2>1. r = [list |-> {}, left |-> <<>>]
    BY <1>1, Zenon DEF BehindHeader
  <2> QED
    BY <1>1, <2>1
<1>2. CASE ~NoBreakpoints(q, Len(q))
  <2>1. r \in UNION {Readings(i) : i \in lists}
    BY <1>2, Zenon DEF BehindHeader
  <2>2. DOMAIN q = 1..Len(q) /\ \A i \in DOMAIN q : q[i] \in EngineMsgs
    OBVIOUS
  <2>3. \A i \in DOMAIN q : IsBreakpoints(q[i]) => q[i].list \subseteq Breakpoint
    BY <2>2, MessageParts DEF IsBreakpoints
  <2>4. nextEntries \subseteq Breakpoint
    BY <2>3
  <2>5. \A b \in Breakpoint : b \in ReadBreakpoint /\ Stray(b) \in ReadBreakpoint
    BY DEF Breakpoint, ReadBreakpoint, Stray, StrayPaths
  <2>6. \A i \in lists : q[i].list \subseteq Breakpoint
    BY <2>3
  <2> HIDE DEF nextEntries, lists
  <2>7. PICK i \in lists : r \in Readings(i)
    BY <2>1
  <2>8. PICK list \in Read(q[i].list) :
          r = [list |-> list, left |-> SubSeq(q, i + 1, Len(q))]
    BY <2>7
  <2>9. list \subseteq ReadBreakpoint
    BY <2>4, <2>5, <2>6, <2>8
  <2>10. i \in 1..Len(q)
    BY <2>2 DEF lists
  <2>11. SubSeq(q, i + 1, Len(q)) \in Seq(EngineMsgs)
    BY <2>10, SubSeqProperties
  <2> QED
    BY <2>8, <2>9, <2>10, <2>11
<1> QED
  BY <1>1, <1>2

LEMMA SubSeqType ==
  ASSUME NEW S, NEW q \in Seq(S), NEW k \in 1..Len(q)
  PROVE  /\ SubSeq(q, 1, k) \in Seq(S)
         /\ SubSeq(q, 1, k - 1) \in Seq(S)
         /\ SubSeq(q, k + 1, Len(q)) \in Seq(S)
  BY SubSeqProperties

LEMMA ReadableBreakpoints == Breakpoint \subseteq ReadBreakpoint
  BY DEF Breakpoint, ReadBreakpoint

LEMMA NoLocationType == NoLocation \in Location
  BY DEF NoLocation, Location

LEMMA InitTypeOK == Init => TypeOK
<1> SUFFICES ASSUME Init PROVE TypeOK
  OBVIOUS
<1>1. WireTypeOK
  BY DEF Init, WireInit, WireTypeOK, LinkStates
<1>2. BackendTypeOK
  BY DEF Init, BackendInit, BackendTypeOK, RxStates
<1>3. ThreadTypeOK
  BY NoLocationType DEF Init, ThreadInit, ThreadTypeOK, ThreadStates, Sites
<1>4. SessionTypeOK
  <2>1. serving \in BOOLEAN /\ scriptVariables \in BOOLEAN
    BY Zenon DEF Init, SessionInit
  <2>2. /\ breakpoints \in [Paths -> SUBSET Lines]
        /\ clients \in SUBSET Engines
        /\ currentBreakpoint \in Location \cup {Unknown}
    BY DEF Init, SessionInit
  <2>3. /\ requests \in Seq(Requests)
        /\ events \in Seq({"stopped", "resumed", "verified"})
    BY DEF Init, SessionInit
  <2> QED
    BY <2>1, <2>2, <2>3 DEF SessionTypeOK
<1>5. UiTypeOK
  <2>1. uiStopped \in BOOLEAN
    BY Zenon DEF Init, UiInit
  <2>2. awaiting \in Int /\ edits \in 0..MaxEdits
    BY UiAssumption DEF UiAssumption, Init, UiInit
  <2> QED
    BY <2>1, <2>2 DEF UiTypeOK
<1> QED
  BY <1>1, <1>2, <1>3, <1>4, <1>5 DEF TypeOK

LEMMA MessageTypes ==
  /\ GetBreakpointsMsg \in SessionMsgs
  /\ VariablesMsg \in SessionMsgs
  /\ EndOfStream \in SessionMsgs
  /\ EndOfStream \in EngineMsgs
  /\ \A loc \in Location : StopMsg(loc) \in SessionMsgs
  /\ \A c \in DebugCommands : CommandMsg(c) \in EngineMsgs
  /\ \A l \in SUBSET Breakpoint : BreakpointsMsg(l) \in EngineMsgs
  BY DEF GetBreakpointsMsg, VariablesMsg, EndOfStream, StopMsg, CommandMsg,
         BreakpointsMsg, SessionMsgs, EngineMsgs

LEMMA SendType ==
  ASSUME WireTypeOK, NEW e \in Engines, NEW m \in SessionMsgs,
         SendToSession(e, m)
  PROVE  toSession' \in [Engines -> Seq(SessionMsgs)]
  BY DEF SendToSession, WireTypeOK

LEMMA CloseType ==
  ASSUME WireTypeOK, NEW e \in Engines, CloseStream(e)
  PROVE  /\ toSession' \in [Engines -> Seq(SessionMsgs)]
         /\ link' \in [Engines -> LinkStates]
<1>1. CASE SendToSession(e, EndOfStream) /\ UNCHANGED link
  BY <1>1, SendType, MessageTypes DEF WireTypeOK
<1>2. CASE /\ link' = [link EXCEPT ![e] = "reset"]
           /\ UNCHANGED toSession
  BY <1>2 DEF WireTypeOK, LinkStates
<1> QED
  BY <1>1, <1>2 DEF CloseStream

LEMMA WriteType ==
  ASSUME WireTypeOK, NEW S, NEW m \in EngineMsgs, WriteToEngines(S, m)
  PROVE  toEngine' \in [Engines -> Seq(EngineMsgs)]
  BY DEF WriteToEngines, WireTypeOK

\* What a recv that cuts message k makes of the stream: what is read of the
\* message ends the chunk, and a rest that is no list and no command is left.
CutInto(e, k, reading, rest) ==
  LET q == toEngine[e]
  IN  /\ rxQueue' = [rxQueue EXCEPT ![e] = SubSeq(q, 1, k - 1) \o reading]
      /\ toEngine' = [toEngine EXCEPT ![e] = <<rest>> \o SubSeq(q, k + 1, Len(q))]
      /\ misread' = [misread EXCEPT
                       ![e] = \/ IsBreakpoints(q[k])
                              \/ @ /\ NoBreakpoints(q, k - 1)]
      /\ IsBreakpoints(q[k]) =>
           reading = <<>> \/ \E list : reading = <<BreakpointsMsg(list)>>
      /\ ~IsBreakpoints(q[k]) => reading = <<>> \/ reading = <<q[k]>>
      /\ rest.type \in {"REST", "HEADER"}

LEMMA CutParts ==
  ASSUME TypeOK, NEW e \in Engines, ReceiveCut(e)
  PROVE  \E k \in 1..Len(toEngine[e]), reading \in Seq(EngineMsgs), rest \in EngineMsgs :
           CutInto(e, k, reading, rest)
<1> DEFINE q == toEngine[e]
<1>1. PICK k \in 1..Len(q) :
        \E n \in 0..TextLines(q[k]), left \in 1..TextLines(q[k]) : Cut(e, k, n, left)
  BY DEF ReceiveCut
<1>2. PICK n \in 0..TextLines(q[k]), left \in 1..TextLines(q[k]) : Cut(e, k, n, left)
  BY <1>1
<1>3. q \in Seq(EngineMsgs) /\ q[k] \in EngineMsgs /\ n \in Nat /\ left \in Nat
  BY ElementOfSeq DEF TypeOK, WireTypeOK
<1>4. PICK reading \in CutReadings(q[k], n) :
        rxQueue' = [rxQueue EXCEPT ![e] = SubSeq(q, 1, k - 1) \o reading]
  BY <1>2 DEF Cut
<1>5. PICK rest \in Rests(q[k], left) :
        toEngine' = [toEngine EXCEPT ![e] = <<rest>> \o SubSeq(q, k + 1, Len(q))]
  BY <1>2 DEF Cut
<1>6. misread' = [misread EXCEPT
                   ![e] = \/ IsBreakpoints(q[k])
                          \/ @ /\ NoBreakpoints(q, k - 1)]
  BY <1>2 DEF Cut
<1>7. /\ reading \in Seq(EngineMsgs)
      /\ IsBreakpoints(q[k]) =>
           reading = <<>> \/ \E list : reading = <<BreakpointsMsg(list)>>
      /\ ~IsBreakpoints(q[k]) => reading = <<>> \/ reading = <<q[k]>>
  BY <1>3, <1>4, CutReadingsType
<1>8. rest \in EngineMsgs /\ rest.type \in {"REST", "HEADER"}
  BY <1>3, <1>5, RestsType
<1>9. CutInto(e, k, reading, rest)
  BY <1>4, <1>5, <1>6, <1>7, <1>8, Zenon DEF CutInto
<1> QED
  BY <1>7, <1>8, <1>9

\* Every step of the receiver keeps the types of what it shares.
LEMMA ReceiverType ==
  ASSUME TypeOK, NEW e \in Engines, Receiver(e)
  PROVE  WireTypeOK' /\ BackendTypeOK'
<1> USE DEF TypeOK
<1>1. CASE CheckRunning(e)
  BY <1>1 DEF CheckRunning, WireTypeOK, BackendTypeOK, wireVars, RxStates
<1>2. CASE Receive(e)
  <2>1. PICK k \in 1..Len(toEngine[e]) :
          /\ rxQueue' = [rxQueue EXCEPT ![e] = SubSeq(toEngine[e], 1, k)]
          /\ toEngine' = [toEngine EXCEPT ![e] = SubSeq(@, k + 1, Len(@))]
          /\ misread' = [misread EXCEPT
                             ![e] = @ /\ NoBreakpoints(toEngine[e], k)]
    BY <1>2 DEF Receive
  <2>2. toEngine[e] \in Seq(EngineMsgs)
    BY DEF WireTypeOK
  <2>3. /\ SubSeq(toEngine[e], 1, k) \in Seq(EngineMsgs)
        /\ SubSeq(toEngine[e], k + 1, Len(toEngine[e])) \in Seq(EngineMsgs)
    BY <2>2, SubSeqType
  <2>4. WireTypeOK'
    BY <1>2, <2>1, <2>3 DEF Receive, WireTypeOK
  <2>5. rxQueue' \in [Engines -> Seq(EngineMsgs)]
    BY <2>1, <2>3 DEF BackendTypeOK
  <2>6. misread' \in [Engines -> BOOLEAN]
    BY <2>1, Zenon DEF BackendTypeOK, NoBreakpoints
  <2>7. rx' \in [Engines -> RxStates]
    BY <1>2 DEF Receive, BackendTypeOK, RxStates
  <2> QED
    BY <1>2, <2>4, <2>5, <2>6, <2>7 DEF Receive, BackendTypeOK
<1>4. CASE Disconnected(e)
  BY <1>4 DEF Disconnected, WireTypeOK, BackendTypeOK, wireVars, RxStates
<1>5. CASE ChunkDone(e)
  BY <1>5 DEF ChunkDone, WireTypeOK, BackendTypeOK, wireVars, RxStates
<1>6. CASE ClearBreakpoints(e)
  <2>1. /\ Head(rxQueue[e]).list \in SUBSET Breakpoint
        /\ Tail(rxQueue[e]) \in Seq(EngineMsgs)
    BY <1>6, HeadTailProperties, MessageParts DEF ClearBreakpoints, Parsing, BackendTypeOK
  <2>2. Head(rxQueue[e]).list \in SUBSET ReadBreakpoint
    BY <2>1, ReadableBreakpoints
  <2> QED
    BY <1>6, <2>1, <2>2 DEF ClearBreakpoints, Parsing, WireTypeOK, BackendTypeOK, wireVars, RxStates
<1>7. CASE PushBreakpoint(e)
  <2>1. PICK b \in rxFill[e] :
          /\ breakpointList' = [breakpointList EXCEPT ![e] = @ \cup {b}]
          /\ rxFill' = [rxFill EXCEPT ![e] = @ \ {b}]
    BY <1>7 DEF PushBreakpoint
  <2>2. /\ breakpointList' \in [Engines -> SUBSET ReadBreakpoint]
        /\ rxFill' \in [Engines -> SUBSET ReadBreakpoint]
    BY <2>1 DEF BackendTypeOK
  <2>3. loan' \in [Engines -> {"none", "held", "torn"}]
    BY <1>7 DEF PushBreakpoint, BackendTypeOK
  <2> QED
    BY <1>7, <2>2, <2>3 DEF PushBreakpoint, WireTypeOK, BackendTypeOK, wireVars
<1>8. CASE EndBreakpoints(e)
  BY <1>8 DEF EndBreakpoints, WireTypeOK, BackendTypeOK, wireVars, RxStates
<1>9. CASE ParseCommand(e)
  <2>1. /\ Head(rxQueue[e]).command \in DebugCommands
        /\ Tail(rxQueue[e]) \in Seq(EngineMsgs)
    BY <1>9, HeadTailProperties, MessageParts DEF ParseCommand, Parsing, BackendTypeOK
  <2> QED
    BY <1>9, <2>1 DEF ParseCommand, Parsing, WireTypeOK, BackendTypeOK, wireVars
<1>3. CASE ReceiveCut(e)
  <2> DEFINE q == toEngine[e]
  <2>1. PICK k \in 1..Len(q), reading \in Seq(EngineMsgs), rest \in EngineMsgs :
          CutInto(e, k, reading, rest)
    BY <1>3, CutParts
  <2>2. q \in Seq(EngineMsgs)
    BY DEF WireTypeOK
  <2>3. /\ SubSeq(q, 1, k - 1) \in Seq(EngineMsgs)
        /\ SubSeq(q, k + 1, Len(q)) \in Seq(EngineMsgs)
    BY <2>2, SubSeqType
  <2>4. /\ <<rest>> \o SubSeq(q, k + 1, Len(q)) \in Seq(EngineMsgs)
        /\ SubSeq(q, 1, k - 1) \o reading \in Seq(EngineMsgs)
    BY <2>3, ConcatProperties
  <2>5. WireTypeOK'
    BY <1>3, <2>1, <2>4 DEF CutInto, ReceiveCut, WireTypeOK
  <2>6. rxQueue' \in [Engines -> Seq(EngineMsgs)]
    BY <2>1, <2>4 DEF CutInto, BackendTypeOK
  <2>7. misread' \in [Engines -> BOOLEAN]
    BY <2>1, Zenon DEF CutInto, BackendTypeOK, NoBreakpoints, IsBreakpoints
  <2>8. rx' \in [Engines -> RxStates]
    BY <1>3 DEF ReceiveCut, BackendTypeOK, RxStates
  <2> QED
    BY <1>3, <2>5, <2>6, <2>7, <2>8 DEF ReceiveCut, BackendTypeOK
<1>10. CASE UnknownMessage(e)
  <2>1. Tail(rxQueue[e]) \in Seq(EngineMsgs)
    BY <1>10, HeadTailProperties DEF UnknownMessage, Parsing, BackendTypeOK
  <2> QED
    BY <1>10, <2>1 DEF UnknownMessage, Parsing, WireTypeOK, BackendTypeOK, wireVars
<1>11. CASE StrayHeader(e)
  <2>1. PICK r \in BehindHeader(Tail(rxQueue[e])) :
          /\ rxFill' = [rxFill EXCEPT ![e] = r.list]
          /\ rxQueue' = [rxQueue EXCEPT ![e] = r.left]
          /\ misread' = [misread EXCEPT ![e] = @ \/ NoBreakpoints(r.left, Len(r.left))]
    BY <1>11 DEF StrayHeader
  <2>2. Tail(rxQueue[e]) \in Seq(EngineMsgs)
    BY <1>11, HeadTailProperties DEF StrayHeader, BackendTypeOK
  <2>3. r.list \in SUBSET ReadBreakpoint /\ r.left \in Seq(EngineMsgs)
    BY <2>1, <2>2, BehindHeaderType
  <2>4. /\ rxFill' \in [Engines -> SUBSET ReadBreakpoint]
        /\ rxQueue' \in [Engines -> Seq(EngineMsgs)]
    BY <2>1, <2>3 DEF BackendTypeOK
  <2>5. misread' \in [Engines -> BOOLEAN]
    BY <2>1, Zenon DEF BackendTypeOK, NoBreakpoints
  <2>6. /\ breakpointList' \in [Engines -> SUBSET ReadBreakpoint]
        /\ before' \in [Engines -> SUBSET ReadBreakpoint]
        /\ rx' \in [Engines -> RxStates]
        /\ loan' \in [Engines -> {"none", "held", "torn"}]
    BY <1>11 DEF StrayHeader, BackendTypeOK, RxStates
  <2> QED
    BY <1>11, <2>4, <2>5, <2>6 DEF StrayHeader, WireTypeOK, BackendTypeOK, wireVars
<1> QED
  BY <1>1, <1>2, <1>3, <1>4, <1>5, <1>6, <1>7, <1>8, <1>9, <1>10, <1>11 DEF Receiver

\* A step of the script thread keeps all types but those of the adapter and
\* VS Code, which it does not touch.
LEMMA ThreadType ==
  ASSUME TypeOK, NEW e \in Engines, Start(e) \/ ScriptThread(e)
  PROVE  WireTypeOK' /\ BackendTypeOK' /\ ThreadTypeOK'
<1> USE DEF TypeOK, Goto
<1>1. CASE Connect(e)
  BY <1>1 DEF Connect, WireTypeOK, BackendTypeOK, ThreadTypeOK, LinkStates, ThreadStates
<1>2. CASE ConnectFail(e)
  BY <1>2 DEF ConnectFail, WireTypeOK, BackendTypeOK, ThreadTypeOK, wireVars, backendVars, ThreadStates
<1>3. CASE StartReceiverThread(e)
  BY <1>3 DEF StartReceiverThread, WireTypeOK, BackendTypeOK, ThreadTypeOK, wireVars, RxStates, ThreadStates
<1>4. CASE SendBreakpointsRequest(e)
  <2>1. toSession' \in [Engines -> Seq(SessionMsgs)]
    BY <1>4, SendType, MessageTypes DEF SendBreakpointsRequest
  <2> QED
    BY <1>4, <2>1 DEF SendBreakpointsRequest, WireTypeOK, BackendTypeOK, ThreadTypeOK, backendVars, ThreadStates
<1>5. CASE BuildScript(e)
  BY <1>5 DEF BuildScript, WireTypeOK, BackendTypeOK, ThreadTypeOK, wireVars, backendVars, ThreadStates
<1>6. CASE BuildFail(e)
  BY <1>6 DEF BuildFail, WireTypeOK, BackendTypeOK, ThreadTypeOK, wireVars, backendVars, ThreadStates
<1>7. CASE ScriptEnds(e)
  BY <1>7 DEF ScriptEnds, WireTypeOK, BackendTypeOK, ThreadTypeOK, wireVars, backendVars, ThreadStates
<1>8. CASE Shutdown(e)
  <2>1. /\ toSession' \in [Engines -> Seq(SessionMsgs)]
        /\ link' \in [Engines -> LinkStates]
    BY <1>8, CloseType DEF Shutdown
  <2> QED
    BY <1>8, <2>1 DEF Shutdown, WireTypeOK, BackendTypeOK, ThreadTypeOK, ThreadStates
<1>9. CASE ProcessExit(e)
  <2>1. /\ toSession' \in [Engines -> Seq(SessionMsgs)]
        /\ link' \in [Engines -> LinkStates]
    BY <1>9, CloseType DEF ProcessExit, WireTypeOK
  <2> QED
    BY <1>9, <2>1 DEF ProcessExit, WireTypeOK, BackendTypeOK, ThreadTypeOK, RxStates, ThreadStates
<1>10. CASE ExecuteLine(e)
  <2>1. \A section \in Sections, line \in Lines :
          [path |-> section, line |-> line] \in Location
    BY WireAssumption DEF WireAssumption, Location
  <2>2. at' \in [Engines -> Location]
    BY <1>10, <2>1 DEF ExecuteLine, ThreadTypeOK
  <2>3. site' \in [Engines -> Sites]
    BY <1>10 DEF ExecuteLine, ThreadTypeOK, FirstSite, Sites
  <2> QED
    BY <1>10, <2>2, <2>3 DEF ExecuteLine, WireTypeOK, BackendTypeOK, ThreadTypeOK, wireVars, backendVars, ThreadStates
<1>11. CASE GetAbsolutePath(e)
  <2>1. at[e] \in Location
    BY DEF ThreadTypeOK
  <2>2. AbsolutePaths(e, at[e].path)
          \subseteq Paths \cup StrayPaths \cup Sections \cup {Garbage}
    <3>1. at[e].path \in Paths \cup StrayPaths \cup Sections \cup {Garbage}
      BY <2>1 DEF Location
    <3>2. \A b \in breakpointList[e] : b.path \in Paths \cup StrayPaths
      BY DEF BackendTypeOK, ReadBreakpoint
    <3> DEFINE named == {b.path : b \in {x \in breakpointList[e] :
                                           EndWith(x.path, at[e].path)}}
    <3>3. AbsolutePaths(e, at[e].path) = IF named = {} THEN {at[e].path} ELSE named
      BY Zenon DEF AbsolutePaths
    <3>4. named \subseteq Paths \cup StrayPaths
      BY <3>2
    <3> QED
      BY <3>1, <3>3, <3>4
  <2>3. target' \in [Engines -> Location]
    BY <1>11, <2>1, <2>2 DEF GetAbsolutePath, ThreadTypeOK, Location
  <2> QED
    BY <1>11, <2>3 DEF GetAbsolutePath, WireTypeOK, BackendTypeOK, ThreadTypeOK, wireVars, ThreadStates
<1>12. CASE FindBreakpoint(e)
  <2>1. target' \in [Engines -> Location]
    BY <1>12 DEF FindBreakpoint, Found, BackendTypeOK, ThreadTypeOK, Location, ReadBreakpoint
  <2> QED
    BY <1>12, <2>1 DEF FindBreakpoint, WireTypeOK, BackendTypeOK, ThreadTypeOK, wireVars, ThreadStates
<1>13. CASE FindNothing(e)
  BY <1>13, NoLocationType DEF FindNothing, Return, WireTypeOK, BackendTypeOK, ThreadTypeOK, wireVars, backendVars, ThreadStates
<1>14. CASE SendStop(e)
  <2>1. PICK loc \in Readable(e, target[e]) :
          /\ SendToSession(e, StopMsg(loc))
          /\ target' = [target EXCEPT ![e] = loc]
    BY <1>14 DEF SendStop
  <2>2. loc \in Location
    BY <2>1 DEF Readable, BackendTypeOK, ThreadTypeOK, Location, ReadBreakpoint
  <2>3. toSession' \in [Engines -> Seq(SessionMsgs)]
    BY <2>1, <2>2, SendType, MessageTypes
  <2>4. target' \in [Engines -> Location]
    BY <2>1, <2>2 DEF ThreadTypeOK
  <2> QED
    BY <1>14, <2>3, <2>4 DEF SendStop, WireTypeOK, BackendTypeOK, ThreadTypeOK, ThreadStates
<1>15. CASE Crash(e)
  <2>1. /\ toSession' \in [Engines -> Seq(SessionMsgs)]
        /\ link' \in [Engines -> LinkStates]
    BY <1>15, CloseType DEF Crash
  <2> QED
    BY <1>15, <2>1 DEF Crash, WireTypeOK, BackendTypeOK, ThreadTypeOK, RxStates, ThreadStates
<1>16. CASE SendVariables(e)
  <2>1. toSession' \in [Engines -> Seq(SessionMsgs)]
    BY <1>16, SendType, MessageTypes DEF SendVariables
  <2> QED
    BY <1>16, <2>1 DEF SendVariables, WireTypeOK, BackendTypeOK, ThreadTypeOK, backendVars, ThreadStates
<1>17. CASE LoadCommand(e)
  BY <1>17 DEF LoadCommand, WireTypeOK, BackendTypeOK, ThreadTypeOK, wireVars, backendVars, ThreadStates
<1>18. CASE StoreNothing(e)
  <2>1. /\ site' \in [Engines -> Sites]
        /\ pc' \in [Engines -> ThreadStates]
    BY <1>18 DEF StoreNothing, ThreadTypeOK, ThreadStates, Sites
  <2>2. /\ at' \in [Engines -> Location]
        /\ target' \in [Engines -> Location]
        /\ stepStops' \in [Engines -> Nat]
    BY <1>18, NoLocationType DEF StoreNothing, Return, ThreadTypeOK
  <2> QED
    BY <1>18, <2>1, <2>2 DEF StoreNothing, WireTypeOK, BackendTypeOK, ThreadTypeOK, wireVars
<1> QED
  BY <1>1, <1>2, <1>3, <1>4, <1>5, <1>6, <1>7, <1>8, <1>9, <1>10, <1>11, <1>12,
     <1>13, <1>14, <1>15, <1>16, <1>17, <1>18 DEF Start, ScriptThread

LEMMA EntriesType ==
  ASSUME NEW bps \in [Paths -> SUBSET Lines]
  PROVE  Entries(bps) \in SUBSET Breakpoint
  BY WireAssumption DEF WireAssumption, Entries, Breakpoint

\* A socket callback of the adapter keeps the types of the wire and its own.
LEMMA SocketType ==
  ASSUME TypeOK, NEW e \in Engines, Socket(e)
  PROVE  WireTypeOK' /\ SessionTypeOK'
<1> USE DEF TypeOK
<1>1. CASE OnConnection(e)
  <2>1. WireTypeOK'
    BY <1>1 DEF OnConnection, WireTypeOK, LinkStates
  <2> QED
    BY <1>1, <2>1 DEF OnConnection, SessionTypeOK
<1>2. ASSUME NEW type, Handling(e, type)
      PROVE  /\ toSession' \in [Engines -> Seq(SessionMsgs)]
             /\ Head(toSession[e]) \in SessionMsgs
  BY <1>2, HeadTailProperties DEF Handling, WireTypeOK
<1>3. CASE HandleGetBreakpoints(e)
  <2>1. toEngine' \in [Engines -> Seq(EngineMsgs)]
    BY <1>3, WriteType, EntriesType, MessageTypes DEF HandleGetBreakpoints, SessionTypeOK
  <2> QED
    BY <1>2, <1>3, <2>1 DEF HandleGetBreakpoints, WireTypeOK, SessionTypeOK, sessionVars
<1>4. CASE HandleStop(e)
  <2>1. Head(toSession[e]).at \in Location
    BY <1>2, <1>4 DEF HandleStop, Handling, SessionMsgs
  <2>2. WireTypeOK'
    BY <1>2, <1>4 DEF HandleStop, WireTypeOK
  <2>3. events' \in Seq({"stopped", "resumed", "verified"})
    <3>1. events' = Append(events, "stopped") \/ events' = events
      BY <1>4, Zenon DEF HandleStop
    <3> QED
      BY <3>1 DEF SessionTypeOK
  <2>4. currentBreakpoint' \in Location \cup {Unknown}
    BY <1>4, <2>1 DEF HandleStop, SessionTypeOK
  <2> QED
    BY <1>4, <2>2, <2>3, <2>4 DEF HandleStop, SessionTypeOK
<1>5. CASE HandleVariables(e)
  <2>1. WireTypeOK'
    BY <1>2, <1>5 DEF HandleVariables, WireTypeOK
  <2> QED
    BY <1>5, <2>1 DEF HandleVariables, SessionTypeOK
<1>6. CASE OnEnd(e)
  <2>1. WireTypeOK'
    BY <1>2, <1>6 DEF OnEnd, WireTypeOK, LinkStates
  <2> QED
    BY <1>6, <2>1 DEF OnEnd, SessionTypeOK
<1> QED
  BY <1>1, <1>3, <1>4, <1>5, <1>6 DEF Socket

\* A DAP request, and the adapter's start, keep those types too.
LEMMA DapType ==
  ASSUME TypeOK, Initialize \/ Dap
  PROVE  WireTypeOK' /\ SessionTypeOK'
<1> USE DEF TypeOK
<1>1. CASE Initialize
  BY <1>1, Zenon DEF Initialize, WireTypeOK, SessionTypeOK, wireVars
<1>2. ASSUME NEW type, Requested(type)
      PROVE  /\ requests' \in Seq(Requests)
             /\ Head(requests) \in Requests
             /\ Head(requests).type = type
  BY <1>2, HeadTailProperties DEF Requested, SessionTypeOK
<1>3. CASE SetBreakPointsRequest
  <2> DEFINE r == Head(requests)
             set == [breakpoints EXCEPT ![r.path] = r.lines]
  <2>1. r.path \in Paths /\ r.lines \in SUBSET Lines
    BY <1>2, <1>3 DEF SetBreakPointsRequest, Requests
  <2>2. set \in [Paths -> SUBSET Lines]
    BY <2>1 DEF SessionTypeOK
  <2>3. CASE IsScriptFile(r.path)
    <3>1. /\ breakpoints' = set
          /\ WriteToEngines(clients, BreakpointsMsg(Entries(set)))
          /\ events' = Append(events, "verified")
      BY <1>3, <2>3 DEF SetBreakPointsRequest
    <3>2. BreakpointsMsg(Entries(set)) \in EngineMsgs
      BY <2>2, EntriesType, MessageTypes
    <3>3. toEngine' \in [Engines -> Seq(EngineMsgs)]
      BY <3>1, <3>2, WriteType
    <3>4. events' \in Seq({"stopped", "resumed", "verified"})
      BY <3>1 DEF SessionTypeOK
    <3> QED
      BY <1>2, <1>3, <2>2, <3>1, <3>3, <3>4
         DEF SetBreakPointsRequest, WireTypeOK, SessionTypeOK
  <2>4. CASE ~IsScriptFile(r.path)
    <3>1. UNCHANGED <<breakpoints, toEngine, events>>
      BY <1>3, <2>4 DEF SetBreakPointsRequest
    <3> QED
      BY <1>2, <1>3, <3>1 DEF SetBreakPointsRequest, WireTypeOK, SessionTypeOK
  <2> QED
    BY <2>3, <2>4
<1>4. CASE ControlRequest
  <2>1. Head(requests).command \in DebugCommands
    BY <1>2, <1>4 DEF ControlRequest, Requests
  <2>2. toEngine' \in [Engines -> Seq(EngineMsgs)]
    BY <1>4, <2>1, WriteType, MessageTypes DEF ControlRequest
  <2>3. events' \in Seq({"stopped", "resumed", "verified"})
    BY <1>4 DEF ControlRequest, SessionTypeOK
  <2> QED
    BY <1>2, <1>4, <2>2, <2>3 DEF ControlRequest, WireTypeOK, SessionTypeOK
<1> QED
  BY <1>1, <1>3, <1>4 DEF Dap

\* Each step of the system leaves every variable in its type.
LEMMA NextType ==
  ASSUME TypeOK, [Next]_vars
  PROVE  TypeOK'
<1> USE DEF TypeOK
<1>1. ASSUME NEW e \in Engines, Engine(e) PROVE TypeOK'
  <2>1. WireTypeOK' /\ BackendTypeOK' /\ ThreadTypeOK'
    BY <1>1, ThreadType DEF Engine
  <2>2. SessionTypeOK' /\ UiTypeOK'
    BY <1>1 DEF Engine, SessionTypeOK, UiTypeOK, sessionVars, uiVars
  <2> QED
    BY <2>1, <2>2
<1>2. ASSUME NEW e \in Engines, ReceiverThread(e) PROVE TypeOK'
  <2>1. WireTypeOK' /\ BackendTypeOK'
    BY <1>2, ReceiverType DEF ReceiverThread
  <2>2. ThreadTypeOK' /\ SessionTypeOK' /\ UiTypeOK'
    BY <1>2 DEF ReceiverThread, ThreadTypeOK, SessionTypeOK, UiTypeOK,
                threadVars, sessionVars, uiVars
  <2> QED
    BY <2>1, <2>2
<1>3. ASSUME NEW e \in Engines, Adapter(e) PROVE TypeOK'
  <2>1. WireTypeOK' /\ SessionTypeOK'
    BY <1>3, SocketType DEF Adapter
  <2>2. BackendTypeOK' /\ ThreadTypeOK' /\ UiTypeOK'
    BY <1>3 DEF Adapter, BackendTypeOK, ThreadTypeOK, UiTypeOK, engineVars,
                backendVars, threadVars, uiVars
  <2> QED
    BY <2>1, <2>2
<1>4. CASE AdapterRequest
  <2>1. WireTypeOK' /\ SessionTypeOK'
    BY <1>4, DapType DEF AdapterRequest
  <2>2. BackendTypeOK' /\ ThreadTypeOK' /\ UiTypeOK'
    BY <1>4 DEF AdapterRequest, BackendTypeOK, ThreadTypeOK, UiTypeOK,
                engineVars, backendVars, threadVars, uiVars
  <2> QED
    BY <2>1, <2>2
<1>5. CASE SetBreakpoints
  <2>1. edits' \in 0..MaxEdits
    BY <1>5, UiAssumption DEF UiAssumption, SetBreakpoints, UiTypeOK
  <2>2. requests' \in Seq(Requests)
    BY <1>5 DEF SetBreakpoints, SessionTypeOK, Requests
  <2> QED
    BY <1>5, <2>1, <2>2 DEF SetBreakpoints, WireTypeOK, BackendTypeOK,
         ThreadTypeOK, SessionTypeOK, UiTypeOK, wireVars, engineVars,
         backendVars, threadVars
<1>6. CASE Press
  <2>1. requests' \in Seq(Requests)
    BY <1>6 DEF Press, SessionTypeOK, Requests
  <2>2. awaiting' \in Int
    BY <1>6 DEF Press, UiTypeOK
  <2> QED
    BY <1>6, <2>1, <2>2 DEF Press, WireTypeOK, BackendTypeOK,
         ThreadTypeOK, SessionTypeOK, UiTypeOK, wireVars, engineVars,
         backendVars, threadVars
<1>7. CASE ReadEvent
  <2>1. events' \in Seq({"stopped", "resumed", "verified"})
    BY <1>7, HeadTailProperties DEF ReadEvent, SessionTypeOK
  <2>2. awaiting' \in Int
    BY <1>7 DEF ReadEvent, UiTypeOK
  <2>3. uiStopped' \in BOOLEAN
    BY <1>7, Zenon DEF ReadEvent, UiTypeOK
  <2> QED
    BY <1>7, <2>1, <2>2, <2>3 DEF ReadEvent, WireTypeOK, BackendTypeOK,
         ThreadTypeOK, SessionTypeOK, UiTypeOK, wireVars, engineVars,
         backendVars, threadVars
<1>8. CASE HostExit
  <2>1. toEngine' \in [Engines -> Seq(EngineMsgs)]
    BY <1>8, WriteType, MessageTypes DEF HostExit
  <2>2. link' \in [Engines -> LinkStates]
    BY <1>8 DEF HostExit, LinkStates
  <2>3. WireTypeOK'
    BY <1>8, <2>1, <2>2 DEF HostExit, WireTypeOK
  <2>4. /\ breakpoints' \in [Paths -> SUBSET Lines]
        /\ clients' \in SUBSET Engines
        /\ currentBreakpoint' \in Location \cup {Unknown}
        /\ requests' \in Seq(Requests)
        /\ events' \in Seq({"stopped", "resumed", "verified"})
        /\ awaiting' \in Int
    BY <1>8 DEF HostExit
  <2>5. serving' \in BOOLEAN /\ scriptVariables' \in BOOLEAN /\ uiStopped' \in BOOLEAN
    BY <1>8, Zenon DEF HostExit
  <2> QED
    BY <1>8, <2>3, <2>4, <2>5 DEF HostExit, BackendTypeOK, ThreadTypeOK,
         SessionTypeOK, UiTypeOK, engineVars, backendVars, threadVars
<1>9. CASE UNCHANGED vars
  BY <1>9 DEF vars, WireTypeOK, BackendTypeOK, ThreadTypeOK, SessionTypeOK,
       UiTypeOK, wireVars, engineVars, backendVars, threadVars, sessionVars, uiVars
<1> QED
  BY <1>1, <1>2, <1>3, <1>4, <1>5, <1>6, <1>7, <1>8, <1>9 DEF Next, User, VSCode

\* No step of an engine, the adapter, VS Code or the user takes a variable out of its
\* type, however many there are of each.
THEOREM TypeCorrect == Spec => []TypeOK
  BY InitTypeOK, NextType, PTL DEF Spec

-----------------------------------------------------------------------------
\* The stops a line can make for step commands.

\* The count starts at zero on each line; a step over is tested for once, and a
\* step in once more, when it answers the step over or began the line.
StepCount(e) ==
  /\ pc[e] \in {"start", "spawn", "request", "build", "script"} => stepStops[e] = 0
  /\ site[e] = "over" =>
       stepStops[e] <= IF pc[e] \in {"lookup", "send"} THEN 0 ELSE 1
  /\ site[e] = "in" =>
       /\ previousCommand[e] = "StepIn"
       /\ stepStops[e] <= IF pc[e] \in {"lookup", "send"} THEN 1 ELSE 2
  /\ stepStops[e] <= 2

StepsCounted == \A e \in Engines : StepCount(e)

LEMMA ThreadCounts ==
  ASSUME TypeOK, NEW e \in Engines, StepCount(e), Start(e) \/ ScriptThread(e)
  PROVE  StepCount(e)'
<1>1. /\ pc \in [Engines -> ThreadStates] /\ site \in [Engines -> Sites]
      /\ previousCommand \in [Engines -> {"Nothing"} \cup DebugCommands]
      /\ stepStops \in [Engines -> Nat] /\ stepStops[e] \in Nat
      /\ site[e] \in Sites
  BY DEF TypeOK, ThreadTypeOK
<1>2. CASE ExecuteLine(e)
  <2>1. /\ pc'[e] = "lookup" /\ stepStops'[e] = 0
        /\ site'[e] = FirstSite(previousCommand[e])
        /\ previousCommand' = previousCommand
    BY <1>1, <1>2 DEF ExecuteLine, Goto, StepCount
  <2> QED
    BY <2>1 DEF StepCount, FirstSite
<1>3. CASE GetAbsolutePath(e) \/ FindBreakpoint(e)
  BY <1>1, <1>3 DEF GetAbsolutePath, FindBreakpoint, Goto, StepCount
<1>4. CASE FindNothing(e)
  BY <1>1, <1>4 DEF FindNothing, Return, Goto, StepCount
<1>5. CASE SendStop(e)
  <2>1. /\ pc[e] = "send" /\ pc'[e] = "vars" /\ UNCHANGED <<site, previousCommand>>
        /\ stepStops'[e] = IF site[e] = "hit" THEN stepStops[e] ELSE stepStops[e] + 1
    BY <1>1, <1>5 DEF SendStop, Goto
  <2> QED
    BY <1>1, <2>1 DEF StepCount, Sites
<1>6. CASE SendVariables(e) \/ LoadCommand(e)
  BY <1>1, <1>6 DEF SendVariables, LoadCommand, Goto, StepCount
<1>7. CASE StoreNothing(e)
  <2>1. CASE site[e] = "hit"
    <3>1. pc'[e] = "script" /\ stepStops'[e] = 0 /\ site'[e] = "hit"
      BY <1>1, <1>7, <2>1 DEF StoreNothing, Return
    <3> QED
      BY <3>1 DEF StepCount
  <2>2. CASE site[e] # "hit"
    <3>1. /\ pc[e] = "take" /\ pc'[e] = "lookup" /\ stepStops'[e] = stepStops[e]
          /\ site'[e] = IF site[e] = "over" /\ cmd[e] = "StepIn" THEN "in" ELSE "hit"
          /\ previousCommand'[e] = cmd[e]
      BY <1>1, <1>7, <2>2 DEF StoreNothing
    <3> QED
      BY <1>1, <2>2, <3>1 DEF StepCount
  <2> QED
    BY <2>1, <2>2
<1>8. CASE UNCHANGED <<site, previousCommand, stepStops>>
           /\ pc'[e] \in {"spawn", "request", "build", "script"}
           /\ pc[e] \in {"start", "spawn", "request", "build"}
  BY <1>1, <1>8 DEF StepCount
<1>9. CASE UNCHANGED <<site, previousCommand, stepStops>>
           /\ pc'[e] \in {"aborted", "finished", "exit", "ended"}
  <2>1. pc[e] \in {"lookup", "send"} \/ pc[e] \notin {"lookup", "send"}
    OBVIOUS
  <2> QED
    BY <1>1, <1>9, <2>1 DEF StepCount
<1> QED
  BY <1>1, <1>2, <1>3, <1>4, <1>5, <1>6, <1>7, <1>8, <1>9
     DEF Start, ScriptThread, Connect, ConnectFail, StartReceiverThread,
     SendBreakpointsRequest, BuildScript, BuildFail, ScriptEnds, Shutdown,
     ProcessExit, Crash, Goto

\* The steps of engine e leave the thread of another engine alone.
LEMMA OtherThreads ==
  ASSUME TypeOK, NEW e \in Engines, NEW d \in Engines \ {e},
         Start(e) \/ ScriptThread(e), StepCount(d)
  PROVE  StepCount(d)'
<1>1. /\ pc'[d] = pc[d] /\ site'[d] = site[d] /\ stepStops'[d] = stepStops[d]
      /\ previousCommand'[d] = previousCommand[d]
  BY DEF Start, ScriptThread, Connect, ConnectFail, StartReceiverThread,
     SendBreakpointsRequest, BuildScript, BuildFail, ScriptEnds, Shutdown,
     ProcessExit, ExecuteLine, GetAbsolutePath, FindBreakpoint, FindNothing,
     SendStop, Crash, SendVariables, LoadCommand, StoreNothing, Return, Goto,
     TypeOK, ThreadTypeOK
<1> QED
  BY <1>1 DEF StepCount

\* However the user answers, a line makes at most two stops for step commands, and
\* the second of them answers a step in.
THEOREM LineStopsEnd == Spec => []StepStopsEnd
<1>1. Init => StepsCounted
  BY DEF Init, ThreadInit, StepsCounted, StepCount
<1>2. TypeOK /\ StepsCounted /\ [Next]_vars => StepsCounted'
  <2> SUFFICES ASSUME TypeOK, StepsCounted, [Next]_vars PROVE StepsCounted'
    OBVIOUS
  <2>1. ASSUME NEW e \in Engines, Start(e) \/ ScriptThread(e) PROVE StepsCounted'
    BY <2>1, ThreadCounts, OtherThreads DEF StepsCounted
  <2>2. CASE UNCHANGED threadVars
    BY <2>2 DEF threadVars, StepsCounted, StepCount
  <2> QED
    BY <2>1, <2>2 DEF Next, Engine, ReceiverThread, Adapter, AdapterRequest, User,
       SetBreakpoints, Press, VSCode, ReadEvent, HostExit, vars, engineVars
<1>3. TypeOK /\ StepsCounted => StepStopsEnd
  BY DEF TypeOK, ThreadTypeOK, Sites, StepsCounted, StepCount, StepStopsEnd
<1> QED
  BY <1>1, <1>2, <1>3, TypeCorrect, PTL DEF Spec

-----------------------------------------------------------------------------
\* What is on the way between the two breakpoint lists.

Messages == Seq(EngineMsgs)

\* A list written last is the last list; a command changes nothing.
LEMMA LastOfAppend ==
  ASSUME NEW q \in Messages, NEW m \in EngineMsgs
  PROVE  /\ IsBreakpoints(m) => LastListIs(Append(q, m), m.list)
         /\ ~IsBreakpoints(m) =>
              /\ \A S : LastListIs(q, S) => LastListIs(Append(q, m), S)
              /\ NoBreakpoints(q, Len(q)) =>
                   NoBreakpoints(Append(q, m), Len(Append(q, m)))
<1>1. /\ Len(Append(q, m)) = Len(q) + 1
      /\ \A i \in 1..Len(q) : Append(q, m)[i] = q[i]
      /\ Append(q, m)[Len(q) + 1] = m
      /\ Len(q) \in Nat
  BY DEF Messages
<1> QED
  BY <1>1 DEF LastListIs, NoBreakpoints

\* A rest put back at the front is no list.
LEMMA LastBehindRest ==
  ASSUME NEW q \in Messages, NEW rest \in EngineMsgs, ~IsBreakpoints(rest)
  PROVE  /\ \A S : LastListIs(q, S) => LastListIs(<<rest>> \o q, S)
         /\ NoBreakpoints(q, Len(q)) => NoBreakpoints(<<rest>> \o q, Len(<<rest>> \o q))
<1> DEFINE longer == <<rest>> \o q
<1>1. /\ Len(longer) = Len(q) + 1 /\ Len(q) \in Nat
      /\ longer[1] = rest
      /\ \A i \in 1..Len(q) : longer[i + 1] = q[i]
  BY DEF Messages
<1> HIDE DEF longer
<1>2. \A i \in 1..Len(longer) : i # 1 => i - 1 \in 1..Len(q) /\ longer[i] = q[i - 1]
  <2>1. ASSUME NEW i \in 1..Len(longer), i # 1
        PROVE  i - 1 \in 1..Len(q) /\ longer[i] = q[i - 1]
    <3>1. i - 1 \in 1..Len(q) /\ (i - 1) + 1 = i
      BY <1>1, <2>1
    <3> QED
      BY <1>1, <3>1
  <2> QED
    BY <2>1
<1>3. ASSUME NEW S, LastListIs(q, S) PROVE LastListIs(longer, S)
  <2>1. PICK i \in 1..Len(q) :
          /\ IsBreakpoints(q[i])
          /\ q[i].list = S
          /\ \A j \in 1..Len(q) : j > i => ~IsBreakpoints(q[j])
    BY <1>3 DEF LastListIs
  <2>2. i + 1 \in 1..Len(longer) /\ longer[i + 1] = q[i]
    BY <1>1
  <2>3. ASSUME NEW j \in 1..Len(longer), j > i + 1 PROVE ~IsBreakpoints(longer[j])
    <3>1. j - 1 \in 1..Len(q) /\ j - 1 > i /\ longer[j] = q[j - 1]
      BY <1>1, <1>2, <2>3
    <3> QED
      BY <2>1, <3>1
  <2> QED
    BY <2>1, <2>2, <2>3 DEF LastListIs
<1>4. ASSUME NoBreakpoints(q, Len(q)) PROVE NoBreakpoints(longer, Len(longer))
  BY <1>1, <1>2, <1>4 DEF NoBreakpoints
<1> QED
  BY <1>3, <1>4 DEF longer

\* Taking the head keeps the last list, unless the head is that list.
LEMMA LastOfTail ==
  ASSUME NEW q \in Messages, q # <<>>
  PROVE  /\ \A S : LastListIs(q, S) =>
              \/ LastListIs(Tail(q), S)
              \/ /\ IsBreakpoints(Head(q)) /\ Head(q).list = S
                 /\ NoBreakpoints(Tail(q), Len(Tail(q)))
         /\ NoBreakpoints(q, Len(q)) => NoBreakpoints(Tail(q), Len(Tail(q)))
         /\ NoBreakpoints(q, Len(q)) => ~IsBreakpoints(Head(q))
<1>1. /\ Len(q) \in Nat \ {0}
      /\ Len(Tail(q)) = Len(q) - 1
      /\ \A i \in 1..Len(Tail(q)) : Tail(q)[i] = q[i + 1]
      /\ Head(q) = q[1]
  BY HeadTailProperties, EmptySeq DEF Messages
<1> QED
  BY <1>1 DEF LastListIs, NoBreakpoints

\* The parts of a queue split before or after message k.
LEMMA Split ==
  ASSUME NEW q \in Messages, NEW k \in 1..Len(q)
  PROVE  /\ Len(q) \in Nat
         /\ Len(SubSeq(q, 1, k)) = k
         /\ \A i \in 1..k : SubSeq(q, 1, k)[i] = q[i]
         /\ Len(SubSeq(q, 1, k - 1)) = k - 1
         /\ \A i \in 1..(k - 1) : SubSeq(q, 1, k - 1)[i] = q[i]
         /\ Len(SubSeq(q, k + 1, Len(q))) = Len(q) - k
         /\ \A i \in 1..(Len(q) - k) : SubSeq(q, k + 1, Len(q))[i] = q[k + i]
  BY SubSeqProperties DEF Messages

\* The last list of a queue is in the part left or in the part received.
LEMMA LastOfSplit ==
  ASSUME NEW q \in Messages, NEW k \in 1..Len(q)
  PROVE  LET chunk == SubSeq(q, 1, k)
             rest == SubSeq(q, k + 1, Len(q))
         IN  /\ \A S : LastListIs(q, S) =>
                  \/ LastListIs(rest, S)
                  \/ NoBreakpoints(rest, Len(rest)) /\ LastListIs(chunk, S)
             /\ NoBreakpoints(q, Len(q)) =>
                  /\ NoBreakpoints(rest, Len(rest))
                  /\ NoBreakpoints(chunk, Len(chunk))
                  /\ NoBreakpoints(q, k)
<1> DEFINE chunk == SubSeq(q, 1, k)
           rest == SubSeq(q, k + 1, Len(q))
<1>0. /\ Len(q) \in Nat /\ k \in Nat /\ k >= 1 /\ k <= Len(q)
      /\ Len(chunk) = k
      /\ Len(rest) = Len(q) - k
  BY Split
<1>1. /\ \A i \in 1..(k) : chunk[i] = q[i]
      /\ \A i \in 1..(Len(q) - k) : rest[i] = q[k + i]
  BY Split
<1> HIDE DEF chunk, rest
<1>2. ASSUME NEW S, LastListIs(q, S)
      PROVE  \/ LastListIs(rest, S)
             \/ NoBreakpoints(rest, Len(rest)) /\ LastListIs(chunk, S)
  <2>1. PICK i \in 1..Len(q) :
          /\ IsBreakpoints(q[i])
          /\ q[i].list = S
          /\ \A j \in 1..Len(q) : j > i => ~IsBreakpoints(q[j])
    BY <1>2 DEF LastListIs
  <2>2. CASE i > k
    <3>1. /\ i - k \in 1..Len(rest)
          /\ rest[i - k] = q[i]
      BY <1>0, <1>1, <2>2
    <3>2. \A j \in 1..Len(rest) : j > i - k => ~IsBreakpoints(rest[j])
      BY <1>0, <1>1, <2>1
    <3> QED
      BY <2>1, <3>1, <3>2 DEF LastListIs
  <2>3. CASE i <= k
    <3>1. NoBreakpoints(rest, Len(rest))
      BY <1>0, <1>1, <2>1, <2>3 DEF NoBreakpoints
    <3>2. i \in 1..Len(chunk) /\ chunk[i] = q[i]
      BY <1>0, <1>1, <2>3
    <3>3. \A j \in 1..Len(chunk) : j > i => ~IsBreakpoints(chunk[j])
      BY <1>0, <1>1, <2>1
    <3> QED
      BY <2>1, <3>1, <3>2, <3>3 DEF LastListIs
  <2> QED
    BY <1>0, <2>2, <2>3
<1>3. ASSUME NoBreakpoints(q, Len(q))
      PROVE  /\ NoBreakpoints(rest, Len(rest))
             /\ NoBreakpoints(chunk, Len(chunk))
             /\ NoBreakpoints(q, k)
  <2>1. NoBreakpoints(q, k)
    BY <1>0, <1>3 DEF NoBreakpoints
  <2>2. NoBreakpoints(chunk, Len(chunk))
    BY <1>0, <1>1, <2>1 DEF NoBreakpoints
  <2>3. NoBreakpoints(rest, Len(rest))
    <3>1. ASSUME NEW i \in 1..Len(rest) PROVE ~IsBreakpoints(rest[i])
      <4>1. k + i \in 1..Len(q) /\ rest[i] = q[k + i]
        BY <1>0, <1>1
      <4> QED
        BY <1>3, <4>1 DEF NoBreakpoints
    <3> QED
      BY <3>1 DEF NoBreakpoints
  <2> QED
    BY <2>1, <2>2, <2>3
<1> QED
  BY <1>2, <1>3 DEF chunk, rest

\* The same when message k is cut.
LEMMA LastOfCut ==
  ASSUME NEW q \in Messages, NEW k \in 1..Len(q)
  PROVE  LET chunk == SubSeq(q, 1, k - 1)
             rest == SubSeq(q, k + 1, Len(q))
         IN  /\ \A S : LastListIs(q, S) =>
                  \/ LastListIs(rest, S)
                  \/ NoBreakpoints(rest, Len(rest)) /\ IsBreakpoints(q[k])
                  \/ NoBreakpoints(rest, Len(rest)) /\ LastListIs(chunk, S)
             /\ NoBreakpoints(q, Len(q)) =>
                  /\ NoBreakpoints(rest, Len(rest))
                  /\ NoBreakpoints(chunk, Len(chunk))
                  /\ NoBreakpoints(q, k - 1)
                  /\ ~IsBreakpoints(q[k])
<1> DEFINE chunk == SubSeq(q, 1, k - 1)
           rest == SubSeq(q, k + 1, Len(q))
<1>0. /\ Len(q) \in Nat /\ k \in Nat /\ k >= 1 /\ k <= Len(q)
      /\ Len(chunk) = k - 1
      /\ Len(rest) = Len(q) - k
  BY Split
<1>1. /\ \A i \in 1..(k - 1) : chunk[i] = q[i]
      /\ \A i \in 1..(Len(q) - k) : rest[i] = q[k + i]
  BY Split
<1> HIDE DEF chunk, rest
<1>2. ASSUME NEW S, LastListIs(q, S)
      PROVE  \/ LastListIs(rest, S)
             \/ NoBreakpoints(rest, Len(rest)) /\ IsBreakpoints(q[k])
             \/ NoBreakpoints(rest, Len(rest)) /\ LastListIs(chunk, S)
  <2>1. PICK i \in 1..Len(q) :
          /\ IsBreakpoints(q[i])
          /\ q[i].list = S
          /\ \A j \in 1..Len(q) : j > i => ~IsBreakpoints(q[j])
    BY <1>2 DEF LastListIs
  <2>2. CASE i > k
    <3>1. /\ i - k \in 1..Len(rest)
          /\ rest[i - k] = q[i]
      BY <1>0, <1>1, <2>2
    <3>2. \A j \in 1..Len(rest) : j > i - k => ~IsBreakpoints(rest[j])
      BY <1>0, <1>1, <2>1
    <3> QED
      BY <2>1, <3>1, <3>2 DEF LastListIs
  <2>3. CASE i <= k
    <3>1. NoBreakpoints(rest, Len(rest))
      BY <1>0, <1>1, <2>1, <2>3 DEF NoBreakpoints
    <3>2. CASE i = k
      BY <2>1, <3>1, <3>2
    <3>3. CASE i < k
      <4>1. i \in 1..Len(chunk) /\ chunk[i] = q[i]
        BY <1>0, <1>1, <3>3
      <4>2. \A j \in 1..Len(chunk) : j > i => ~IsBreakpoints(chunk[j])
        BY <1>0, <1>1, <2>1
      <4> QED
        BY <2>1, <3>1, <4>1, <4>2 DEF LastListIs
    <3> QED
      BY <1>0, <2>3, <3>2, <3>3
  <2> QED
    BY <1>0, <2>2, <2>3
<1>3. ASSUME NoBreakpoints(q, Len(q))
      PROVE  /\ NoBreakpoints(rest, Len(rest))
             /\ NoBreakpoints(chunk, Len(chunk))
             /\ NoBreakpoints(q, k - 1)
             /\ ~IsBreakpoints(q[k])
  BY <1>0, <1>1, <1>3 DEF NoBreakpoints
<1> QED
  BY <1>2, <1>3 DEF chunk, rest

-----------------------------------------------------------------------------
\* What NoUpdateLost says of one engine.
Safe(x) ==
  /\ Reachable(x)
  /\ HandsEmpty(x)
  /\ link[x] \in {"pending", "up"} /\ rx[x] # "done" => UpdateUnderWay(x)

\* A step that does not touch the data of engine x, nor its part in the
\* protocol except to end it.
Keeps(x) ==
  /\ toEngine'[x] = toEngine[x]
  /\ rxQueue'[x] = rxQueue[x]
  /\ rxFill'[x] = rxFill[x]
  /\ misread'[x] = misread[x]
  /\ breakpointList'[x] = breakpointList[x]
  /\ breakpoints' = breakpoints
  /\ link'[x] \in {link[x], "reset", "down"}
  /\ rx'[x] \in {rx[x], "done"}
  /\ pc'[x] \in {"start", "spawn"} => pc'[x] = pc[x] /\ rx'[x] = rx[x]
  /\ link'[x] = "up" /\ x \in clients => x \in clients'
  /\ AwaitsBreakpoints(x) => AwaitsBreakpoints(x)'

LEMMA KeepsSafe ==
  ASSUME NEW x \in Engines, Safe(x), Keeps(x)
  PROVE  Safe(x)'
<1>1. Reachable(x)'
  BY DEF Safe, Keeps, Reachable
<1>2. HandsEmpty(x)'
  BY DEF Safe, Keeps, HandsEmpty
<1>3. ASSUME link'[x] \in {"pending", "up"}, rx'[x] # "done"
      PROVE  UpdateUnderWay(x)'
  <2>1. UpdateUnderWay(x)
    BY <1>3 DEF Safe, Keeps
  <2>2. UpdateUnderWay(x) /\ Keeps(x) => UpdateUnderWay(x)'
    BY DEF UpdateUnderWay, Keeps, LastListIs, NoBreakpoints, Entries, IsBreakpoints
  <2> QED
    BY <2>1, <2>2
<1> QED
  BY <1>1, <1>2, <1>3 DEF Safe

\* An engine that sends, or goes on without sending its request, still awaits.
LEMMA AwaitsKept ==
  ASSUME TypeOK, NEW x \in Engines,
         \/ toSession'[x] = toSession[x]
         \/ \E m \in SessionMsgs : toSession'[x] = Append(toSession[x], m),
         pc[x] \in {"spawn", "request"} => pc'[x] = pc[x]
  PROVE  AwaitsBreakpoints(x) => AwaitsBreakpoints(x)'
<1>1. toSession[x] \in Seq(SessionMsgs)
  BY DEF TypeOK, WireTypeOK
<1>2. \A i \in DOMAIN toSession[x] :
        i \in DOMAIN toSession'[x] /\ toSession'[x][i] = toSession[x][i]
  BY <1>1
<1> QED
  BY <1>2 DEF AwaitsBreakpoints

\* What a send or a close of engine e does to the stream of any engine.
LEMMA StreamGrows ==
  ASSUME TypeOK, NEW e \in Engines, NEW x \in Engines,
         \/ \E m \in SessionMsgs : SendToSession(e, m)
         \/ CloseStream(e)
         \/ UNCHANGED toSession
  PROVE  \/ toSession'[x] = toSession[x]
         \/ \E m \in SessionMsgs : toSession'[x] = Append(toSession[x], m)
  BY MessageTypes DEF SendToSession, CloseStream, TypeOK, WireTypeOK

LEMMA CloseLink ==
  ASSUME TypeOK, NEW e \in Engines, NEW x \in Engines, CloseStream(e)
  PROVE  link'[x] \in {link[x], "reset"}
  BY DEF CloseStream, TypeOK, WireTypeOK

\* The steps of a script thread that leave the wire alone.
LEMMA LocalStepSafe ==
  ASSUME TypeOK, NEW e \in Engines, NEW x \in Engines, Safe(x),
         UNCHANGED <<wireVars, sessionVars, rx, rxQueue, rxFill, misread,
                     breakpointList>>,
         pc[e] \notin {"spawn", "request"},
         \E to \in ThreadStates \ {"start", "spawn"} : pc' = [pc EXCEPT ![e] = to]
  PROVE  Safe(x)'
<1>1. /\ pc'[x] = pc[x] \/ pc[x] \notin {"spawn", "request"}
      /\ pc'[x] \in {"start", "spawn"} => pc'[x] = pc[x]
  BY DEF TypeOK, ThreadTypeOK
<1>2. AwaitsBreakpoints(x) => AwaitsBreakpoints(x)'
  BY <1>1, AwaitsKept DEF wireVars
<1>3. Keeps(x)
  BY <1>1, <1>2 DEF Keeps, wireVars, sessionVars
<1> QED
  BY <1>3, KeepsSafe

\* Those that write to the wire, or close it, other than Start's own.
LEMMA SendStepSafe ==
  ASSUME TypeOK, NEW e \in Engines, NEW x \in Engines, Safe(x),
         UNCHANGED <<toEngine, sessionVars, rxQueue, rxFill, misread,
                     breakpointList>>,
         \/ rx' = rx
         \/ rx' = [rx EXCEPT ![e] = "done"],
         \/ UNCHANGED link /\ \E m \in SessionMsgs : SendToSession(e, m)
         \/ CloseStream(e)
         \/ UNCHANGED <<link, toSession>>,
         pc[e] \notin {"spawn", "request"},
         \E to \in ThreadStates \ {"start", "spawn"} : pc' = [pc EXCEPT ![e] = to]
  PROVE  Safe(x)'
<1>1. /\ pc'[x] = pc[x] \/ pc[x] \notin {"spawn", "request"}
      /\ pc'[x] \in {"start", "spawn"} => pc'[x] = pc[x] /\ rx'[x] = rx[x]
      /\ rx'[x] \in {rx[x], "done"}
  BY DEF TypeOK, ThreadTypeOK, BackendTypeOK
<1>2. AwaitsBreakpoints(x) => AwaitsBreakpoints(x)'
  BY <1>1, StreamGrows, AwaitsKept
<1>3. link'[x] \in {link[x], "reset"}
  BY CloseLink
<1>4. Keeps(x)
  BY <1>1, <1>2, <1>3 DEF Keeps, sessionVars
<1> QED
  BY <1>4, KeepsSafe

\* AsdbgBackend::Start: the connection comes with a request still to be sent.
LEMMA StartSafe ==
  ASSUME TypeOK, NEW e \in Engines, NEW x \in Engines, Safe(x),
         UNCHANGED sessionVars,
         \/ Connect(e) \/ StartReceiverThread(e) \/ SendBreakpointsRequest(e)
  PROVE  Safe(x)'
<1> USE DEF TypeOK, Goto
<1>1. CASE Connect(e)
  <2>1. CASE x = e
    <3>1. AwaitsBreakpoints(x)'
      BY <1>1, <2>1 DEF Connect, AwaitsBreakpoints, ThreadTypeOK
    <3>2. Reachable(x)'
      BY <1>1, <2>1, <3>1 DEF Connect, Reachable, WireTypeOK
    <3>3. HandsEmpty(x)'
      BY <1>1, <2>1 DEF Connect, Safe, HandsEmpty, ThreadTypeOK
    <3> QED
      BY <3>1, <3>2, <3>3 DEF Safe, UpdateUnderWay
  <2>2. CASE x # e
    <3>1. pc'[x] = pc[x] /\ link'[x] = link[x] /\ toSession' = toSession
      BY <1>1, <2>2 DEF Connect, WireTypeOK, ThreadTypeOK
    <3>2. AwaitsBreakpoints(x) => AwaitsBreakpoints(x)'
      BY <3>1, AwaitsKept
    <3> QED
      BY <1>1, <3>1, <3>2, KeepsSafe DEF Keeps, Connect, sessionVars
  <2> QED
    BY <2>1, <2>2
<1>2. CASE StartReceiverThread(e)
  <2>1. CASE x = e
    <3>1. AwaitsBreakpoints(x)'
      BY <1>2, <2>1 DEF StartReceiverThread, AwaitsBreakpoints, ThreadTypeOK
    <3>2. Reachable(x)'
      BY <1>2, <3>1 DEF StartReceiverThread, Safe, Reachable, wireVars, sessionVars
    <3>3. HandsEmpty(x)'
      BY <1>2, <2>1 DEF StartReceiverThread, Safe, HandsEmpty, ThreadTypeOK, BackendTypeOK
    <3> QED
      BY <3>1, <3>2, <3>3 DEF Safe, UpdateUnderWay
  <2>2. CASE x # e
    <3>1. pc'[x] = pc[x] /\ rx'[x] = rx[x] /\ toSession' = toSession
      BY <1>2, <2>2 DEF StartReceiverThread, BackendTypeOK, ThreadTypeOK, wireVars
    <3>2. AwaitsBreakpoints(x) => AwaitsBreakpoints(x)'
      BY <3>1, AwaitsKept
    <3> QED
      BY <1>2, <3>1, <3>2, KeepsSafe DEF Keeps, StartReceiverThread, wireVars, sessionVars
  <2> QED
    BY <2>1, <2>2
<1>3. CASE SendBreakpointsRequest(e)
  <2>1. CASE x = e /\ link[e] \in {"pending", "up"}
    <3>1. toSession'[x] = Append(toSession[x], GetBreakpointsMsg)
      BY <1>3, <2>1 DEF SendBreakpointsRequest, SendToSession, WireTypeOK
    <3>2. AwaitsBreakpoints(x)'
      <4>1. toSession[x] \in Seq(SessionMsgs)
        BY DEF WireTypeOK
      <4>2. /\ Len(toSession[x]) + 1 \in DOMAIN toSession'[x]
            /\ toSession'[x][Len(toSession[x]) + 1] = GetBreakpointsMsg
        BY <3>1, <4>1
      <4> QED
        BY <4>2 DEF AwaitsBreakpoints
    <3>3. Reachable(x)'
      BY <1>3, <3>2 DEF SendBreakpointsRequest, Safe, Reachable, sessionVars
    <3>4. HandsEmpty(x)'
      BY <1>3, <2>1 DEF SendBreakpointsRequest, Safe, HandsEmpty, ThreadTypeOK, backendVars
    <3> QED
      BY <3>2, <3>3, <3>4 DEF Safe, UpdateUnderWay
  <2>2. CASE x = e /\ link[e] \notin {"pending", "up"}
    <3>1. HandsEmpty(x)'
      BY <1>3, <2>2 DEF SendBreakpointsRequest, Safe, HandsEmpty, ThreadTypeOK, backendVars
    <3> QED
      BY <1>3, <2>2, <3>1 DEF SendBreakpointsRequest, Safe, Reachable
  <2>3. CASE x # e
    <3>1. pc'[x] = pc[x]
      BY <1>3, <2>3 DEF SendBreakpointsRequest, ThreadTypeOK
    <3>2. AwaitsBreakpoints(x) => AwaitsBreakpoints(x)'
      BY <1>3, <3>1, StreamGrows, AwaitsKept, MessageTypes DEF SendBreakpointsRequest
    <3> QED
      BY <1>3, <3>1, <3>2, KeepsSafe DEF Keeps, SendBreakpointsRequest, backendVars, sessionVars
  <2> QED
    BY <2>1, <2>2, <2>3
<1> QED
  BY <1>1, <1>2, <1>3

LEMMA ThreadSafe ==
  ASSUME TypeOK, NEW e \in Engines, NEW x \in Engines, Safe(x), Engine(e)
  PROVE  Safe(x)'
<1> USE DEF Goto
<1>1. UNCHANGED sessionVars
  BY DEF Engine
<1>2. CASE Connect(e) \/ StartReceiverThread(e) \/ SendBreakpointsRequest(e)
  BY <1>1, <1>2, StartSafe
<1>3. CASE ConnectFail(e)
  BY <1>1, <1>3, LocalStepSafe DEF ConnectFail, backendVars, ThreadStates
<1>4. CASE BuildScript(e)
  BY <1>1, <1>4, LocalStepSafe DEF BuildScript, backendVars, ThreadStates
<1>5. CASE BuildFail(e)
  BY <1>1, <1>5, LocalStepSafe DEF BuildFail, backendVars, ThreadStates
<1>6. CASE ScriptEnds(e)
  BY <1>1, <1>6, LocalStepSafe DEF ScriptEnds, backendVars, ThreadStates
<1>7. CASE ExecuteLine(e)
  BY <1>1, <1>7, LocalStepSafe DEF ExecuteLine, backendVars, ThreadStates
<1>8. CASE GetAbsolutePath(e)
  BY <1>1, <1>8, LocalStepSafe DEF GetAbsolutePath, backendVars, ThreadStates
<1>9. CASE FindBreakpoint(e)
  BY <1>1, <1>9, LocalStepSafe DEF FindBreakpoint, backendVars, ThreadStates
<1>10. CASE FindNothing(e)
  BY <1>1, <1>10, LocalStepSafe DEF FindNothing, backendVars, ThreadStates
<1>11. CASE LoadCommand(e)
  BY <1>1, <1>11, LocalStepSafe DEF LoadCommand, backendVars, ThreadStates
<1>12. CASE StoreNothing(e)
  BY <1>1, <1>12, LocalStepSafe DEF StoreNothing, backendVars, ThreadStates
<1>13. CASE SendStop(e)
  <2>1. \A loc \in Readable(e, target[e]) : StopMsg(loc) \in SessionMsgs
    BY MessageTypes DEF Readable, TypeOK, BackendTypeOK, ThreadTypeOK, Location, ReadBreakpoint
  <2> QED
    BY <1>1, <1>13, <2>1, SendStepSafe DEF SendStop, ThreadStates
<1>14. CASE SendVariables(e)
  BY <1>1, <1>14, SendStepSafe, MessageTypes DEF SendVariables, backendVars, ThreadStates
<1>15. CASE Shutdown(e)
  BY <1>1, <1>15, SendStepSafe, MessageTypes DEF Shutdown, backendVars, ThreadStates
<1>16. CASE ProcessExit(e)
  BY <1>1, <1>16, SendStepSafe, MessageTypes DEF ProcessExit, backendVars, ThreadStates
<1>17. CASE Crash(e)
  BY <1>1, <1>17, SendStepSafe, MessageTypes DEF Crash, backendVars, ThreadStates
<1> QED
  BY <1>2, <1>3, <1>4, <1>5, <1>6, <1>7, <1>8, <1>9, <1>10, <1>11, <1>12, <1>13, <1>14, <1>15, <1>16, <1>17
     DEF Engine, Start, ScriptThread

-----------------------------------------------------------------------------
\* The receiver of engine e leaves the other engines alone.
LEMMA OtherReceiverSafe ==
  ASSUME TypeOK, NEW e \in Engines, NEW x \in Engines \ {e}, Safe(x),
         ReceiverThread(e)
  PROVE  Safe(x)'
<1>1. /\ link' = link /\ toSession' = toSession /\ pc' = pc
      /\ breakpoints' = breakpoints /\ clients' = clients
  BY DEF ReceiverThread, threadVars, sessionVars, wireVars, Receiver,
         CheckRunning, Receive, ReceiveCut, Disconnected, ChunkDone,
         ClearBreakpoints, PushBreakpoint, EndBreakpoints, ParseCommand,
         StrayHeader, UnknownMessage
<1>2. /\ toEngine'[x] = toEngine[x]
      /\ rxQueue'[x] = rxQueue[x]
      /\ rxFill'[x] = rxFill[x]
      /\ misread'[x] = misread[x]
      /\ breakpointList'[x] = breakpointList[x]
      /\ rx'[x] = rx[x]
  <2>1. CASE ReceiveCut(e)
    <3>1. PICK k \in 1..Len(toEngine[e]), reading \in Seq(EngineMsgs), rest \in EngineMsgs :
            CutInto(e, k, reading, rest)
      BY <2>1, CutParts
    <3>2. UNCHANGED <<rxFill, breakpointList>> /\ rx' = [rx EXCEPT ![e] = "parse"]
      BY <2>1 DEF ReceiveCut
    <3>3. /\ toEngine'[x] = toEngine[x]
          /\ rxQueue'[x] = rxQueue[x]
          /\ misread'[x] = misread[x]
      BY <3>1 DEF CutInto, TypeOK, WireTypeOK, BackendTypeOK
    <3> QED
      BY <3>2, <3>3 DEF TypeOK, BackendTypeOK
  <2>2. CASE StrayHeader(e)
    BY <2>2 DEF StrayHeader, wireVars, TypeOK, BackendTypeOK
  <2>3. CASE Receive(e)
    BY <2>3 DEF Receive, TypeOK, WireTypeOK, BackendTypeOK
  <2>4. CASE ClearBreakpoints(e) \/ ParseCommand(e) \/ UnknownMessage(e)
    BY <2>4 DEF ClearBreakpoints, ParseCommand, UnknownMessage, Parsing, wireVars,
       TypeOK, BackendTypeOK
  <2>5. CASE \/ CheckRunning(e) \/ Disconnected(e) \/ ChunkDone(e)
             \/ PushBreakpoint(e) \/ EndBreakpoints(e)
    BY <2>5 DEF CheckRunning, Disconnected, ChunkDone, PushBreakpoint, EndBreakpoints,
       wireVars, TypeOK, BackendTypeOK
  <2> QED
    BY <2>1, <2>2, <2>3, <2>4, <2>5 DEF ReceiverThread, Receiver
<1>3. AwaitsBreakpoints(x) => AwaitsBreakpoints(x)'
  BY <1>1, AwaitsKept
<1> QED
  BY <1>1, <1>2, <1>3, KeepsSafe DEF Keeps

\* A step of its own receiver moves the last list on, from the stream into the
\* chunk and from there into the list.
LEMMA OwnReceiverSafe ==
  ASSUME TypeOK, NEW e \in Engines, Safe(e), ReceiverThread(e)
  PROVE  Safe(e)'
<1> DEFINE current == Entries(breakpoints)
           q == toEngine[e]
<1>1. /\ link' = link /\ toSession' = toSession /\ pc' = pc
      /\ breakpoints' = breakpoints /\ clients' = clients
  BY DEF ReceiverThread, threadVars, sessionVars, wireVars, Receiver,
         CheckRunning, Receive, ReceiveCut, Disconnected, ChunkDone,
         ClearBreakpoints, PushBreakpoint, EndBreakpoints, ParseCommand,
         StrayHeader, UnknownMessage
<1>2. AwaitsBreakpoints(e) => AwaitsBreakpoints(e)'
  BY <1>1, AwaitsKept
<1>3. Reachable(e)'
  BY <1>1, <1>2 DEF Safe, Reachable
<1>4. rx[e] # "off" /\ pc[e] \notin {"start", "spawn"}
  BY DEF ReceiverThread, Receiver, CheckRunning, Receive, ReceiveCut,
         Receivable, Disconnected, ChunkDone, ClearBreakpoints, PushBreakpoint,
         EndBreakpoints, ParseCommand, StrayHeader, UnknownMessage, Parsing, Safe, HandsEmpty
<1>5. Entries(breakpoints)' = current
  BY <1>1 DEF Entries
<1>6. /\ toEngine \in [Engines -> Messages]
      /\ rxQueue \in [Engines -> Messages]
      /\ rx \in [Engines -> RxStates]
      /\ breakpointList \in [Engines -> SUBSET ReadBreakpoint]
      /\ rxFill \in [Engines -> SUBSET ReadBreakpoint]
      /\ misread \in [Engines -> BOOLEAN]
  BY DEF TypeOK, WireTypeOK, BackendTypeOK, Messages
<1>7. CASE CheckRunning(e) \/ Disconnected(e) \/ ChunkDone(e) \/ EndBreakpoints(e)
  <2>1. /\ toEngine' = toEngine /\ rxQueue' = rxQueue /\ rxFill' = rxFill
        /\ misread' = misread /\ breakpointList' = breakpointList
    BY <1>7 DEF CheckRunning, Disconnected, ChunkDone, EndBreakpoints, wireVars
  <2>2. HandsEmpty(e)'
    BY <1>1, <1>4, <1>6, <1>7, <2>1 DEF CheckRunning, Disconnected, ChunkDone,
       EndBreakpoints, Safe, HandsEmpty, RxStates
  <2>3. rx[e] # "done"
    BY <1>7 DEF CheckRunning, Disconnected, ChunkDone, EndBreakpoints
  <2>4. UpdateUnderWay(e) => UpdateUnderWay(e)'
    BY <1>1, <1>2, <2>1 DEF UpdateUnderWay, LastListIs, NoBreakpoints,
       IsBreakpoints, Entries
  <2> QED
    BY <1>1, <1>3, <2>2, <2>3, <2>4 DEF Safe
<1>8. CASE Receive(e)
  <2>1. PICK k \in 1..Len(q) :
          /\ rxQueue' = [rxQueue EXCEPT ![e] = SubSeq(q, 1, k)]
          /\ toEngine' = [toEngine EXCEPT ![e] = SubSeq(@, k + 1, Len(@))]
          /\ misread' = [misread EXCEPT ![e] = @ /\ NoBreakpoints(q, k)]
    BY <1>8 DEF Receive
  <2> DEFINE chunk == SubSeq(q, 1, k)
             rest == SubSeq(q, k + 1, Len(q))
  <2>2. /\ rx[e] = "recv" /\ rx'[e] = "parse"
        /\ rxFill' = rxFill /\ breakpointList' = breakpointList
    BY <1>6, <1>8 DEF Receive, Receivable
  <2>3. rxQueue'[e] = chunk /\ toEngine'[e] = rest
    BY <1>6, <2>1
  <2>4. misread'[e] = (misread[e] /\ NoBreakpoints(q, k))
    BY <1>6, <2>1
  <2>5. q \in Messages
    BY <1>6
  <2>6. /\ LastListIs(q, current) =>
             \/ LastListIs(rest, current)
             \/ NoBreakpoints(rest, Len(rest)) /\ LastListIs(chunk, current)
        /\ NoBreakpoints(q, Len(q)) =>
             /\ NoBreakpoints(rest, Len(rest))
             /\ NoBreakpoints(chunk, Len(chunk))
             /\ NoBreakpoints(q, k)
    BY <2>5, LastOfSplit
  <2>7. HandsEmpty(e)'
    BY <1>1, <1>4, <2>2 DEF Safe, HandsEmpty
  <2>8. rxQueue[e] = <<>> /\ ~LastListIs(rxQueue[e], current)
    BY <2>2 DEF Safe, HandsEmpty, LastListIs
  <2>9. ASSUME UpdateUnderWay(e) PROVE UpdateUnderWay(e)'
    <3>1. \/ AwaitsBreakpoints(e)'
          \/ LastListIs(rest, current)
          \/ /\ NoBreakpoints(rest, Len(rest))
             /\ \/ misread'[e]
                \/ LastListIs(chunk, current)
                \/ /\ NoBreakpoints(chunk, Len(chunk))
                   /\ breakpointList[e] \cup rxFill[e] = current
      <4>1. CASE AwaitsBreakpoints(e)
        BY <1>2, <4>1
      <4>2. CASE LastListIs(q, current)
        BY <2>6, <4>2
      <4>3. CASE /\ NoBreakpoints(q, Len(q))
                 /\ \/ misread[e]
                    \/ breakpointList[e] \cup rxFill[e] = current
        BY <2>4, <2>6, <4>3
      <4> QED
        BY <2>8, <2>9, <4>1, <4>2, <4>3 DEF UpdateUnderWay
    <3> QED
      BY <1>5, <2>2, <2>3, <3>1 DEF UpdateUnderWay, LastListIs, NoBreakpoints, IsBreakpoints
  <2> QED
    BY <1>1, <1>3, <2>2, <2>7, <2>9 DEF Safe
<1>9. CASE ReceiveCut(e)
  <2>1. PICK k \in 1..Len(q), reading \in Messages, rest \in EngineMsgs :
          CutInto(e, k, reading, rest)
    BY <1>9, CutParts DEF Messages
  <2> DEFINE chunk == SubSeq(q, 1, k - 1)
             behind == SubSeq(q, k + 1, Len(q))
  <2>2. /\ rx[e] = "recv" /\ rx'[e] = "parse"
        /\ rxFill' = rxFill /\ breakpointList' = breakpointList
    BY <1>6, <1>9 DEF ReceiveCut, Receivable
  <2>3. toEngine'[e] = <<rest>> \o behind /\ rxQueue'[e] = chunk \o reading
    BY <1>6, <2>1 DEF CutInto
  <2>4. misread'[e] = (IsBreakpoints(q[k]) \/ (misread[e] /\ NoBreakpoints(q, k - 1)))
    BY <1>6, <2>1 DEF CutInto
  <2>5. q \in Messages /\ chunk \in Messages /\ behind \in Messages /\ q[k] \in EngineMsgs
    <3>1. q \in Seq(EngineMsgs)
      BY <1>6 DEF Messages
    <3> QED
      BY <3>1, SubSeqType, ElementOfSeq DEF Messages
  <2>6. /\ LastListIs(q, current) =>
             \/ LastListIs(behind, current)
             \/ NoBreakpoints(behind, Len(behind)) /\ IsBreakpoints(q[k])
             \/ NoBreakpoints(behind, Len(behind)) /\ LastListIs(chunk, current)
        /\ NoBreakpoints(q, Len(q)) =>
             /\ NoBreakpoints(behind, Len(behind))
             /\ NoBreakpoints(chunk, Len(chunk))
             /\ NoBreakpoints(q, k - 1)
             /\ ~IsBreakpoints(q[k])
    BY <2>5, LastOfCut
  <2>7. HandsEmpty(e)'
    BY <1>1, <1>4, <2>2 DEF Safe, HandsEmpty
  <2>8. rxQueue[e] = <<>> /\ ~LastListIs(rxQueue[e], current)
    BY <2>2 DEF Safe, HandsEmpty, LastListIs
  <2> HIDE DEF chunk, behind
  <2>9. ASSUME ~IsBreakpoints(q[k])
        PROVE  /\ \A S : LastListIs(chunk, S) => LastListIs(rxQueue'[e], S)
               /\ NoBreakpoints(chunk, Len(chunk)) =>
                    NoBreakpoints(rxQueue'[e], Len(rxQueue'[e]))
    <3>1. reading = <<>> \/ reading = <<q[k]>>
      BY <2>1, <2>9 DEF CutInto
    <3>2. chunk \o <<>> = chunk /\ chunk \o <<q[k]>> = Append(chunk, q[k])
      BY <2>5, ConcatEmptySeq, AppendIsConcat DEF Messages
    <3>3. rxQueue'[e] = chunk \/ rxQueue'[e] = Append(chunk, q[k])
      BY <2>3, <3>1, <3>2
    <3> QED
      BY <2>5, <2>9, <3>3, LastOfAppend
  <2>10. /\ LastListIs(behind, current) => LastListIs(toEngine'[e], current)
         /\ NoBreakpoints(behind, Len(behind)) =>
              NoBreakpoints(toEngine'[e], Len(toEngine'[e]))
    <3>1. ~IsBreakpoints(rest)
      BY <2>1 DEF CutInto, IsBreakpoints
    <3> QED
      BY <2>3, <2>5, <3>1, LastBehindRest
  <2>11. ASSUME UpdateUnderWay(e) PROVE UpdateUnderWay(e)'
    <3>1. \/ AwaitsBreakpoints(e)'
          \/ LastListIs(toEngine'[e], current)
          \/ /\ NoBreakpoints(toEngine'[e], Len(toEngine'[e]))
             /\ \/ misread'[e]
                \/ LastListIs(rxQueue'[e], current)
                \/ /\ NoBreakpoints(rxQueue'[e], Len(rxQueue'[e]))
                   /\ breakpointList[e] \cup rxFill[e] = current
      <4>1. CASE AwaitsBreakpoints(e)
        BY <1>2, <4>1
      <4>2. CASE LastListIs(q, current)
        BY <2>4, <2>6, <2>9, <2>10, <4>2
      <4>3. CASE /\ NoBreakpoints(q, Len(q))
                 /\ \/ misread[e]
                    \/ breakpointList[e] \cup rxFill[e] = current
        BY <2>4, <2>6, <2>9, <2>10, <4>3
      <4> QED
        BY <2>8, <2>11, <4>1, <4>2, <4>3 DEF UpdateUnderWay
    <3> QED
      BY <1>5, <2>2, <3>1 DEF UpdateUnderWay, LastListIs, NoBreakpoints, IsBreakpoints
  <2> QED
    BY <1>1, <1>3, <2>2, <2>7, <2>11 DEF Safe
<1>10. CASE ClearBreakpoints(e)
  <2>1. /\ rx[e] = "parse" /\ rx'[e] = "fill"
        /\ rxQueue[e] # <<>> /\ IsBreakpoints(Head(rxQueue[e]))
        /\ rxQueue'[e] = Tail(rxQueue[e])
        /\ rxFill'[e] = Head(rxQueue[e]).list
        /\ breakpointList'[e] = {}
        /\ toEngine' = toEngine /\ misread' = misread
    BY <1>6, <1>10 DEF ClearBreakpoints, Parsing, IsBreakpoints, wireVars
  <2>2. HandsEmpty(e)'
    BY <1>1, <1>4, <2>1 DEF HandsEmpty
  <2>3. ASSUME UpdateUnderWay(e) PROVE UpdateUnderWay(e)'
    <3>1. rxQueue[e] \in Messages
      BY <1>6
    <3>2. /\ LastListIs(rxQueue[e], current) =>
               \/ LastListIs(Tail(rxQueue[e]), current)
               \/ /\ Head(rxQueue[e]).list = current
                  /\ NoBreakpoints(Tail(rxQueue[e]), Len(Tail(rxQueue[e])))
          /\ ~NoBreakpoints(rxQueue[e], Len(rxQueue[e]))
      BY <2>1, <3>1, LastOfTail
    <3>3. \/ AwaitsBreakpoints(e)'
          \/ LastListIs(q, current)
          \/ /\ NoBreakpoints(q, Len(q))
             /\ \/ misread[e]
                \/ LastListIs(rxQueue'[e], current)
                \/ /\ NoBreakpoints(rxQueue'[e], Len(rxQueue'[e]))
                   /\ breakpointList'[e] \cup rxFill'[e] = current
      BY <1>2, <2>1, <2>3, <3>2 DEF UpdateUnderWay
    <3>4. toEngine' = toEngine /\ misread' = misread
      BY <2>1
    <3> QED
      BY <1>5, <3>3, <3>4 DEF UpdateUnderWay, LastListIs, NoBreakpoints, IsBreakpoints
  <2> QED
    BY <1>1, <1>3, <2>1, <2>2, <2>3 DEF Safe
<1>11. CASE PushBreakpoint(e)
  <2>1. /\ rx[e] = "fill" /\ rx' = rx /\ rxQueue' = rxQueue
        /\ toEngine' = toEngine /\ misread' = misread
        /\ breakpointList'[e] \cup rxFill'[e] = breakpointList[e] \cup rxFill[e]
    BY <1>6, <1>11 DEF PushBreakpoint, wireVars
  <2>2. HandsEmpty(e)'
    BY <1>1, <1>4, <2>1 DEF HandsEmpty
  <2>3. UpdateUnderWay(e) => UpdateUnderWay(e)'
    BY <1>2, <1>5, <2>1 DEF UpdateUnderWay, LastListIs, NoBreakpoints, IsBreakpoints
  <2> QED
    BY <1>1, <1>3, <2>1, <2>2, <2>3 DEF Safe
<1>12. CASE ParseCommand(e) \/ UnknownMessage(e)
  <2>1. /\ rx[e] = "parse" /\ rx' = rx
        /\ rxQueue[e] # <<>> /\ ~IsBreakpoints(Head(rxQueue[e]))
        /\ rxQueue'[e] = Tail(rxQueue[e])
        /\ rxFill' = rxFill /\ breakpointList' = breakpointList
        /\ toEngine' = toEngine /\ misread' = misread
    BY <1>6, <1>12 DEF ParseCommand, UnknownMessage, Parsing, IsBreakpoints, wireVars
  <2>2. HandsEmpty(e)'
    BY <1>1, <1>4, <2>1 DEF Safe, HandsEmpty
  <2>3. rxQueue[e] \in Messages
    BY <1>6
  <2>4. /\ LastListIs(rxQueue[e], current) => LastListIs(rxQueue'[e], current)
        /\ NoBreakpoints(rxQueue[e], Len(rxQueue[e])) =>
             NoBreakpoints(rxQueue'[e], Len(rxQueue'[e]))
    BY <2>1, <2>3, LastOfTail
  <2>5. ASSUME UpdateUnderWay(e) PROVE UpdateUnderWay(e)'
    <3>1. \/ AwaitsBreakpoints(e)'
          \/ LastListIs(q, current)
          \/ /\ NoBreakpoints(q, Len(q))
             /\ \/ misread[e]
                \/ LastListIs(rxQueue'[e], current)
                \/ /\ NoBreakpoints(rxQueue'[e], Len(rxQueue'[e]))
                   /\ breakpointList[e] \cup rxFill[e] = current
      BY <1>2, <2>4, <2>5 DEF UpdateUnderWay
    <3> QED
      BY <1>5, <2>1, <3>1 DEF UpdateUnderWay, LastListIs, NoBreakpoints, IsBreakpoints
  <2> QED
    BY <1>1, <1>3, <2>1, <2>2, <2>5 DEF Safe
<1>13. CASE StrayHeader(e)
  <2> DEFINE tail == Tail(rxQueue[e])
  <2>1. PICK r \in BehindHeader(tail) :
          /\ rxQueue' = [rxQueue EXCEPT ![e] = r.left]
          /\ misread' = [misread EXCEPT ![e] = @ \/ NoBreakpoints(r.left, Len(r.left))]
    BY <1>13 DEF StrayHeader
  <2>2. /\ rx[e] = "parse" /\ rx'[e] = "fill"
        /\ rxQueue[e] # <<>> /\ ~IsBreakpoints(Head(rxQueue[e]))
        /\ toEngine' = toEngine
    BY <1>6, <1>13 DEF StrayHeader, IsBreakpoints, wireVars
  <2>3. /\ rxQueue'[e] = r.left
        /\ misread'[e] = (misread[e] \/ NoBreakpoints(r.left, Len(r.left)))
    BY <1>6, <2>1
  <2>4. HandsEmpty(e)'
    BY <1>1, <1>4, <2>2 DEF HandsEmpty
  <2>5. rxQueue[e] \in Messages /\ tail \in Messages
    BY <1>6, <2>2, HeadTailProperties DEF Messages
  <2>6. /\ LastListIs(rxQueue[e], current) => LastListIs(tail, current)
        /\ NoBreakpoints(rxQueue[e], Len(rxQueue[e])) => NoBreakpoints(tail, Len(tail))
    BY <2>2, <2>5, LastOfTail
  <2> HIDE DEF tail
  <2>7. \/ r.left = <<>> /\ NoBreakpoints(tail, Len(tail))
        \/ \E i \in 1..Len(tail) : r.left = SubSeq(tail, i + 1, Len(tail))
    BY <2>1, <2>5, BehindHeaderType DEF Messages
  <2>8. /\ LastListIs(tail, current) =>
             LastListIs(r.left, current) \/ NoBreakpoints(r.left, Len(r.left))
        /\ NoBreakpoints(tail, Len(tail)) => NoBreakpoints(r.left, Len(r.left))
    <3>1. CASE r.left = <<>>
      BY <3>1 DEF NoBreakpoints
    <3>2. CASE r.left # <<>>
      BY <2>5, <2>7, <3>2, LastOfSplit
    <3> QED
      BY <3>1, <3>2
  <2>9. ASSUME UpdateUnderWay(e) PROVE UpdateUnderWay(e)'
    <3>1. \/ AwaitsBreakpoints(e)'
          \/ LastListIs(q, current)
          \/ /\ NoBreakpoints(q, Len(q))
             /\ misread'[e] \/ LastListIs(rxQueue'[e], current)
      BY <1>2, <2>3, <2>6, <2>8, <2>9 DEF UpdateUnderWay
    <3> QED
      BY <1>5, <2>2, <3>1 DEF UpdateUnderWay, LastListIs, NoBreakpoints, IsBreakpoints
  <2> QED
    BY <1>1, <1>3, <2>2, <2>4, <2>9 DEF Safe
<1> QED
  BY <1>7, <1>8, <1>9, <1>10, <1>11, <1>12, <1>13 DEF ReceiverThread, Receiver
-----------------------------------------------------------------------------
\* A callback of the socket of engine e.
LEMMA AdapterSafe ==
  ASSUME TypeOK, NEW e \in Engines, NEW x \in Engines, Safe(x), Adapter(e)
  PROVE  Safe(x)'
<1>1. /\ UNCHANGED <<engineVars, breakpoints>>
      /\ toSession \in [Engines -> Seq(SessionMsgs)]
      /\ link \in [Engines -> LinkStates]
      /\ toEngine \in [Engines -> Messages]
  BY DEF Adapter, Socket, OnConnection, HandleGetBreakpoints, HandleStop,
         HandleVariables, OnEnd, sessionVars, TypeOK, WireTypeOK, Messages
<1>2. UNCHANGED <<pc, rx, rxQueue, rxFill, misread, breakpointList, breakpoints>>
  BY <1>1 DEF engineVars, backendVars, threadVars
<1>3. CASE OnConnection(e)
  <2>1. /\ UNCHANGED <<toSession, toEngine>>
        /\ link'[x] = IF x = e THEN "up" ELSE link[x]
        /\ link[e] = "pending"
        /\ clients' = clients \cup {e}
    BY <1>1, <1>3 DEF OnConnection
  <2>2. AwaitsBreakpoints(x) <=> AwaitsBreakpoints(x)'
    BY <1>2, <2>1 DEF AwaitsBreakpoints
  <2>3. Reachable(x)'
    BY <2>1, <2>2 DEF Safe, Reachable
  <2>4. HandsEmpty(x)'
    BY <1>2 DEF Safe, HandsEmpty
  <2>5. UpdateUnderWay(x) => UpdateUnderWay(x)'
    BY SMTT(30), <1>2, <2>1, <2>2 DEF UpdateUnderWay, LastListIs, NoBreakpoints,
       IsBreakpoints, Entries
  <2> QED
    BY <1>2, <2>1, <2>3, <2>4, <2>5 DEF Safe
<1>4. CASE HandleGetBreakpoints(e) /\ x = e
  <2>1. UNCHANGED <<link, clients>> /\ link[e] \in {"up", "reset"}
    BY <1>4 DEF HandleGetBreakpoints, Handling, sessionVars
  <2>2. HandsEmpty(x)'
    BY <1>2 DEF Safe, HandsEmpty
  <2>3. Reachable(x)'
    BY <1>4, <2>1 DEF Safe, Reachable
  <2>4. ASSUME link[e] = "up" PROVE UpdateUnderWay(x)'
    <3> DEFINE m == BreakpointsMsg(Entries(breakpoints))
    <3>1. m \in EngineMsgs /\ IsBreakpoints(m) /\ m.list = Entries(breakpoints)
      BY EntriesType DEF TypeOK, SessionTypeOK, EngineMsgs, BreakpointsMsg, IsBreakpoints
    <3>2. toEngine'[x] = Append(toEngine[x], m)
      BY <1>1, <1>4, <2>4 DEF HandleGetBreakpoints, WriteToEngines
    <3>3. LastListIs(toEngine'[x], Entries(breakpoints))
      BY <1>1, <3>1, <3>2, LastOfAppend
    <3> QED
      BY <1>2, <3>3 DEF UpdateUnderWay, LastListIs, IsBreakpoints, Entries
  <2> QED
    BY <1>4, <2>1, <2>2, <2>3, <2>4 DEF Safe
<1>5. CASE HandleGetBreakpoints(e) /\ x # e
  <2>1. /\ UNCHANGED <<link, clients>>
        /\ toSession'[x] = toSession[x]
        /\ toEngine'[x] = toEngine[x]
    BY <1>1, <1>5 DEF HandleGetBreakpoints, Handling, sessionVars, WriteToEngines
  <2>2. AwaitsBreakpoints(x) => AwaitsBreakpoints(x)'
    BY <1>2, <2>1 DEF AwaitsBreakpoints
  <2> QED
    BY <1>2, <2>1, <2>2, KeepsSafe DEF Keeps
<1>6. CASE HandleStop(e) \/ HandleVariables(e) \/ OnEnd(e)
  <2>1. /\ toEngine' = toEngine
        /\ link'[x] \in {link[x], "down"}
        /\ link'[x] = "up" /\ x \in clients => x \in clients'
        /\ toSession[e] # <<>>
        /\ Head(toSession[e]).type # "GET_BREAKPOINTS"
        /\ toSession' = [toSession EXCEPT ![e] = Tail(@)]
    BY <1>1, <1>6 DEF HandleStop, HandleVariables, OnEnd, Handling
  <2>2. ASSUME NEW i \in DOMAIN toSession[x], toSession[x][i] = GetBreakpointsMsg
        PROVE  \E j \in DOMAIN toSession'[x] : toSession'[x][j] = GetBreakpointsMsg
    <3>1. CASE x = e
      <4>1. i # 1
        BY <1>1, <2>1, <2>2, <3>1 DEF GetBreakpointsMsg
      <4>2. /\ i - 1 \in DOMAIN Tail(toSession[e])
            /\ Tail(toSession[e])[i - 1] = toSession[e][i]
        BY <1>1, <2>1, <3>1, <4>1
      <4> QED
        BY <1>1, <2>1, <2>2, <3>1, <4>2
    <3>2. CASE x # e
      BY <1>1, <2>1, <2>2, <3>2
    <3> QED
      BY <3>1, <3>2
  <2>3. AwaitsBreakpoints(x) => AwaitsBreakpoints(x)'
    BY <1>2, <2>2 DEF AwaitsBreakpoints
  <2> QED
    BY <1>2, <2>1, <2>3, KeepsSafe DEF Keeps
<1> QED
  BY <1>3, <1>4, <1>5, <1>6 DEF Adapter, Socket

\* A request of VS Code: a change reaches every client, and an engine that is
\* not a client yet will ask for it.
LEMMA AdapterRequestSafe ==
  ASSUME TypeOK, NEW x \in Engines, Safe(x), AdapterRequest
  PROVE  Safe(x)'
<1>1. /\ UNCHANGED <<pc, rx, rxQueue, rxFill, misread, breakpointList>>
      /\ UNCHANGED <<link, toSession, clients>>
      /\ toEngine \in [Engines -> Messages]
  BY DEF AdapterRequest, Initialize, Dap, SetBreakPointsRequest,
         ControlRequest, wireVars, engineVars, backendVars, threadVars, TypeOK,
         WireTypeOK, Messages
<1>2. AwaitsBreakpoints(x) <=> AwaitsBreakpoints(x)'
  BY <1>1 DEF AwaitsBreakpoints
<1>3. Reachable(x)'
  BY <1>1, <1>2 DEF Safe, Reachable
<1>4. HandsEmpty(x)'
  BY <1>1 DEF Safe, HandsEmpty
<1>5. ASSUME UNCHANGED <<toEngine, breakpoints>> PROVE Safe(x)'
  BY <1>1, <1>2, <1>5, KeepsSafe DEF Keeps
<1>6. CASE Initialize
  BY <1>5, <1>6 DEF Initialize, wireVars
<1>7. CASE SetBreakPointsRequest
  <2> DEFINE r == Head(requests)
             set == [breakpoints EXCEPT ![r.path] = r.lines]
             m == BreakpointsMsg(Entries(set))
  <2>1. CASE IsScriptFile(r.path)
    <3>1. breakpoints' = set /\ WriteToEngines(clients, m)
      BY <1>7, <2>1, Zenon DEF SetBreakPointsRequest
    <3>2. m \in EngineMsgs /\ IsBreakpoints(m) /\ m.list = Entries(set)
      <4>1. r \in Requests /\ r.type = "setBreakpoints"
        BY <1>7, HeadTailProperties DEF SetBreakPointsRequest, Requested, TypeOK,
           SessionTypeOK
      <4>2. set \in [Paths -> SUBSET Lines]
        BY <4>1 DEF Requests, TypeOK, SessionTypeOK
      <4> QED
        BY <4>2, EntriesType, MessageTypes DEF BreakpointsMsg, IsBreakpoints
    <3>3. ASSUME link[x] \in {"pending", "up"} PROVE UpdateUnderWay(x)'
      <4>1. CASE link[x] = "pending"
        BY <1>2, <4>1 DEF Safe, Reachable, UpdateUnderWay
      <4>2. CASE link[x] = "up"
        <5>1. x \in clients
          BY <4>2 DEF Safe, Reachable
        <5>2. toEngine'[x] = Append(toEngine[x], m)
          BY <3>1, <4>2, <5>1 DEF WriteToEngines
        <5>3. LastListIs(toEngine'[x], Entries(set))
          BY <1>1, <3>2, <5>2, LastOfAppend
        <5> QED
          BY <3>1, <5>3 DEF UpdateUnderWay, LastListIs, IsBreakpoints, Entries
      <4> QED
        BY <3>3, <4>1, <4>2
    <3> QED
      BY <1>1, <1>3, <1>4, <3>3 DEF Safe
  <2>2. CASE ~IsScriptFile(r.path)
    <3>1. UNCHANGED <<breakpoints, toEngine, events>>
      BY <1>7, <2>2, Zenon DEF SetBreakPointsRequest
    <3> QED
      BY <1>5, <3>1
  <2> QED
    BY <2>1, <2>2
<1>8. CASE ControlRequest
  <2> DEFINE m == CommandMsg(Head(requests).command)
  <2>1. WriteToEngines(clients, m) /\ breakpoints' = breakpoints
    BY <1>8 DEF ControlRequest
  <2>2. m \in EngineMsgs /\ ~IsBreakpoints(m)
    <3>1. Head(requests) \in Requests /\ Head(requests).type = "control"
      BY <1>8, HeadTailProperties DEF ControlRequest, Requested, TypeOK, SessionTypeOK
    <3> QED
      BY <3>1 DEF Requests, EngineMsgs, CommandMsg, IsBreakpoints
  <2>3. toEngine'[x] \in {toEngine[x], Append(toEngine[x], m)}
    BY <2>1 DEF WriteToEngines
  <2>4. CASE toEngine'[x] = toEngine[x]
    BY <1>1, <1>2, <2>1, <2>4, KeepsSafe DEF Keeps
  <2>5. CASE toEngine'[x] = Append(toEngine[x], m)
    <3>1. /\ \A S : LastListIs(toEngine[x], S) => LastListIs(toEngine'[x], S)
          /\ NoBreakpoints(toEngine[x], Len(toEngine[x])) =>
               NoBreakpoints(toEngine'[x], Len(toEngine'[x]))
      BY <1>1, <2>2, <2>5, LastOfAppend
    <3>2. ASSUME UpdateUnderWay(x) PROVE UpdateUnderWay(x)'
      <4> DEFINE current == Entries(breakpoints)
      <4>1. \/ AwaitsBreakpoints(x)'
            \/ LastListIs(toEngine'[x], current)
            \/ /\ NoBreakpoints(toEngine'[x], Len(toEngine'[x]))
               /\ \/ misread[x]
                  \/ LastListIs(rxQueue[x], current)
                  \/ /\ NoBreakpoints(rxQueue[x], Len(rxQueue[x]))
                     /\ breakpointList[x] \cup rxFill[x] = current
        BY <1>2, <3>1, <3>2 DEF UpdateUnderWay
      <4>2. Entries(breakpoints)' = current
        BY <2>1 DEF Entries
      <4> QED
        BY <1>1, <4>1, <4>2 DEF UpdateUnderWay, LastListIs, NoBreakpoints, IsBreakpoints
    <3> QED
      BY <1>1, <1>3, <1>4, <3>2 DEF Safe
  <2> QED
    BY <2>3, <2>4, <2>5
<1> QED
  BY <1>6, <1>7, <1>8 DEF AdapterRequest, Dap

\* VS Code and its user act on the adapter only; a host that exits takes every
\* connection with it.
LEMMA EnvironmentSafe ==
  ASSUME TypeOK, NEW x \in Engines, Safe(x),
         User \/ VSCode \/ HostExit \/ UNCHANGED vars
  PROVE  Safe(x)'
<1>1. CASE User \/ VSCode \/ UNCHANGED vars
  <2>1. UNCHANGED <<wireVars, engineVars, breakpoints, clients>>
    BY <1>1 DEF User, VSCode, SetBreakpoints, Press, ReadEvent, vars, sessionVars
  <2>2. AwaitsBreakpoints(x) => AwaitsBreakpoints(x)'
    BY <2>1 DEF AwaitsBreakpoints, wireVars, engineVars, threadVars
  <2> QED
    BY <2>1, <2>2, KeepsSafe DEF Keeps, wireVars, engineVars, backendVars, threadVars
<1>2. CASE HostExit
  <2>1. link'[x] \in {"none", "down"} /\ UNCHANGED engineVars
    BY <1>2 DEF HostExit
  <2>2. HandsEmpty(x)'
    BY <2>1 DEF Safe, HandsEmpty, engineVars, backendVars, threadVars
  <2> QED
    BY <2>1, <2>2 DEF Safe, Reachable
<1> QED
  BY <1>1, <1>2

-----------------------------------------------------------------------------
LEMMA InitSafe ==
  ASSUME Init, NEW x \in Engines
  PROVE  Safe(x)
<1>1. /\ link[x] = "none" /\ rx[x] = "off"
      /\ rxQueue[x] = <<>> /\ rxFill[x] = {}
  BY DEF Init, WireInit, BackendInit
<1> QED
  BY <1>1 DEF Safe, Reachable, HandsEmpty

LEMMA NextSafe ==
  ASSUME TypeOK, NoUpdateLost, [Next]_vars
  PROVE  NoUpdateLost'
<1> SUFFICES ASSUME NEW x \in Engines PROVE Safe(x)'
  BY DEF NoUpdateLost, Safe
<1>1. Safe(x)
  BY DEF NoUpdateLost, Safe
<1>2. ASSUME NEW e \in Engines, Engine(e) PROVE Safe(x)'
  BY <1>1, <1>2, ThreadSafe
<1>3. ASSUME NEW e \in Engines, ReceiverThread(e) PROVE Safe(x)'
  BY <1>1, <1>3, OtherReceiverSafe, OwnReceiverSafe
<1>4. ASSUME NEW e \in Engines, Adapter(e) PROVE Safe(x)'
  BY <1>1, <1>4, AdapterSafe
<1>5. CASE AdapterRequest
  BY <1>1, <1>5, AdapterRequestSafe
<1>6. CASE User \/ VSCode \/ HostExit \/ UNCHANGED vars
  BY <1>1, <1>6, EnvironmentSafe
<1> QED
  BY <1>2, <1>3, <1>4, <1>5, <1>6 DEF Next

\* Edits, connections, requests for breakpoints, partial reads and exits may
\* come in any order, for any number of engines: no update is lost.
THEOREM UpdatesSurvive == Spec => []NoUpdateLost
<1>1. Init => NoUpdateLost
  BY InitSafe DEF NoUpdateLost, Safe
<1> QED
  BY <1>1, NextSafe, TypeCorrect, PTL DEF Spec

LEMMA ConvergedFollows ==
  ASSUME TypeOK, NoUpdateLost
  PROVE  Converged
<1> SUFFICES ASSUME NEW e \in Engines,
                    Quiet(e), ~misread[e]
             PROVE  breakpointList[e] = Entries(breakpoints)
  BY DEF Converged
<1>1. UpdateUnderWay(e) /\ rxQueue[e] = <<>> /\ rxFill[e] = {}
  BY DEF NoUpdateLost, HandsEmpty, Quiet
<1>2. ~LastListIs(toEngine[e], Entries(breakpoints))
  BY DEF Quiet, LastListIs
<1>3. ~LastListIs(rxQueue[e], Entries(breakpoints))
  BY <1>1 DEF LastListIs
<1> QED
  BY <1>1, <1>2, <1>3 DEF UpdateUnderWay, Quiet

\* Once nothing is under way, both sides hold the same breakpoints.
THEOREM Convergence == Spec => []Converged
  BY ConvergedFollows, TypeCorrect, UpdatesSurvive, PTL
=============================================================================
