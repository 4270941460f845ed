------------------------- MODULE DebugSessions_proofs ------------------------
(***************************************************************************)
(* The debug sessions of one VS Code window: what the editor shows reaches *)
(* the engines, every request for a script is answered, and no session     *)
(* shows the stop of another, for any number of sessions, edits, files and *)
(* lines.                                                                  *)
(***************************************************************************)
EXTENDS DebugSessions, OneEngine_proofs, FiniteSetTheorems,
        WellFoundedInduction

\* A request VS Code has no response to.
Unresponded == [path : Paths, initial : BOOLEAN]

SessionsTypeOK ==
  /\ marks \in [Paths -> SUBSET Lines]
  /\ session \in {"off", "starting", "on"}
  /\ toSend \in SUBSET Paths
  /\ unanswered \in Seq(Unresponded)
  /\ sessions \in 0..MaxSessions

\* Without a session nothing is shown and no response awaited.
BetweenSessions ==
  session = "off" => unanswered = <<>> /\ ~uiStopped /\ awaiting = 0

\* The steps of a session that are not steps of the system below it.
SessionStep == StartSession \/ SendInitial \/ Configured \/ Edit \/ EndSession

LEMMA SystemSteps ==
  ASSUME Others \/ ReadEventInSession \/ UNCHANGED allVars
  PROVE  [Next]_vars
  BY DEF Others, ReadEventInSession, Next, AdapterRequest, User, VSCode, allVars

\* They touch neither the engines and their connections nor what the adapter holds.
LEMMA SessionStepLeaves ==
  ASSUME SessionStep
  PROVE  UNCHANGED <<wireVars, engineVars, breakpoints, clients,
                     currentBreakpoint, scriptVariables>>
  BY DEF SessionStep, StartSession, SendInitial, Configured, Edit, EndSession,
     vars, sessionVars

LEMMA Requesting ==
  ASSUME TypeOK, SessionsTypeOK, NEW p \in Paths, NEW lines \in SUBSET Lines,
         NEW initial \in BOOLEAN, Request(p, lines, initial)
  PROVE  /\ requests' \in Seq(Requests)
         /\ unanswered' \in Seq(Unresponded)
<1>1. [type |-> "setBreakpoints", path |-> p, lines |-> lines] \in Requests
  BY DEF Requests
<1>2. [path |-> p, initial |-> initial] \in Unresponded
  BY DEF Unresponded
<1>3. /\ requests \in Seq(Requests)
      /\ unanswered \in Seq(Unresponded)
  BY DEF TypeOK, SessionTypeOK, SessionsTypeOK
<1> QED
  BY <1>1, <1>2, <1>3, AppendProperties DEF Request

-----------------------------------------------------------------------------
\* Which request a response is for.

\* A nonempty set of naturals has a least element.
LEMMA Least ==
  ASSUME NEW T \in SUBSET Nat, T # {}
  PROVE  \E x \in T : \A y \in T : x <= y
<1> DEFINE R == OpToRel(<, Nat)
<1>1. IsWellFoundedOn(R, Nat)
  BY NatLessThanWellFounded
<1>2. \A x, y \in Nat : y < x => <<y, x>> \in R
  BY DEF OpToRel
<1> HIDE DEF R
<1>3. PICK x \in T : \A y \in T : <<y, x>> \notin R
  BY <1>1, WFMin, Zenon
<1>4. x \in Nat /\ \A y \in T : y \in Nat /\ ~(y < x)
  BY <1>2, <1>3
<1> QED
  BY <1>3, <1>4

\* The first request for a script is the one Answered removes.
LEMMA FirstScript ==
  ASSUME SessionsTypeOK,
         NEW k \in 1..Len(unanswered), IsScriptFile(unanswered[k].path)
  PROVE  \E i \in 1..Len(unanswered) :
           /\ IsScriptFile(unanswered[i].path)
           /\ Answered = SubSeq(unanswered, 1, i - 1)
                           \o SubSeq(unanswered, i + 1, Len(unanswered))
<1> DEFINE Script(i) == IsScriptFile(unanswered[i].path)
           T == {i \in 1..Len(unanswered) : Script(i)}
           First(i) == Script(i) /\ \A j \in 1..i - 1 : ~Script(j)
<1>1. DOMAIN unanswered = 1..Len(unanswered) /\ Len(unanswered) \in Nat
  BY LenProperties DEF SessionsTypeOK
<1>2. k \in T /\ T \in SUBSET Nat
  BY <1>1
<1> HIDE DEF T
<1>3. PICK x \in T : \A y \in T : x <= y
  BY <1>2, Least
<1>4. x \in 1..Len(unanswered) /\ Script(x)
  BY DEF T
<1>5. ASSUME NEW j \in 1..x - 1, Script(j) PROVE FALSE
  <2>1. j \in 1..Len(unanswered) /\ j < x
    BY <1>1, <1>4
  <2>2. j \in T
    BY <1>5, <2>1 DEF T
  <2> QED
    BY <1>1, <1>3, <1>4, <2>1, <2>2
<1>6. First(x)
  BY <1>4, <1>5
<1> DEFINE i == CHOOSE c \in DOMAIN unanswered : First(c)
<1>7. i \in DOMAIN unanswered /\ First(i)
  BY <1>1, <1>4, <1>6
<1>8. Answered = SubSeq(unanswered, 1, i - 1)
                   \o SubSeq(unanswered, i + 1, Len(unanswered))
  BY DEF Answered
<1> QED
  BY <1>1, <1>7, <1>8

-----------------------------------------------------------------------------
\* Counting the elements of a queue that are in T.

Where(q, T) == {i \in 1..Len(q) : q[i] \in T}
Number(q, T) == Cardinality(Where(q, T))

LEMMA NumberType ==
  ASSUME NEW S, NEW q \in Seq(S), NEW T
  PROVE  /\ IsFiniteSet(Where(q, T))
         /\ Number(q, T) \in Nat
         /\ Number(q, T) = 0 <=> \A i \in 1..Len(q) : q[i] \notin T
<1>1. IsFiniteSet(1..Len(q))
  BY LenProperties, FS_Interval
<1>2. IsFiniteSet(Where(q, T))
  BY <1>1, FS_Subset DEF Where
<1>3. Number(q, T) \in Nat
  BY <1>2, FS_CardinalityType DEF Number
<1>4. Number(q, T) = 0 <=> Where(q, T) = {}
  BY <1>2, FS_EmptySet DEF Number
<1> QED
  BY <1>2, <1>3, <1>4 DEF Where

LEMMA NumberEmpty ==
  ASSUME NEW T
  PROVE  Number(<<>>, T) = 0
<1>1. Where(<<>>, T) = {}
  BY DEF Where
<1> QED
  BY <1>1, FS_EmptySet DEF Number

LEMMA NumberOne ==
  ASSUME NEW x, NEW T
  PROVE  Number(<<x>>, T) = IF x \in T THEN 1 ELSE 0
<1>1. Len(<<x>>) = 1 /\ <<x>>[1] = x
  OBVIOUS
<1>2. CASE x \in T
  <2>1. Where(<<x>>, T) = {1}
    BY <1>1, <1>2 DEF Where
  <2> QED
    BY <1>2, <2>1, FS_Singleton DEF Number
<1>3. CASE x \notin T
  <2>1. Where(<<x>>, T) = {}
    BY <1>1, <1>3 DEF Where
  <2> QED
    BY <1>3, <2>1, FS_EmptySet DEF Number
<1> QED
  BY <1>2, <1>3

LEMMA NumberConcat ==
  ASSUME NEW S, NEW q \in Seq(S), NEW r \in Seq(S), NEW T
  PROVE  Number(q \o r, T) = Number(q, T) + Number(r, T)
<1> DEFINE m == Len(q)
           n == Len(r)
           both == q \o r
           moved == {m + j : j \in Where(r, T)}
           f == [j \in Where(r, T) |-> m + j]
<1>1. /\ m \in Nat /\ n \in Nat /\ Len(both) = m + n
      /\ \A i \in 1..(m + n) : both[i] = IF i <= m THEN q[i] ELSE r[i - m]
  BY ConcatProperties
<1> HIDE DEF m, n, both
<1>2. Where(r, T) \subseteq Nat /\ \A j \in Where(r, T) : j \in 1..n /\ r[j] \in T
  BY <1>1 DEF Where, n
<1>3. Where(both, T) = Where(q, T) \cup moved
  <2>1. ASSUME NEW i \in Where(both, T) PROVE i \in Where(q, T) \cup moved
    <3>1. i \in 1..(m + n) /\ both[i] \in T
      BY <1>1 DEF Where
    <3>2. CASE i <= m
      BY <1>1, <3>1, <3>2 DEF Where, m
    <3>3. CASE i > m
      <4>1. i - m \in 1..n /\ r[i - m] \in T /\ m + (i - m) = i
        BY <1>1, <3>1, <3>3
      <4>2. i - m \in Where(r, T)
        BY <4>1 DEF Where, n
      <4> QED
        BY <4>1, <4>2
    <3> QED
      BY <1>1, <3>1, <3>2, <3>3
  <2>2. ASSUME NEW i \in Where(q, T) PROVE i \in Where(both, T)
    BY <1>1 DEF Where, m
  <2>3. ASSUME NEW j \in Where(r, T) PROVE m + j \in Where(both, T)
    BY <1>1, <1>2 DEF Where
  <2> QED
    BY <2>1, <2>2, <2>3
<1>4. f \in Bijection(Where(r, T), moved)
  <2>1. f \in [Where(r, T) -> moved]
    OBVIOUS
  <2>2. \A a, b \in Where(r, T) : f[a] = f[b] => a = b
    BY <1>1, <1>2
  <2>3. \A t \in moved : \E a \in Where(r, T) : f[a] = t
    OBVIOUS
  <2> HIDE DEF f, moved
  <2> QED
    BY <2>1, <2>2, <2>3 DEF Bijection, Injection, Surjection, IsInjective
<1>5. IsFiniteSet(moved) /\ Cardinality(moved) = Number(r, T)
  BY <1>4, NumberType, FS_Bijection DEF ExistsBijection, Number
<1>6. Where(q, T) \cap moved = {}
  BY <1>1, <1>2 DEF Where, m
<1>7. Cardinality(Where(q, T) \cup moved) = Number(q, T) + Number(r, T) - 0
  <2> HIDE DEF moved
  <2>1. Cardinality(Where(q, T) \cap moved) = 0
    BY <1>6, FS_EmptySet
  <2> QED
    BY <1>5, <2>1, NumberType, FS_Union DEF Number
<1> QED
  BY <1>3, <1>7, NumberType DEF Number, both

LEMMA NumberAppend ==
  ASSUME NEW S, NEW q \in Seq(S), NEW x \in S, NEW T
  PROVE  Number(Append(q, x), T) = Number(q, T) + IF x \in T THEN 1 ELSE 0
<1>1. Append(q, x) = q \o <<x>> /\ <<x>> \in Seq(S)
  BY AppendIsConcat
<1>2. Number(q \o <<x>>, T) = Number(q, T) + Number(<<x>>, T)
  BY <1>1, NumberConcat
<1> QED
  BY <1>1, <1>2, NumberOne

\* A queue without its element i.
LEMMA NumberWithout ==
  ASSUME NEW S, NEW q \in Seq(S), NEW i \in 1..Len(q), NEW T
  PROVE  LET r == SubSeq(q, 1, i - 1) \o SubSeq(q, i + 1, Len(q))
         IN  /\ r \in Seq(S)
             /\ Number(q, T) = Number(r, T) + IF q[i] \in T THEN 1 ELSE 0
<1> DEFINE front == SubSeq(q, 1, i - 1)
           rest == SubSeq(q, i + 1, Len(q))
<1>1. Len(q) \in Nat /\ i \in Nat /\ 1 <= i /\ i <= Len(q)
  BY LenProperties
<1>2. front \in Seq(S) /\ rest \in Seq(S) /\ q[i] \in S /\ <<q[i]>> \in Seq(S)
  BY <1>1, SubSeqProperties
<1>3. SubSeq(q, 1, i) = front \o <<q[i]>>
  <2>1. 1 \in 1..Len(q) /\ i \in 1..Len(q)
    BY <1>1
  <2> QED
    BY <2>1, SubSeqRecursiveSecond
<1>4. SubSeq(q, 1, i) \o rest = q
  <2>1. /\ 1 \in 1..Len(q) + 1 /\ i \in 1 - 1..Len(q) /\ Len(q) \in i..Len(q)
    BY <1>1
  <2>2. SubSeq(q, 1, i) \o rest = SubSeq(q, 1, Len(q))
    BY <2>1, ConcatAdjacentSubSeq
  <2> QED
    BY <2>2, SubSeqFull
<1> HIDE DEF front, rest
<1>5. front \o <<q[i]>> \in Seq(S) /\ front \o rest \in Seq(S)
  BY <1>2, ConcatProperties
<1>6. /\ Number(front \o <<q[i]>>, T) = Number(front, T) + Number(<<q[i]>>, T)
      /\ Number(front \o rest, T) = Number(front, T) + Number(rest, T)
  BY <1>2, NumberConcat
<1>7. Number(q, T) = Number(front \o <<q[i]>>, T) + Number(rest, T)
  <2> DEFINE upTo == front \o <<q[i]>>
  <2>1. upTo \in Seq(S) /\ upTo \o rest = q
    BY <1>3, <1>4, <1>5
  <2> HIDE DEF upTo
  <2>2. Number(upTo \o rest, T) = Number(upTo, T) + Number(rest, T)
    BY <1>2, <2>1, NumberConcat
  <2>3. Number(q, T) = Number(upTo, T) + Number(rest, T)
    BY <2>1, <2>2
  <2> QED
    BY <2>3 DEF upTo
<1>8. /\ Number(front, T) \in Nat /\ Number(rest, T) \in Nat
      /\ Number(<<q[i]>>, T) = IF q[i] \in T THEN 1 ELSE 0
  BY <1>2, NumberType, NumberOne
<1>9. Number(q, T) = Number(front \o rest, T) + IF q[i] \in T THEN 1 ELSE 0
  BY <1>6, <1>7, <1>8
<1> QED
  BY <1>5, <1>9 DEF front, rest

LEMMA NumberTail ==
  ASSUME NEW S, NEW q \in Seq(S), q # <<>>, NEW T
  PROVE  Number(q, T) = Number(Tail(q), T) + IF Head(q) \in T THEN 1 ELSE 0
<1>1. Len(q) \in Nat \ {0} /\ 1 \in 1..Len(q) /\ Head(q) = q[1]
  BY EmptySeq
<1>2. SubSeq(q, 1, 1 - 1) = <<>> /\ Tail(q) = SubSeq(q, 1 + 1, Len(q))
  BY SubSeqEmpty, TailIsSubSeq
<1>3. SubSeq(q, 1, 1 - 1) \o SubSeq(q, 1 + 1, Len(q)) = Tail(q)
  BY <1>2, HeadTailProperties, ConcatEmptySeq
<1>4. Number(q, T) = Number(SubSeq(q, 1, 1 - 1) \o SubSeq(q, 1 + 1, Len(q)), T)
                       + IF q[1] \in T THEN 1 ELSE 0
  BY <1>1, NumberWithout
<1> QED
  BY <1>1, <1>3, <1>4

-----------------------------------------------------------------------------
\* The responses under way.

Responses == {[path |-> p, initial |-> b] : p \in {x \in Paths : IsScriptFile(x)}, b \in BOOLEAN}
ForScripts ==
  {r \in Requests : r.type = "setBreakpoints" /\ IsScriptFile(r.path)}
Due == Number(unanswered, Responses)
ToHandle == Number(requests, ForScripts)
Coming == Number(events, {"verified"})

LEMMA Queues ==
  ASSUME TypeOK, SessionsTypeOK
  PROVE  /\ requests \in Seq(Requests)
         /\ events \in Seq({"stopped", "resumed", "verified"})
         /\ unanswered \in Seq(Unresponded)
         /\ Due \in Nat /\ ToHandle \in Nat /\ Coming \in Nat
<1>1. /\ requests \in Seq(Requests)
      /\ events \in Seq({"stopped", "resumed", "verified"})
      /\ unanswered \in Seq(Unresponded)
  BY DEF TypeOK, SessionTypeOK, SessionsTypeOK
<1>2. Due \in Nat
  BY <1>1, NumberType DEF Due
<1>3. ToHandle \in Nat
  BY <1>1, NumberType DEF ToHandle
<1>4. Coming \in Nat
  <2> DEFINE S == {"stopped", "resumed", "verified"}
  <2>1. events \in Seq(S)
    BY <1>1
  <2> HIDE DEF S
  <2> QED
    BY <2>1, NumberType DEF Coming
<1> QED
  BY <1>1, <1>2, <1>3, <1>4

LEMMA DueRead ==
  ASSUME NEW r \in Unresponded
  PROVE  r \in Responses <=> IsScriptFile(r.path)
<1>1. r = [path |-> r.path, initial |-> r.initial] /\ r.path \in Paths
      /\ r.initial \in BOOLEAN
  BY DEF Unresponded
<1> QED
  BY <1>1 DEF Responses

\* ResponsesUnderWay, counted so.
LEMMA Balance ==
  ASSUME TypeOK, SessionsTypeOK
  PROVE  ResponsesUnderWay <=> Due = ToHandle + Coming
<1>1. /\ DOMAIN requests = 1..Len(requests)
      /\ DOMAIN events = 1..Len(events)
      /\ DOMAIN unanswered = 1..Len(unanswered)
  BY Queues, LenProperties
<1>2. {i \in DOMAIN unanswered : IsScriptFile(unanswered[i].path)}
        = Where(unanswered, Responses)
  <2>1. \A i \in 1..Len(unanswered) :
          unanswered[i] \in Responses <=> IsScriptFile(unanswered[i].path)
    BY Queues, ElementOfSeq, DueRead
  <2> QED
    BY <1>1, <2>1 DEF Where
<1>3. {i \in DOMAIN requests : /\ requests[i].type = "setBreakpoints"
                               /\ IsScriptFile(requests[i].path)}
        = Where(requests, ForScripts)
  <2>1. \A i \in 1..Len(requests) : requests[i] \in Requests
    BY Queues, ElementOfSeq
  <2> QED
    BY <1>1, <2>1 DEF Where, ForScripts
<1>4. {i \in DOMAIN events : events[i] = "verified"} = Where(events, {"verified"})
  BY <1>1 DEF Where
<1> QED
  BY <1>2, <1>3, <1>4 DEF ResponsesUnderWay, Due, ToHandle, Coming, Number

\* A request of the session is one more on both sides.
LEMMA RequestCounted ==
  ASSUME TypeOK, SessionsTypeOK, NEW p \in Paths, NEW lines \in SUBSET Lines,
         NEW initial \in BOOLEAN, Request(p, lines, initial), UNCHANGED events
  PROVE  Due = ToHandle + Coming => Due' = ToHandle' + Coming'
<1> DEFINE r == [type |-> "setBreakpoints", path |-> p, lines |-> lines]
           a == [path |-> p, initial |-> initial]
<1>1. r \in Requests /\ (r \in ForScripts <=> IsScriptFile(p))
  BY DEF Requests, ForScripts
<1>2. /\ a \in Unresponded
      /\ a \in Responses <=> IsScriptFile(p)
  <2>1. a \in Unresponded /\ a.path = p
    BY DEF Unresponded
  <2> QED
    BY <2>1, DueRead
<1>3. requests' = Append(requests, r) /\ unanswered' = Append(unanswered, a)
  BY DEF Request
<1> HIDE DEF r, a
<1>4. ToHandle' = ToHandle + IF r \in ForScripts THEN 1 ELSE 0
  BY <1>1, <1>3, Queues, NumberAppend DEF ToHandle
<1>5. Due' = Due + IF a \in Responses THEN 1 ELSE 0
  BY <1>2, <1>3, Queues, NumberAppend DEF Due
<1>6. Coming' = Coming
  BY DEF Coming
<1> QED
  BY <1>1, <1>2, <1>4, <1>5, <1>6, Queues

\* An event the adapter adds.
LEMMA EventCounted ==
  ASSUME TypeOK, SessionsTypeOK, NEW x \in {"stopped", "resumed", "verified"},
         events' = Append(events, x)
  PROVE  Coming' = Coming + IF x = "verified" THEN 1 ELSE 0
<1> DEFINE S == {"stopped", "resumed", "verified"}
           T == {"verified"}
<1>1. events \in Seq(S) /\ x \in S /\ (x \in T <=> x = "verified")
  BY Queues
<1> HIDE DEF S, T
<1>2. Number(Append(events, x), T) = Number(events, T) + IF x \in T THEN 1 ELSE 0
  BY <1>1, NumberAppend
<1>3. Number(events', T) = Number(events, T) + IF x = "verified" THEN 1 ELSE 0
  BY <1>1, <1>2
<1> QED
  BY <1>3 DEF Coming, T

LEMMA HandledCounted ==
  ASSUME TypeOK, SessionsTypeOK, requests # <<>>, requests' = Tail(requests)
  PROVE  ToHandle = ToHandle' + IF Head(requests) \in ForScripts THEN 1 ELSE 0
  BY Queues, NumberTail DEF ToHandle

\* The steps of engines, adapter and user.
LEMMA OthersCounted ==
  ASSUME TypeOK, SessionsTypeOK, Others
  PROVE  Due = ToHandle + Coming => Due' = ToHandle' + Coming'
<1>1. Due' = Due
  BY DEF Others, sessionsVars, Due
<1>2. CASE UNCHANGED <<requests, events>>
  BY <1>1, <1>2 DEF ToHandle, Coming
<1>3. ASSUME NEW e \in Engines, HandleStop(e) PROVE ToHandle' = ToHandle /\ Coming' = Coming
  <2>1. requests' = requests /\ (events' = Append(events, "stopped") \/ events' = events)
    BY <1>3 DEF HandleStop
  <2>2. CASE events' = events
    BY <2>1, <2>2 DEF ToHandle, Coming
  <2>3. CASE events' = Append(events, "stopped")
    <3>1. Coming' = Coming + 0
      BY <2>3, EventCounted
    <3> QED
      BY <2>1, <3>1, Queues DEF ToHandle
  <2> QED
    BY <2>1, <2>2, <2>3
<1>4. CASE SetBreakPointsRequest
  <2>1. /\ requests # <<>> /\ requests' = Tail(requests)
        /\ Head(requests).type = "setBreakpoints"
    BY <1>4 DEF SetBreakPointsRequest, Requested
  <2>2. Head(requests) \in Requests
    BY <2>1, Queues, HeadTailProperties
  <2>3. Head(requests) \in ForScripts <=> IsScriptFile(Head(requests).path)
    BY <2>1, <2>2 DEF ForScripts
  <2>4. CASE IsScriptFile(Head(requests).path)
    <3>1. events' = Append(events, "verified")
      BY <1>4, <2>4 DEF SetBreakPointsRequest
    <3>2. Coming' = Coming + 1
      BY <3>1, EventCounted
    <3>3. ToHandle = ToHandle' + 1
      BY <2>1, <2>3, <2>4, HandledCounted
    <3>4. ToHandle' \in Nat
      BY <2>1, Queues, HeadTailProperties, NumberType DEF ToHandle
    <3> QED
      BY SMTT(30), <1>1, <3>2, <3>3, <3>4, Queues
  <2>5. CASE ~IsScriptFile(Head(requests).path)
    <3>1. Coming' = Coming
      BY <1>4, <2>5 DEF SetBreakPointsRequest, Coming
    <3>2. ToHandle = ToHandle' + 0
      BY <2>1, <2>3, <2>5, HandledCounted
    <3>3. ToHandle' \in Nat
      BY <2>1, Queues, HeadTailProperties, NumberType DEF ToHandle
    <3> QED
      BY <1>1, <3>1, <3>2, <3>3
  <2> QED
    BY <2>4, <2>5
<1>5. CASE ControlRequest
  <2>1. /\ requests # <<>> /\ requests' = Tail(requests)
        /\ Head(requests).type = "control"
        /\ events' = Append(events, "resumed")
    BY <1>5 DEF ControlRequest, Requested
  <2>2. Head(requests) \notin ForScripts
    BY <2>1 DEF ForScripts
  <2>3. Coming' = Coming + 0
    BY <2>1, EventCounted
  <2>4. ToHandle = ToHandle' + 0
    BY <2>1, <2>2, HandledCounted
  <2>5. ToHandle' \in Nat
    BY <2>1, Queues, HeadTailProperties, NumberType DEF ToHandle
  <2> QED
    BY <1>1, <2>3, <2>4, <2>5, Queues
<1>6. CASE Press
  <2>1. PICK c \in DebugCommands :
          requests' = Append(requests, [type |-> "control", command |-> c])
    BY <1>6 DEF Press
  <2>2. PICK r : r = [type |-> "control", command |-> c]
    OBVIOUS
  <2>3. r \in Requests /\ r \notin ForScripts
    BY <2>2 DEF Requests, ForScripts
  <2>4. ToHandle' = ToHandle + 0
    BY <2>1, <2>2, <2>3, Queues, NumberAppend DEF ToHandle
  <2>5. Coming' = Coming
    BY <1>6 DEF Press, Coming
  <2> QED
    BY <1>1, <2>4, <2>5, Queues
<1> QED
  BY <1>1, <1>2, <1>3, <1>4, <1>5, <1>6 DEF Others, Engine, ReceiverThread, Adapter,
     Socket, OnConnection, HandleGetBreakpoints, HandleVariables, OnEnd, Dap, sessionVars

\* A response VS Code reads is for the first request for a script that has none.
LEMMA ResponseCounted ==
  ASSUME TypeOK, SessionsTypeOK, ReadEventInSession, Due = ToHandle + Coming
  PROVE  /\ unanswered' \in Seq(Unresponded)
         /\ Due' = ToHandle' + Coming'
<1> DEFINE S == {"stopped", "resumed", "verified"}
           T == {"verified"}
<1>1. /\ events # <<>> /\ events' = Tail(events) /\ requests' = requests
      /\ unanswered' = IF Head(events) = "verified" THEN Answered ELSE unanswered
  BY DEF ReadEventInSession, ReadEvent
<1> DEFINE n == Number(Tail(events), T)
<1>2. /\ Coming = n + IF Head(events) = "verified" THEN 1 ELSE 0
      /\ n \in Nat
  <2>1. events \in Seq(S) /\ \A x : x \in T <=> x = "verified"
    BY Queues
  <2> HIDE DEF S, T
  <2>2. /\ Number(events, T) = n + IF Head(events) \in T THEN 1 ELSE 0
        /\ n \in Nat
    BY <1>1, <2>1, NumberTail, HeadTailProperties, NumberType
  <2>3. Number(events, T) = n + IF Head(events) = "verified" THEN 1 ELSE 0
    BY <2>1, <2>2
  <2> QED
    BY <2>2, <2>3 DEF T, Coming
<1>3. Coming' = n
  BY <1>1 DEF Coming
<1>4. ToHandle' = ToHandle
  BY <1>1 DEF ToHandle
<1> HIDE DEF n
<1>5. CASE Head(events) # "verified"
  <2>1. unanswered' = unanswered /\ Coming = n
    BY <1>1, <1>2, <1>5
  <2>2. Due' = Due
    BY <2>1 DEF Due
  <2> QED
    BY <1>3, <1>4, <2>1, <2>2, Queues
<1>6. CASE Head(events) = "verified"
  <2>1. Coming = n + 1
    BY <1>2, <1>6
  <2>2. Due # 0
    BY <1>2, <2>1, Queues
  <2>3. PICK k \in 1..Len(unanswered) : unanswered[k] \in Responses
    BY <2>2, Queues, NumberType DEF Due
  <2>4. IsScriptFile(unanswered[k].path)
    BY <2>3, Queues, ElementOfSeq, DueRead
  <2>5. PICK i \in 1..Len(unanswered) :
          /\ IsScriptFile(unanswered[i].path)
          /\ Answered = SubSeq(unanswered, 1, i - 1)
                          \o SubSeq(unanswered, i + 1, Len(unanswered))
    BY <2>4, FirstScript
  <2> DEFINE r == SubSeq(unanswered, 1, i - 1)
                    \o SubSeq(unanswered, i + 1, Len(unanswered))
             rest == Number(r, Responses)
  <2>6. unanswered[i] \in Responses
    BY <2>5, Queues, ElementOfSeq, DueRead
  <2>7. unanswered' = r
    BY <1>1, <1>6, <2>5
  <2>8. r \in Seq(Unresponded) /\ Due = rest + 1
    <3>1. unanswered \in Seq(Unresponded)
      BY Queues
    <3>2. /\ r \in Seq(Unresponded)
          /\ Number(unanswered, Responses)
               = Number(r, Responses) + IF unanswered[i] \in Responses THEN 1 ELSE 0
      BY <3>1, NumberWithout
    <3> HIDE DEF r
    <3> QED
      BY <2>6, <3>2 DEF Due
  <2> HIDE DEF r
  <2>9. Due' = rest
    BY <2>7 DEF Due
  <2>10. rest \in Nat
    BY <2>8, NumberType
  <2> HIDE DEF rest
  <2>11. rest = ToHandle + n
    <3>1. /\ ToHandle \in Nat /\ n \in Nat /\ rest \in Nat
          /\ rest + 1 = ToHandle + (n + 1)
      BY <1>2, <2>1, <2>8, <2>10, Queues
    <3> QED
      BY <3>1
  <2> QED
    BY <1>3, <1>4, <2>7, <2>8, <2>9, <2>11
<1> QED
  BY <1>5, <1>6

\* The steps of a session: it starts with nothing under way and ends with the
\* adapter having handled every request.
LEMMA SessionCounted ==
  ASSUME TypeOK, SessionsTypeOK, BetweenSessions, SessionStep,
         Due = ToHandle + Coming
  PROVE  Due' = ToHandle' + Coming'
<1>1. CASE StartSession
  <2>1. /\ unanswered = <<>> /\ unanswered' = unanswered /\ requests' = requests
        /\ events' = <<>>
    BY <1>1 DEF StartSession, BetweenSessions
  <2>2. Due = 0 /\ Due' = 0 /\ Coming' = 0
    BY <2>1, NumberEmpty DEF Due, Coming
  <2>3. ToHandle = 0
    BY <2>2, Queues
  <2>4. ToHandle' = 0
    BY <2>1, <2>3 DEF ToHandle
  <2> QED
    BY <2>2, <2>4
<1>2. CASE SendInitial
  <2>1. PICK p \in toSend : Request(p, marks[p], TRUE)
    BY <1>2 DEF SendInitial
  <2>2. p \in Paths /\ marks[p] \in SUBSET Lines /\ TRUE \in BOOLEAN /\ events' = events
    BY <1>2, <2>1 DEF SendInitial, SessionsTypeOK
  <2> QED
    BY <2>1, <2>2, RequestCounted
<1>3. CASE Configured
  BY <1>3 DEF Configured, vars, sessionVars, Due, ToHandle, Coming
<1>4. CASE Edit
  <2>1. CASE session = "off"
    BY <1>4, <2>1 DEF Edit, Due, ToHandle, Coming
  <2>2. CASE session # "off"
    <3>1. PICK p \in Paths, lines \in SUBSET Lines : Request(p, lines, FALSE)
      BY <1>4, <2>2 DEF Edit
    <3>2. FALSE \in BOOLEAN /\ events' = events
      BY <1>4 DEF Edit
    <3> QED
      BY <3>1, <3>2, RequestCounted
  <2> QED
    BY <2>1, <2>2
<1>5. CASE EndSession
  <2>1. requests' = <<>> /\ unanswered' = <<>> /\ events' = <<>>
    BY <1>5 DEF EndSession
  <2> QED
    BY <2>1, NumberEmpty DEF Due, ToHandle, Coming
<1> QED
  BY <1>1, <1>2, <1>3, <1>4, <1>5 DEF SessionStep

-----------------------------------------------------------------------------
\* Types, and what is left of a session when it has ended.

LEMMA SessionTypes ==
  ASSUME TypeOK, SessionsTypeOK, SessionStep
  PROVE  TypeOK' /\ SessionsTypeOK'
<1>1. WireTypeOK' /\ BackendTypeOK' /\ ThreadTypeOK'
  BY SessionStepLeaves DEF TypeOK, WireTypeOK, BackendTypeOK, ThreadTypeOK,
     wireVars, engineVars, backendVars, threadVars
<1>2. ASSUME requests' \in Seq(Requests), serving' \in BOOLEAN,
             events' \in Seq({"stopped", "resumed", "verified"}),
             uiStopped' \in BOOLEAN, awaiting' \in Int, edits' \in 0..MaxEdits
      PROVE  TypeOK'
  <2>1. SessionTypeOK'
    BY <1>2, SessionStepLeaves DEF TypeOK, SessionTypeOK
  <2>2. UiTypeOK'
    BY <1>2 DEF UiTypeOK
  <2> QED
    BY <1>1, <2>1, <2>2 DEF TypeOK
<1>3. /\ requests \in Seq(Requests) /\ serving \in BOOLEAN
      /\ events \in Seq({"stopped", "resumed", "verified"})
      /\ uiStopped \in BOOLEAN /\ awaiting \in Int /\ edits \in 0..MaxEdits
  BY DEF TypeOK, SessionTypeOK, UiTypeOK
<1>4. CASE StartSession
  <2>1. sessions' \in 0..MaxSessions
    BY <1>4, SessionsAssumption DEF SessionsAssumption, StartSession, SessionsTypeOK
  <2>2. SessionsTypeOK'
    BY <1>4, <2>1 DEF StartSession, SessionsTypeOK
  <2>3. UNCHANGED <<requests, uiStopped, awaiting, edits>> /\ events' = <<>>
    BY <1>4 DEF StartSession, uiVars
  <2>4. serving' \in BOOLEAN
    BY <1>4, Zenon DEF StartSession
  <2> QED
    BY <1>2, <1>3, <2>2, <2>3, <2>4
<1>5. CASE SendInitial
  <2>1. PICK p \in toSend : toSend' = toSend \ {p} /\ Request(p, marks[p], TRUE)
    BY <1>5 DEF SendInitial
  <2>2. p \in Paths /\ marks[p] \in SUBSET Lines /\ TRUE \in BOOLEAN
    BY <2>1 DEF SessionsTypeOK
  <2>3. requests' \in Seq(Requests) /\ unanswered' \in Seq(Unresponded)
    BY <2>1, <2>2, Requesting
  <2>4. SessionsTypeOK'
    BY <1>5, <2>1, <2>3 DEF SendInitial, SessionsTypeOK
  <2>5. UNCHANGED <<serving, events, uiStopped, awaiting, edits>>
    BY <1>5 DEF SendInitial, uiVars
  <2> QED
    BY <1>2, <1>3, <2>3, <2>4, <2>5
<1>6. CASE Configured
  <2>1. SessionsTypeOK'
    BY <1>6 DEF Configured, SessionsTypeOK
  <2>2. UNCHANGED <<requests, serving, events, uiStopped, awaiting, edits>>
    BY <1>6 DEF Configured, vars, sessionVars, uiVars
  <2> QED
    BY <1>2, <1>3, <2>1, <2>2
<1>7. CASE Edit
  <2>1. edits' \in 0..MaxEdits
    BY <1>7, UiAssumption DEF UiAssumption, Edit, TypeOK, UiTypeOK
  <2>2. PICK p \in Paths, lines \in SUBSET Lines :
          /\ marks' = [marks EXCEPT ![p] = lines]
          /\ IF session = "off" THEN UNCHANGED <<requests, unanswered>>
                                ELSE Request(p, lines, FALSE)
    BY <1>7 DEF Edit
  <2>3. requests' \in Seq(Requests) /\ unanswered' \in Seq(Unresponded)
    <3>1. CASE session = "off"
      BY <1>3, <2>2, <3>1 DEF SessionsTypeOK
    <3>2. CASE session # "off"
      <4>1. Request(p, lines, FALSE) /\ FALSE \in BOOLEAN
        BY <2>2, <3>2
      <4> QED
        BY <4>1, Requesting
    <3> QED
      BY <3>1, <3>2
  <2>4. SessionsTypeOK'
    BY <1>7, <2>2, <2>3 DEF Edit, SessionsTypeOK
  <2>5. UNCHANGED <<serving, events, uiStopped, awaiting>>
    BY <1>7 DEF Edit
  <2> QED
    BY <1>2, <1>3, <2>1, <2>3, <2>4, <2>5
<1>8. CASE EndSession
  <2>1. /\ UNCHANGED <<requests, serving, edits, marks, sessions>>
        /\ events' = <<>> /\ unanswered' = <<>> /\ toSend' = {}
        /\ session' = "off" /\ awaiting' = 0
    BY <1>8 DEF EndSession
  <2>2. uiStopped' \in BOOLEAN
    BY <1>8, Zenon DEF EndSession
  <2>3. SessionsTypeOK'
    BY <2>1 DEF SessionsTypeOK
  <2> QED
    BY <1>2, <1>3, <2>1, <2>2, <2>3
<1> QED
  BY <1>4, <1>5, <1>6, <1>7, <1>8 DEF SessionStep

LEMMA SessionsEnded ==
  ASSUME BetweenSessions, [SessionsNext]_allVars
  PROVE  BetweenSessions'
<1>1. CASE StartSession \/ Configured
  BY <1>1 DEF StartSession, Configured, BetweenSessions
<1>2. CASE SendInitial
  BY <1>2 DEF SendInitial, BetweenSessions
<1>3. CASE Edit
  BY <1>3 DEF Edit, BetweenSessions
<1>4. CASE ReadEventInSession
  BY <1>4 DEF ReadEventInSession, BetweenSessions
<1>5. CASE EndSession
  BY <1>5, Zenon DEF EndSession, BetweenSessions
<1>6. CASE Others
  <2>1. session' = session /\ unanswered' = unanswered
    BY <1>6 DEF Others, sessionsVars
  <2>2. CASE UNCHANGED uiVars
    BY <2>1, <2>2, Zenon DEF uiVars, BetweenSessions
  <2>3. CASE Press
    BY <2>1, <2>3, Zenon DEF Press, BetweenSessions
  <2> QED
    BY <1>6, <2>2, <2>3 DEF Others, Engine, ReceiverThread, Adapter, uiVars
<1>7. CASE UNCHANGED allVars
  BY <1>7, Zenon DEF allVars, vars, uiVars, sessionsVars, BetweenSessions
<1> QED
  BY <1>1, <1>2, <1>3, <1>4, <1>5, <1>6, <1>7 DEF SessionsNext

Sound ==
  /\ TypeOK
  /\ SessionsTypeOK
  /\ BetweenSessions
  /\ Due = ToHandle + Coming

LEMMA SoundFirst ==
  ASSUME SessionsInit
  PROVE  Sound
<1>1. TypeOK
  BY InitTypeOK DEF SessionsInit
<1>2. SessionsTypeOK
  <2>1. 0 \in 0..MaxSessions
    BY SessionsAssumption DEF SessionsAssumption
  <2> QED
    BY <2>1 DEF SessionsInit, SessionsTypeOK
<1>3. BetweenSessions
  BY Zenon DEF SessionsInit, Init, UiInit, BetweenSessions
<1>4. requests = <<>> /\ events = <<>> /\ unanswered = <<>>
  BY DEF SessionsInit, Init, SessionInit
<1>5. Due = ToHandle + Coming
  BY <1>4, NumberEmpty DEF Due, ToHandle, Coming
<1> QED
  BY <1>1, <1>2, <1>3, <1>5 DEF Sound

LEMMA SoundKept ==
  ASSUME Sound, [SessionsNext]_allVars
  PROVE  Sound'
<1>1. TypeOK /\ SessionsTypeOK /\ BetweenSessions /\ Due = ToHandle + Coming
  BY DEF Sound
<1>2. BetweenSessions'
  BY <1>1, SessionsEnded
<1>3. CASE SessionStep
  BY <1>1, <1>2, <1>3, SessionTypes, SessionCounted DEF Sound
<1>4. CASE Others
  <2>1. TypeOK'
    BY <1>1, <1>4, SystemSteps, NextType
  <2>2. SessionsTypeOK'
    BY <1>1, <1>4 DEF Others, sessionsVars, SessionsTypeOK
  <2>3. Due' = ToHandle' + Coming'
    BY <1>1, <1>4, OthersCounted
  <2> QED
    BY <1>2, <2>1, <2>2, <2>3 DEF Sound
<1>5. CASE ReadEventInSession
  <2>1. TypeOK'
    BY <1>1, <1>5, SystemSteps, NextType
  <2>2. unanswered' \in Seq(Unresponded) /\ Due' = ToHandle' + Coming'
    BY <1>1, <1>5, ResponseCounted
  <2>3. SessionsTypeOK'
    BY <1>1, <1>5, <2>2 DEF ReadEventInSession, SessionsTypeOK
  <2> QED
    BY <1>2, <2>1, <2>2, <2>3 DEF Sound
<1>6. CASE UNCHANGED allVars
  <2>1. TypeOK'
    BY <1>1, <1>6, SystemSteps, NextType
  <2>2. SessionsTypeOK'
    BY <1>1, <1>6 DEF allVars, sessionsVars, SessionsTypeOK
  <2>3. Due' = ToHandle' + Coming'
    BY <1>1, <1>6 DEF allVars, vars, sessionVars, sessionsVars, Due, ToHandle, Coming
  <2> QED
    BY <1>2, <2>1, <2>2, <2>3 DEF Sound
<1> QED
  BY <1>3, <1>4, <1>5, <1>6 DEF SessionsNext, SessionStep

\* A session gets the responses it waits for, though one session object serves all
\* sessions and VS Code sends requests for other files too, which get none.
THEOREM ResponsesCome == SessionsSpec => []ResponsesUnderWay
<1>1. Sound => ResponsesUnderWay
  BY Balance DEF Sound
<1> QED
  BY <1>1, SoundFirst, SoundKept, PTL DEF SessionsSpec

-----------------------------------------------------------------------------
\* The breakpoints of the editor on their way to the adapter.

IsFor(r, p) == r.type = "setBreakpoints" /\ r.path = p

\* The last request for p in queue q is to set lines; there is none.
LastFor(q, p, lines) ==
  \E i \in 1..Len(q) :
    /\ IsFor(q[i], p)
    /\ q[i].lines = lines
    /\ \A j \in 1..Len(q) : j > i => ~IsFor(q[j], p)
NoneFor(q, p) == \A i \in 1..Len(q) : ~IsFor(q[i], p)

\* What the editor shows is the last that is requested or, without a request, what
\* the adapter holds, unless the session is still to send it.
MarkUnderWay(p) ==
  \/ LastFor(requests, p, marks[p])
  \/ NoneFor(requests, p) /\ breakpoints[p] = marks[p]

MarksUnderWay ==
  /\ session = "on" => toSend = {}
  /\ \A p \in Paths :
       session # "off" /\ IsScriptFile(p) /\ marks[p] # {} /\ p \notin toSend =>
         MarkUnderWay(p)

LEMMA LastForAppend ==
  ASSUME NEW q \in Seq(Requests), NEW r \in Requests, NEW p
  PROVE  /\ IsFor(r, p) => LastFor(Append(q, r), p, r.lines)
         /\ ~IsFor(r, p) =>
              /\ \A lines : LastFor(q, p, lines) => LastFor(Append(q, r), p, lines)
              /\ NoneFor(q, p) => NoneFor(Append(q, r), p)
<1>1. /\ Len(Append(q, r)) = Len(q) + 1
      /\ \A i \in 1..Len(q) : Append(q, r)[i] = q[i]
      /\ Append(q, r)[Len(q) + 1] = r
      /\ Len(q) \in Nat
  BY AppendProperties, LenProperties
<1> QED
  BY <1>1 DEF LastFor, NoneFor

LEMMA LastForTail ==
  ASSUME NEW q \in Seq(Requests), q # <<>>, NEW p
  PROVE  /\ \A lines : LastFor(q, p, lines) =>
              \/ LastFor(Tail(q), p, lines)
              \/ NoneFor(Tail(q), p) /\ IsFor(Head(q), p) /\ Head(q).lines = lines
         /\ NoneFor(q, p) => NoneFor(Tail(q), p) /\ ~IsFor(Head(q), p)
<1>1. /\ Len(q) \in Nat \ {0}
      /\ Len(Tail(q)) = Len(q) - 1
      /\ \A i \in 1..Len(Tail(q)) : Tail(q)[i] = q[i + 1]
      /\ Head(q) = q[1]
  BY HeadTailProperties, EmptySeq
<1> QED
  BY <1>1 DEF LastFor, NoneFor

\* A request added for file p.
LEMMA MarkRequested ==
  ASSUME TypeOK, NEW p \in Paths, NEW lines \in SUBSET Lines, NEW initial,
         Request(p, lines, initial), UNCHANGED breakpoints, NEW x \in Paths,
         IF x = p THEN marks'[x] = lines ELSE marks'[x] = marks[x] /\ MarkUnderWay(x)
  PROVE  MarkUnderWay(x)'
<1> DEFINE r == [type |-> "setBreakpoints", path |-> p, lines |-> lines]
<1>1. r \in Requests /\ r.lines = lines /\ (IsFor(r, x) <=> x = p)
  BY DEF Requests, IsFor
<1>2. requests' = Append(requests, r) /\ requests \in Seq(Requests)
  BY DEF Request, TypeOK, SessionTypeOK
<1> HIDE DEF r
<1>3. CASE x = p
  <2>1. LastFor(Append(requests, r), x, lines)
    BY <1>1, <1>2, <1>3, LastForAppend
  <2> QED
    BY <1>2, <1>3, <2>1 DEF MarkUnderWay
<1>4. CASE x # p
  <2>1. /\ \A l : LastFor(requests, x, l) => LastFor(requests', x, l)
        /\ NoneFor(requests, x) => NoneFor(requests', x)
    BY <1>1, <1>2, <1>4, LastForAppend
  <2> QED
    BY <1>4, <2>1 DEF MarkUnderWay
<1> QED
  BY <1>3, <1>4

\* A request the adapter handles, or one of another kind VS Code adds.
LEMMA MarkHandled ==
  ASSUME TypeOK, Others, UNCHANGED marks, NEW p \in Paths, IsScriptFile(p),
         MarkUnderWay(p)
  PROVE  MarkUnderWay(p)'
<1>1. requests \in Seq(Requests) /\ breakpoints \in [Paths -> SUBSET Lines]
  BY DEF TypeOK, SessionTypeOK
<1>2. CASE UNCHANGED <<requests, breakpoints>>
  BY <1>2 DEF MarkUnderWay
<1>3. CASE SetBreakPointsRequest
  <2> DEFINE r == Head(requests)
  <2>1. requests # <<>> /\ requests' = Tail(requests) /\ r.type = "setBreakpoints"
    BY <1>3 DEF SetBreakPointsRequest, Requested
  <2>2. /\ \A l : LastFor(requests, p, l) =>
                    \/ LastFor(requests', p, l)
                    \/ NoneFor(requests', p) /\ IsFor(r, p) /\ r.lines = l
        /\ NoneFor(requests, p) => NoneFor(requests', p) /\ ~IsFor(r, p)
    BY <1>1, <2>1, LastForTail
  <2>3. CASE IsFor(r, p)
    <3>1. r.path = p
      BY <2>3 DEF IsFor
    <3>2. breakpoints' = [breakpoints EXCEPT ![p] = r.lines]
      BY <1>3, <3>1 DEF SetBreakPointsRequest
    <3>3. breakpoints'[p] = r.lines
      BY <1>1, <3>2
    <3> QED
      BY <2>2, <2>3, <3>3 DEF MarkUnderWay
  <2>4. CASE ~IsFor(r, p)
    <3>1. r.path # p
      BY <2>1, <2>4 DEF IsFor
    <3>2. \/ breakpoints' = breakpoints
          \/ breakpoints' = [breakpoints EXCEPT ![r.path] = r.lines]
      BY <1>3 DEF SetBreakPointsRequest
    <3>3. breakpoints'[p] = breakpoints[p]
      BY <1>1, <3>1, <3>2
    <3> QED
      BY <2>2, <2>4, <3>3 DEF MarkUnderWay
  <2> QED
    BY <2>3, <2>4
<1>4. CASE ControlRequest
  <2>1. /\ requests # <<>> /\ requests' = Tail(requests)
        /\ Head(requests).type = "control" /\ breakpoints' = breakpoints
    BY <1>4 DEF ControlRequest, Requested
  <2>2. ~IsFor(Head(requests), p)
    BY <2>1 DEF IsFor
  <2>3. /\ \A l : LastFor(requests, p, l) => LastFor(requests', p, l)
        /\ NoneFor(requests, p) => NoneFor(requests', p)
    BY <1>1, <2>1, <2>2, LastForTail
  <2> QED
    BY <2>1, <2>3 DEF MarkUnderWay
<1>5. CASE Press
  <2>1. PICK c \in DebugCommands :
          requests' = Append(requests, [type |-> "control", command |-> c])
    BY <1>5 DEF Press
  <2>2. PICK r : r = [type |-> "control", command |-> c]
    OBVIOUS
  <2>3. r \in Requests /\ ~IsFor(r, p)
    BY <2>2 DEF Requests, IsFor
  <2>4. /\ \A l : LastFor(requests, p, l) => LastFor(requests', p, l)
        /\ NoneFor(requests, p) => NoneFor(requests', p)
    BY <1>1, <2>1, <2>2, <2>3, LastForAppend
  <2>5. breakpoints' = breakpoints
    BY <1>5 DEF Press
  <2> QED
    BY <2>4, <2>5 DEF MarkUnderWay
<1> QED
  BY <1>2, <1>3, <1>4, <1>5 DEF Others, Engine, ReceiverThread, Adapter, Socket,
     OnConnection, HandleGetBreakpoints, HandleStop, HandleVariables, OnEnd, Dap,
     sessionVars

LEMMA MarksKept ==
  ASSUME Sound, MarksUnderWay, [SessionsNext]_allVars
  PROVE  MarksUnderWay'
<1>1. TypeOK /\ SessionsTypeOK
  BY DEF Sound
<1>2. CASE StartSession
  BY <1>2, <1>1 DEF StartSession, MarksUnderWay, SessionsTypeOK
<1>3. CASE SendInitial
  <2>1. PICK s \in toSend : /\ toSend' = toSend \ {s}
                            /\ Request(s, marks[s], TRUE)
    BY <1>3 DEF SendInitial
  <2>2. /\ UNCHANGED <<marks, session, breakpoints>> /\ session = "starting"
        /\ s \in Paths /\ marks[s] \in SUBSET Lines
    BY <1>1, <1>3 DEF SendInitial, SessionsTypeOK
  <2>3. ASSUME NEW p \in Paths, IsScriptFile(p), marks[p] # {}, p \notin toSend'
        PROVE  MarkUnderWay(p)'
    <3>1. p # s => MarkUnderWay(p)
      BY <2>1, <2>2, <2>3 DEF MarksUnderWay
    <3> QED
      BY <1>1, <2>1, <2>2, <3>1, MarkRequested
  <2> QED
    BY <2>2, <2>3 DEF MarksUnderWay
<1>4. CASE Configured
  <2>1. /\ UNCHANGED <<marks, breakpoints, requests, toSend>>
        /\ session = "starting" /\ session' = "on" /\ toSend = {}
    BY <1>4 DEF Configured, vars, sessionVars
  <2> QED
    BY <2>1 DEF MarksUnderWay, MarkUnderWay
<1>5. CASE Edit
  <2>1. PICK s \in Paths, lines \in SUBSET Lines :
          /\ marks' = [marks EXCEPT ![s] = lines]
          /\ session # "off" => Request(s, lines, FALSE)
    BY <1>5 DEF Edit
  <2>2. UNCHANGED <<session, toSend, breakpoints>>
    BY <1>5 DEF Edit
  <2>3. ASSUME NEW p \in Paths, session # "off", IsScriptFile(p), marks'[p] # {},
               p \notin toSend
        PROVE  MarkUnderWay(p)'
    <3>1. IF p = s THEN marks'[p] = lines ELSE marks'[p] = marks[p]
      BY <1>1, <2>1 DEF SessionsTypeOK
    <3>2. p # s => MarkUnderWay(p)
      BY <2>3, <3>1 DEF MarksUnderWay
    <3> QED
      BY <1>1, <2>1, <2>2, <2>3, <3>1, <3>2, MarkRequested
  <2> QED
    BY <2>2, <2>3 DEF MarksUnderWay
<1>6. CASE ReadEventInSession
  <2>1. UNCHANGED <<marks, breakpoints, requests, toSend, session>>
    BY <1>6 DEF ReadEventInSession, ReadEvent
  <2> QED
    BY <2>1 DEF MarksUnderWay, MarkUnderWay
<1>7. CASE EndSession
  BY <1>7 DEF EndSession, MarksUnderWay
<1>8. CASE Others
  <2>1. UNCHANGED <<marks, toSend, session>>
    BY <1>8 DEF Others, sessionsVars
  <2>2. ASSUME NEW p \in Paths, IsScriptFile(p), MarkUnderWay(p)
        PROVE  MarkUnderWay(p)'
    BY <1>1, <1>8, <2>1, <2>2, MarkHandled
  <2> QED
    BY <2>1, <2>2 DEF MarksUnderWay
<1>9. CASE UNCHANGED allVars
  <2>1. UNCHANGED <<marks, breakpoints, requests, toSend, session>>
    BY <1>9 DEF allVars, vars, sessionVars, sessionsVars
  <2> QED
    BY <2>1 DEF MarksUnderWay, MarkUnderWay
<1> QED
  BY <1>2, <1>3, <1>4, <1>5, <1>6, <1>7, <1>8, <1>9 DEF SessionsNext

\* A session's own steps leave what NoUpdateLost speaks of alone.
LEMMA SessionSafe ==
  ASSUME TypeOK, NoUpdateLost, SessionStep
  PROVE  NoUpdateLost'
<1> SUFFICES ASSUME NEW x \in Engines PROVE Safe(x)'
  BY DEF NoUpdateLost, Safe
<1>1. Safe(x)
  BY DEF NoUpdateLost, Safe
<1>2. UNCHANGED <<wireVars, engineVars, breakpoints, clients>>
  BY SessionStepLeaves
<1>3. AwaitsBreakpoints(x) => AwaitsBreakpoints(x)'
  BY <1>2 DEF AwaitsBreakpoints, wireVars, engineVars, threadVars
<1>4. Keeps(x)
  BY <1>2, <1>3 DEF Keeps, wireVars, engineVars, backendVars, threadVars
<1> QED
  BY <1>1, <1>4, KeepsSafe

\* Once a session is configured and nothing is under way, the engine has what the
\* editor shows, whatever was edited without a session, while one was starting or in
\* one, and however many sessions and engines came and went.
THEOREM MarksReachEngines == SessionsSpec => []EngineHasMarks
<1>1. ASSUME SessionsInit PROVE NoUpdateLost /\ MarksUnderWay
  <2>1. NoUpdateLost
    BY <1>1, InitSafe DEF SessionsInit, NoUpdateLost, Safe
  <2> QED
    BY <1>1, <2>1 DEF SessionsInit, MarksUnderWay
<1>2. ASSUME Sound, NoUpdateLost, [SessionsNext]_allVars PROVE NoUpdateLost'
  <2>1. TypeOK
    BY <1>2 DEF Sound
  <2>2. CASE SessionStep
    BY <1>2, <2>1, <2>2, SessionSafe
  <2>3. CASE Others \/ ReadEventInSession \/ UNCHANGED allVars
    BY <1>2, <2>1, <2>3, SystemSteps, NextSafe
  <2> QED
    BY <1>2, <2>2, <2>3 DEF SessionsNext, SessionStep
<1>3. ASSUME Sound, NoUpdateLost, MarksUnderWay PROVE EngineHasMarks
  <2> SUFFICES ASSUME NEW e \in Engines, NEW p \in Paths, Settled, Quiet(e),
                      ~misread[e], IsScriptFile(p), marks[p] # {}
               PROVE  InList(e, p) = marks[p]
    BY DEF EngineHasMarks
  <2>1. TypeOK /\ SessionsTypeOK
    BY <1>3 DEF Sound
  <2>2. breakpointList[e] = Entries(breakpoints)
    BY <1>3, <2>1, ConvergedFollows DEF Converged
  <2>3. MarkUnderWay(p) /\ requests = <<>>
    BY <1>3 DEF MarksUnderWay, Settled
  <2>4. ~LastFor(requests, p, marks[p])
    BY <2>3 DEF LastFor
  <2>5. breakpoints[p] = marks[p]
    BY <2>3, <2>4 DEF MarkUnderWay
  <2>6. marks[p] \subseteq Lines
    BY <2>1 DEF SessionsTypeOK
  <2>7. ASSUME NEW l \in marks[p] PROVE l \in InList(e, p)
    <3>1. PICK b \in [path : Paths, line : Lines] : b.path = p /\ b.line = l
      <4>1. [path |-> p, line |-> l] \in [path : Paths, line : Lines]
        BY <2>6
      <4> QED
        BY <4>1
    <3>2. b \in Entries(breakpoints)
      BY <2>5, <3>1 DEF Entries
    <3> QED
      BY <2>2, <3>1, <3>2 DEF InList
  <2>8. ASSUME NEW l \in InList(e, p) PROVE l \in marks[p]
    BY <2>2, <2>5 DEF InList, Entries
  <2> QED
    BY <2>7, <2>8
<1> QED
  BY <1>1, <1>2, <1>3, MarksKept, SoundFirst, SoundKept, PTL DEF SessionsSpec

-----------------------------------------------------------------------------
\* The token across sessions.

\* VS Code drops what it has of a session, and nothing it asked for is under way.
LEMMA Dropped ==
  ASSUME TypeOK, OneAtATime, OneToken, ~Ordered,
         UNCHANGED <<wireVars, engineVars, currentBreakpoint, requests>>,
         events' = <<>>, ~uiStopped', awaiting' = 0
  PROVE  OneToken'
<1>1. UNCHANGED <<pc, cmd, target, debugCommand, rxQueue, toEngine, toSession,
                  link, currentBreakpoint, requests>>
  BY DEF wireVars, engineVars, threadVars, backendVars
<1>2. /\ (Sent' <=> Sent) /\ (Stored' <=> Stored)
      /\ (InStream' <=> InStream) /\ (InChunk' <=> InChunk) /\ (UnderWay' <=> UnderWay)
  BY <1>1 DEF Sent, InStream, InChunk, Stored, UnderWay
<1>3. ~Told' /\ ~Shown' /\ ~Ordered'
  BY <1>1, InEmpty DEF Told, Shown, Ordered
<1>4. AtOnePlace'
  BY <1>2, <1>3 DEF AtOnePlace, OneToken
<1>5. OnlyOnce'
  BY <1>1, InEmpty DEF OnlyOnce, OneToken
<1>6. WhileStanding'
  BY <1>1, <1>2, <1>3 DEF WhileStanding, OneToken, Standing
<1>7. Answers'
  <2>1. Len(events') = 0 /\ ~Has(events', {"resumed"}) /\ Once(events', {"resumed"})
    BY InEmpty
  <2> QED
    BY <1>3, <2>1 DEF Answers
<1>8. SamePlace'
  BY <1>1, <1>2, <1>3 DEF SamePlace, OneToken
<1> QED
  BY <1>4, <1>5, <1>6, <1>7, <1>8 DEF OneToken

LEMMA SessionToken ==
  ASSUME Sound, OneAtATime, OneToken, SessionStep
  PROVE  OneToken'
<1>1. TypeOK /\ SessionsTypeOK /\ BetweenSessions
  BY DEF Sound
<1>2. CASE StartSession
  <2>1. /\ UNCHANGED <<wireVars, engineVars, currentBreakpoint, requests>>
        /\ events' = <<>> /\ uiStopped' = uiStopped /\ awaiting' = awaiting
    BY <1>2 DEF StartSession, uiVars
  <2>2. ~uiStopped /\ awaiting = 0
    BY <1>1, <1>2 DEF StartSession, BetweenSessions
  <2>3. ~Ordered
    BY <2>2 DEF OneToken, Answers
  <2> QED
    BY <1>1, <2>1, <2>2, <2>3, Dropped
<1>3. CASE SendInitial
  <2>1. PICK p \in toSend : Request(p, marks[p], TRUE)
    BY <1>3 DEF SendInitial
  <2>2. p \in Paths /\ marks[p] \in SUBSET Lines
    BY <1>1 DEF SessionsTypeOK
  <2>3. UNCHANGED <<wireVars, engineVars, events, uiStopped, awaiting,
                    currentBreakpoint>>
    BY <1>3 DEF SendInitial, uiVars
  <2> QED
    BY <1>1, <2>1, <2>2, <2>3, RequestsBreakpoints DEF Request
<1>4. CASE Configured
  BY <1>4, Unseen DEF Configured, vars, sessionVars, uiVars
<1>5. CASE Edit
  <2>1. UNCHANGED <<wireVars, engineVars, events, uiStopped, awaiting,
                    currentBreakpoint>>
    BY <1>5 DEF Edit
  <2>2. CASE UNCHANGED requests
    BY <2>1, <2>2, Unseen
  <2>3. ASSUME NEW p \in Paths, NEW lines \in SUBSET Lines, Request(p, lines, FALSE)
        PROVE  OneToken'
    BY <1>1, <2>1, <2>3, RequestsBreakpoints DEF Request
  <2> QED
    BY <1>5, <2>2, <2>3 DEF Edit
<1>6. CASE EndSession
  <2>1. /\ UNCHANGED <<wireVars, engineVars, currentBreakpoint, requests>>
        /\ events' = <<>> /\ ~uiStopped' /\ awaiting' = 0
        /\ requests = <<>>
    BY <1>6 DEF EndSession
  <2>2. ~Ordered
    BY <2>1, InEmpty DEF Ordered
  <2> QED
    BY <1>1, <2>1, <2>2, Dropped
<1> QED
  BY <1>2, <1>3, <1>4, <1>5, <1>6 DEF SessionStep

\* With one engine and one control request at a time, a stop is shown only in the
\* session that is active, and only where and while the engine stands at it, though a
\* session may end before a stop is shown, answered or left, and another begin.
THEOREM StopShownInSession ==
  ASSUME OneAtATime
  PROVE  SessionsSpec => []ShowsTheStopOfSession
<1>1. SessionsInit => OneToken
  BY InitToken DEF SessionsInit
<1>2. ASSUME Sound, OneToken, [SessionsNext]_allVars PROVE OneToken'
  <2>1. TypeOK
    BY <1>2 DEF Sound
  <2>2. CASE SessionStep
    BY <1>2, <2>2, SessionToken
  <2>3. CASE Others \/ ReadEventInSession \/ UNCHANGED allVars
    BY <1>2, <2>1, <2>3, SystemSteps, NextToken
  <2> QED
    BY <1>2, <2>2, <2>3 DEF SessionsNext, SessionStep
<1>3. ASSUME Sound, OneToken PROVE ShowsTheStopOfSession
  <2>1. uiStopped => session # "off"
    BY <1>3 DEF Sound, BetweenSessions
  <2>2. ASSUME NEW e \in Engines, Shown
        PROVE  pc[e] \in {"vars", "wait"} /\ currentBreakpoint = target[e]
    <3>1. e = E
      BY DEF OneAtATime
    <3>2. Standing /\ ~Stored /\ currentBreakpoint = target[E]
      BY <1>3, <2>2 DEF OneToken, WhileStanding, AtOnePlace, SamePlace, UnderWay
    <3> QED
      BY <1>3, <3>1, <3>2 DEF OneToken, WhileStanding, Standing
  <2> QED
    BY <2>1, <2>2 DEF ShowsTheStopOfSession, ShowsTheStop, Shown
<1> QED
  BY <1>1, <1>2, <1>3, SoundFirst, SoundKept, PTL DEF SessionsSpec
=============================================================================
