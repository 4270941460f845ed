--------------------------- MODULE OneEngine_proofs --------------------------
(***************************************************************************)
(* With one engine and one control request at a time, a stop is a token:   *)
(* the STOP message, the stopped event, the stop VS Code shows, the        *)
(* request that ends it and the command it becomes are five places of      *)
(* which the token is in one.  The safety properties of the system under   *)
(* one user follow from where it can be.                                   *)
(***************************************************************************)
EXTENDS OneEngine, DebugSystem_proofs

\* The elements of q that are in T, and whether there is one, or at most one.
Those(q, T) == {q[i] : i \in 1..Len(q)} \cap T
Has(q, T) == Those(q, T) # {}
Once(q, T) == \A i, j \in 1..Len(q) : q[i] \in T /\ q[j] \in T => i = j

LEMMA InEmpty ==
  ASSUME NEW T
  PROVE  Those(<<>>, T) = {} /\ ~Has(<<>>, T) /\ Once(<<>>, T)
  BY DEF Those, Has, Once

LEMMA InSequence ==
  ASSUME NEW S, NEW q \in Seq(S), NEW T
  PROVE  /\ \A i \in 1..Len(q) : q[i] \in T => q[i] \in Those(q, T) /\ Has(q, T)
         /\ \A x \in Those(q, T) : x \in T /\ \E i \in 1..Len(q) : q[i] = x
  BY DEF Those, Has

\* An element put behind the others.
LEMMA InAppend ==
  ASSUME NEW S, NEW q \in Seq(S), NEW x \in S, NEW T
  PROVE  /\ Those(Append(q, x), T) = Those(q, T) \cup ({x} \cap T)
         /\ Has(Append(q, x), T) <=> Has(q, T) \/ x \in T
         /\ Once(Append(q, x), T) <=> Once(q, T) /\ (x \in T => ~Has(q, T))
<1> DEFINE r == Append(q, x)
<1>1. /\ Len(q) \in Nat
      /\ Len(r) = Len(q) + 1
      /\ \A i \in 1..Len(q) : r[i] = q[i]
      /\ r[Len(q) + 1] = x
  BY AppendProperties
<1> HIDE DEF r
<1>2. Those(r, T) = Those(q, T) \cup ({x} \cap T)
  BY <1>1 DEF Those
<1>3. Has(r, T) <=> Has(q, T) \/ x \in T
  BY <1>2 DEF Has
<1>4. ASSUME Once(r, T) PROVE Once(q, T) /\ (x \in T => ~Has(q, T))
  <2>1. Once(q, T)
    BY <1>1, <1>4 DEF Once
  <2>2. ASSUME x \in T, Has(q, T) PROVE FALSE
    <3>1. PICK i \in 1..Len(q) : q[i] \in T
      BY <2>2 DEF Has, Those
    <3>2. i \in 1..Len(r) /\ Len(q) + 1 \in 1..Len(r) /\ i # Len(q) + 1
      BY <1>1
    <3> QED
      BY <1>1, <1>4, <2>2, <3>1, <3>2 DEF Once
  <2> QED
    BY <2>1, <2>2
<1>5. ASSUME Once(q, T), x \in T => ~Has(q, T) PROVE Once(r, T)
  <2> SUFFICES ASSUME NEW i \in 1..Len(r), NEW j \in 1..Len(r),
                      r[i] \in T, r[j] \in T
               PROVE  i = j
    BY DEF Once
  <2>1. \A k \in 1..Len(q) : x \in T => q[k] \notin T
    BY <1>5 DEF Has, Those
  <2> QED
    BY <1>1, <1>5, <2>1 DEF Once
<1> QED
  BY <1>2, <1>3, <1>4, <1>5 DEF r

\* A queue and its two parts.
LEMMA InParts ==
  ASSUME NEW S, NEW q \in Seq(S), NEW k \in 0..Len(q), NEW T
  PROVE  LET front == SubSeq(q, 1, k)
             rest == SubSeq(q, k + 1, Len(q))
         IN  /\ Those(q, T) = Those(front, T) \cup Those(rest, T)
             /\ Has(q, T) <=> Has(front, T) \/ Has(rest, T)
             /\ Once(q, T) => /\ Once(front, T) /\ Once(rest, T)
                              /\ ~(Has(front, T) /\ Has(rest, T))
<1> DEFINE front == SubSeq(q, 1, k)
           rest == SubSeq(q, k + 1, Len(q))
<1>1. /\ Len(q) \in Nat /\ k \in Nat /\ k <= Len(q)
      /\ Len(front) = k
      /\ \A i \in 1..k : front[i] = q[i]
      /\ Len(rest) = Len(q) - k
      /\ \A i \in 1..(Len(q) - k) : rest[i] = q[k + i]
  BY SubSeqProperties
<1> HIDE DEF front, rest
<1>2. Those(q, T) = Those(front, T) \cup Those(rest, T)
  <2>1. ASSUME NEW i \in 1..Len(q)
        PROVE  q[i] \in {front[j] : j \in 1..Len(front)}
                          \cup {rest[j] : j \in 1..Len(rest)}
    <3>1. CASE i <= k
      BY <1>1, <3>1
    <3>2. CASE i > k
      <4>1. i - k \in 1..(Len(q) - k) /\ k + (i - k) = i
        BY <1>1, <3>2
      <4> QED
        BY <1>1, <4>1
    <3> QED
      BY <1>1, <3>1, <3>2
  <2>2. Those(q, T) \subseteq Those(front, T) \cup Those(rest, T)
    BY <2>1 DEF Those
  <2>3. /\ \A i \in 1..k : i \in 1..Len(q)
        /\ \A i \in 1..(Len(q) - k) : k + i \in 1..Len(q)
    BY <1>1
  <2>4. Those(front, T) \cup Those(rest, T) \subseteq Those(q, T)
    BY <1>1, <2>3 DEF Those
  <2> QED
    BY <2>2, <2>4
<1>3. Has(q, T) <=> Has(front, T) \/ Has(rest, T)
  BY <1>2 DEF Has
<1>4. ASSUME Once(q, T) PROVE Once(front, T) /\ Once(rest, T)
  <2>1. Once(front, T)
    BY <1>1, <1>4 DEF Once
  <2>2. ASSUME NEW i \in 1..Len(rest), NEW j \in 1..Len(rest),
               rest[i] \in T, rest[j] \in T
        PROVE  i = j
    <3>1. k + i \in 1..Len(q) /\ k + j \in 1..Len(q)
      BY <1>1
    <3>2. q[k + i] \in T /\ q[k + j] \in T
      BY <1>1, <2>2
    <3>3. k + i = k + j
      BY <1>4, <3>1, <3>2 DEF Once
    <3> QED
      BY <1>1, <3>3
  <2> QED
    BY <2>1, <2>2 DEF Once
<1>5. ASSUME Once(q, T), Has(front, T), Has(rest, T) PROVE FALSE
  <2>1. PICK i \in 1..k : q[i] \in T
    BY <1>1, <1>5 DEF Has, Those
  <2>2. PICK j \in 1..(Len(q) - k) : q[k + j] \in T
    BY <1>1, <1>5 DEF Has, Those
  <2>3. i \in 1..Len(q) /\ k + j \in 1..Len(q) /\ i # k + j
    BY <1>1
  <2> QED
    BY <1>5, <2>1, <2>2, <2>3 DEF Once
<1> QED
  BY <1>2, <1>3, <1>4, <1>5 DEF front, rest

\* The first element and the others.
LEMMA InTail ==
  ASSUME NEW S, NEW q \in Seq(S), q # <<>>, NEW T
  PROVE  /\ Those(q, T) = Those(Tail(q), T) \cup ({Head(q)} \cap T)
         /\ Has(q, T) <=> Has(Tail(q), T) \/ Head(q) \in T
         /\ Once(q, T) => /\ Once(Tail(q), T)
                          /\ Head(q) \in T => ~Has(Tail(q), T)
<1>1. /\ Len(q) \in Nat \ {0}
      /\ 1 \in 0..Len(q)
      /\ Head(q) = q[1]
      /\ Tail(q) = SubSeq(q, 1 + 1, Len(q))
  BY TailIsSubSeq, EmptySeq
<1>2. Len(SubSeq(q, 1, 1)) = 1 /\ SubSeq(q, 1, 1)[1] = q[1]
  BY <1>1, SubSeqProperties
<1>3. Those(SubSeq(q, 1, 1), T) = {Head(q)} \cap T
  BY <1>1, <1>2 DEF Those
<1>4. Has(SubSeq(q, 1, 1), T) <=> Head(q) \in T
  BY <1>3 DEF Has
<1> DEFINE front == SubSeq(q, 1, 1)
           rest == SubSeq(q, 1 + 1, Len(q))
<1>5. /\ Those(q, T) = Those(front, T) \cup Those(rest, T)
      /\ Has(q, T) <=> Has(front, T) \/ Has(rest, T)
      /\ Once(q, T) => /\ Once(front, T) /\ Once(rest, T)
                       /\ ~(Has(front, T) /\ Has(rest, T))
  BY <1>1, InParts
<1> QED
  BY <1>1, <1>3, <1>4, <1>5

\* A queue behind an element that is not in T.
LEMMA InBehind ==
  ASSUME NEW S, NEW q \in Seq(S), NEW T, NEW x \in S, x \notin T
  PROVE  /\ Those(<<x>> \o q, T) = Those(q, T)
         /\ Has(<<x>> \o q, T) <=> Has(q, T)
         /\ Once(q, T) => Once(<<x>> \o q, T)
<1> DEFINE r == <<x>> \o q
<1>1. /\ Len(q) \in Nat /\ Len(r) = Len(q) + 1
      /\ r[1] = x
      /\ \A i \in 1..Len(q) : r[i + 1] = q[i]
  OBVIOUS
<1> HIDE DEF r
<1>2. \A i \in 1..Len(r) : i # 1 => i - 1 \in 1..Len(q) /\ r[i] = q[i - 1]
  <2>1. ASSUME NEW i \in 1..Len(r), i # 1
        PROVE  i - 1 \in 1..Len(q) /\ r[i] = q[i - 1]
    <3>1. i - 1 \in 1..Len(q) /\ (i - 1) + 1 = i
      BY <1>1, <2>1
    <3> QED
      BY <1>1, <3>1
  <2> QED
    BY <2>1
<1>3. \A i \in 1..Len(q) : i + 1 \in 1..Len(r)
  BY <1>1
<1>4. Those(r, T) = Those(q, T)
  <2>1. \A i \in 1..Len(r) : r[i] \in T => r[i] \in {q[j] : j \in 1..Len(q)}
    BY <1>1, <1>2
  <2>2. \A i \in 1..Len(q) : q[i] \in {r[j] : j \in 1..Len(r)}
    BY <1>1, <1>3
  <2> QED
    BY <2>1, <2>2 DEF Those
<1>5. Has(r, T) <=> Has(q, T)
  BY <1>4 DEF Has
<1>6. ASSUME Once(q, T) PROVE Once(r, T)
  <2> SUFFICES ASSUME NEW i \in 1..Len(r), NEW j \in 1..Len(r), r[i] \in T, r[j] \in T
               PROVE  i = j
    BY DEF Once
  <2>1. i # 1 /\ j # 1
    BY <1>1
  <2>2. i - 1 = j - 1
    BY <1>2, <1>6, <2>1 DEF Once
  <2> QED
    BY <2>2
<1> QED
  BY <1>4, <1>5, <1>6 DEF r

\* What is left of a queue.
LEMMA InLeft ==
  ASSUME NEW S, NEW q \in Seq(S), NEW T, NEW left,
         left = <<>> \/ \E i \in 1..Len(q) : left = SubSeq(q, i + 1, Len(q))
  PROVE  /\ Those(left, T) \subseteq Those(q, T)
         /\ Once(q, T) => Once(left, T)
<1>1. CASE left = <<>>
  BY <1>1, InEmpty
<1>2. ASSUME NEW i \in 1..Len(q), left = SubSeq(q, i + 1, Len(q))
      PROVE  /\ Those(left, T) \subseteq Those(q, T)
             /\ Once(q, T) => Once(left, T)
  <2>1. i \in 0..Len(q)
    OBVIOUS
  <2>2. /\ Those(q, T) = Those(SubSeq(q, 1, i), T) \cup Those(SubSeq(q, i + 1, Len(q)), T)
        /\ Once(q, T) => Once(SubSeq(q, i + 1, Len(q)), T)
    BY <2>1, InParts
  <2> QED
    BY <1>2, <2>2
<1> QED
  BY <1>1, <1>2

\* A message m behind others, read as itself, as something not in T, or not.
LEMMA InReading ==
  ASSUME NEW S, NEW less \in Seq(S), NEW m \in S, NEW T,
         NEW reading \in Seq(S),
         reading = <<>> \/ reading = <<m>> \/ \E x \in S \ T : reading = <<x>>
  PROVE  LET read == less \o reading
             all == Append(less, m)
         IN  /\ Those(read, T) \subseteq Those(all, T)
             /\ Once(all, T) => Once(read, T)
<1> DEFINE read == less \o reading
           all == Append(less, m)
<1>1. /\ Those(all, T) = Those(less, T) \cup ({m} \cap T)
      /\ Once(all, T) => Once(less, T)
  BY InAppend
<1>2. CASE reading = <<>>
  <2>1. read = less
    BY <1>2, ConcatEmptySeq
  <2> QED
    BY <1>1, <2>1
<1>3. CASE reading = <<m>>
  <2>1. read = all
    BY <1>3, AppendIsConcat
  <2> QED
    BY <2>1
<1>4. CASE \E x \in S \ T : reading = <<x>>
  <2>1. PICK x \in S \ T : reading = <<x>>
    BY <1>4
  <2>2. read = Append(less, x)
    BY <2>1, AppendIsConcat
  <2>3. /\ Those(Append(less, x), T) = Those(less, T) \cup ({x} \cap T)
        /\ Once(less, T) => Once(Append(less, x), T)
    BY <2>1, InAppend
  <2>4. {x} \cap T = {}
    BY <2>1
  <2>5. Those(read, T) = Those(less, T) /\ (Once(less, T) => Once(read, T))
    BY <2>2, <2>3, <2>4
  <2> QED
    BY <1>1, <2>5, Zenon
<1> QED
  BY <1>2, <1>3, <1>4

\* A queue whose k-th message is cut.
LEMMA InCut ==
  ASSUME NEW S, NEW q \in Seq(S), NEW k \in 1..Len(q), NEW T,
         NEW reading \in Seq(S),
         reading = <<>> \/ reading = <<q[k]>> \/ \E x \in S \ T : reading = <<x>>
  PROVE  LET front == SubSeq(q, 1, k)
             read == SubSeq(q, 1, k - 1) \o reading
         IN  /\ Those(read, T) \subseteq Those(front, T)
             /\ Has(read, T) => Has(front, T)
             /\ Once(front, T) => Once(read, T)
<1> DEFINE front == SubSeq(q, 1, k)
           less == SubSeq(q, 1, k - 1)
           read == less \o reading
<1>1. less \in Seq(S) /\ q[k] \in S
  BY SubSeqProperties
<1>2. front = Append(less, q[k])
  <2>1. 1 \in 1..Len(q) /\ k \in 1..Len(q)
    OBVIOUS
  <2>2. front = less \o <<q[k]>>
    BY <2>1, SubSeqRecursiveSecond
  <2> QED
    BY <1>1, <2>2, AppendIsConcat
<1> HIDE DEF front, less
<1>3. PICK m \in S : m = q[k]
  BY <1>1
<1>4. /\ Those(less \o reading, T) \subseteq Those(Append(less, m), T)
      /\ Once(Append(less, m), T) => Once(less \o reading, T)
  BY <1>1, <1>3, InReading
<1>5. /\ Those(read, T) \subseteq Those(front, T)
      /\ Once(front, T) => Once(read, T)
  BY <1>2, <1>3, <1>4
<1> HIDE DEF read
<1>6. Has(read, T) => Has(front, T)
  BY <1>5 DEF Has
<1> QED
  BY <1>5, <1>6 DEF front, less, read

-----------------------------------------------------------------------------
\* The token of a stop.

Stops == {m \in SessionMsgs : m.type = "STOP"}
Commands == {m \in EngineMsgs : m.type = "COMMAND"}
Controls == {r \in Requests : r.type = "control"}

\* One engine, and one control request at a time.
OneAtATime == Engines = {E} /\ MaxPending <= 1

\* The five places.  A command is in the stream, in the chunk or in the slot.
Sent == link[E] \in {"pending", "up", "reset"} /\ Has(toSession[E], Stops)
Told == Has(events, {"stopped"})
Shown == uiStopped /\ awaiting = 0
Ordered == Has(requests, Controls)
InStream == Has(toEngine[E], Commands)
InChunk == Has(rxQueue[E], Commands)
Stored == debugCommand[E] # "Nothing"
UnderWay == InStream \/ InChunk \/ Stored

AtOnePlace ==
  /\ Sent => ~Told /\ ~Shown /\ ~Ordered /\ ~UnderWay
  /\ Told => ~Shown /\ ~Ordered /\ ~UnderWay
  /\ Shown => ~Ordered /\ ~UnderWay
  /\ Ordered => ~UnderWay
  /\ InStream => ~InChunk /\ ~Stored
  /\ InChunk => ~Stored

OnlyOnce ==
  /\ Once(toSession[E], Stops)
  /\ Once(events, {"stopped"})
  /\ Once(requests, Controls)
  /\ Once(toEngine[E], Commands)
  /\ Once(rxQueue[E], Commands)

\* There is a token only while the engine stands, and the command it takes is
\* the one in the slot.  Before the engine connects it has sent nothing.
WhileStanding ==
  /\ Sent \/ Told \/ Shown \/ Ordered \/ UnderWay => Standing
  /\ pc[E] = "take" => Stored /\ cmd[E] = debugCommand[E]
  /\ pc[E] = "start" => toSession[E] = <<>>

\* VS Code awaits a response while its request waits or the response is on its
\* way back, and a response reaches it before the next stop does.
Answers ==
  /\ awaiting \in {0, 1}
  /\ awaiting = 1 <=> Ordered \/ Has(events, {"resumed"})
  /\ Ordered => ~Has(events, {"resumed"})
  /\ Once(events, {"resumed"})
  /\ \A i, j \in 1..Len(events) :
       events[i] = "resumed" /\ events[j] = "stopped" => i < j

\* The token says where the engine stands.
SamePlace ==
  /\ Sent => \A m \in Those(toSession[E], Stops) : m.at = target[E]
  /\ Told \/ Shown \/ Ordered => currentBreakpoint = target[E]
  /\ Told \/ Shown \/ Ordered => link[E] \in {"up", "reset", "down"}

OneToken ==
  /\ AtOnePlace
  /\ OnlyOnce
  /\ WhileStanding
  /\ Answers
  /\ SamePlace

LEMMA MessageClasses ==
  /\ GetBreakpointsMsg \notin Stops
  /\ VariablesMsg \notin Stops
  /\ EndOfStream \notin Stops
  /\ EndOfStream \notin Commands
  /\ \A loc \in Location : StopMsg(loc) \in Stops /\ StopMsg(loc).at = loc
  /\ \A c \in DebugCommands :
       CommandMsg(c) \in Commands /\ CommandMsg(c).command = c
  /\ \A l : BreakpointsMsg(l) \notin Commands
<1>1. /\ GetBreakpointsMsg \notin Stops
      /\ VariablesMsg \notin Stops
      /\ EndOfStream \notin Stops
      /\ EndOfStream \notin Commands
  BY DEF GetBreakpointsMsg, VariablesMsg, EndOfStream, Stops, Commands
<1>2. \A loc \in Location : StopMsg(loc) \in Stops /\ StopMsg(loc).at = loc
  BY DEF StopMsg, Stops, SessionMsgs
<1>3. \A c \in DebugCommands :
        CommandMsg(c) \in Commands /\ CommandMsg(c).command = c
  BY DEF CommandMsg, Commands, EngineMsgs
<1>4. \A l : BreakpointsMsg(l) \notin Commands
  BY DEF BreakpointsMsg, Commands
<1> QED
  BY <1>1, <1>2, <1>3, <1>4

LEMMA QueueTypes ==
  ASSUME TypeOK, OneAtATime
  PROVE  /\ E \in Engines
         /\ toSession[E] \in Seq(SessionMsgs)
         /\ toEngine[E] \in Seq(EngineMsgs)
         /\ rxQueue[E] \in Seq(EngineMsgs)
         /\ requests \in Seq(Requests)
         /\ events \in Seq({"stopped", "resumed", "verified"})
         /\ awaiting \in Int
  BY DEF TypeOK, WireTypeOK, BackendTypeOK, SessionTypeOK, UiTypeOK, OneAtATime

LEMMA InitToken == Init /\ OneAtATime => OneToken
<1> SUFFICES ASSUME Init, OneAtATime PROVE OneToken
  OBVIOUS
<1>1. /\ E \in Engines
      /\ toSession[E] = <<>> /\ toEngine[E] = <<>> /\ rxQueue[E] = <<>>
      /\ requests = <<>> /\ events = <<>>
      /\ debugCommand[E] = "Nothing" /\ pc[E] = "start"
      /\ ~uiStopped /\ awaiting = 0
  BY DEF Init, WireInit, BackendInit, ThreadInit, SessionInit, UiInit, OneAtATime
<1>2. ~Sent /\ ~Told /\ ~Shown /\ ~Ordered /\ ~UnderWay
  BY <1>1, InEmpty DEF Sent, Told, Shown, Ordered, UnderWay, InStream, InChunk,
     Stored
<1>3. AtOnePlace /\ WhileStanding /\ SamePlace
  BY <1>1, <1>2 DEF AtOnePlace, WhileStanding, SamePlace, UnderWay
<1>4. OnlyOnce
  BY <1>1, InEmpty DEF OnlyOnce
<1>5. Answers
  <2>1. ~Has(events, {"resumed"}) /\ Once(events, {"resumed"})
    BY <1>1, InEmpty
  <2>2. Len(events) = 0
    BY <1>1
  <2> QED
    BY <1>1, <1>2, <2>1, <2>2 DEF Answers
<1> QED
  BY <1>3, <1>4, <1>5 DEF OneToken

\* Steps that leave VS Code and its requests alone.
LEMMA SameSession ==
  ASSUME UNCHANGED <<requests, events, uiStopped, awaiting>>
  PROVE  /\ Told' <=> Told
         /\ Shown' <=> Shown
         /\ Ordered' <=> Ordered
         /\ Answers' <=> Answers
         /\ Once(events', {"stopped"}) <=> Once(events, {"stopped"})
         /\ Once(requests', Controls) <=> Once(requests, Controls)
<1>1. Told' <=> Told
  BY DEF Told
<1>2. Shown' <=> Shown
  BY DEF Shown
<1>3. Ordered' <=> Ordered
  BY DEF Ordered
<1> QED
  BY <1>1, <1>2, <1>3 DEF Answers

\* Steps that leave the commands under way alone.
LEMMA SameCommands ==
  ASSUME UNCHANGED <<toEngine, rxQueue, debugCommand>>
  PROVE  /\ InStream' <=> InStream
         /\ InChunk' <=> InChunk
         /\ Stored' <=> Stored
         /\ UnderWay' <=> UnderWay
  BY DEF InStream, InChunk, Stored, UnderWay

-----------------------------------------------------------------------------
\* The script thread.

\* It has no token while it runs the script, starts or shuts down.
LEMMA Running ==
  ASSUME OneToken, ~Standing, ~Standing',
         UNCHANGED <<requests, events, uiStopped, awaiting>>,
         UNCHANGED <<toEngine, rxQueue, debugCommand>>,
         Sent' => Sent,
         Once(toSession[E], Stops) => Once(toSession'[E], Stops),
         pc'[E] # "start" \/ toSession'[E] = <<>>
  PROVE  OneToken'
<1>1. ~Sent /\ ~Told /\ ~Shown /\ ~Ordered /\ ~UnderWay
  BY DEF OneToken, WhileStanding
<1>2. ~Sent' /\ ~Told' /\ ~Shown' /\ ~Ordered' /\ ~UnderWay'
  BY <1>1, SameSession, SameCommands
<1>3. AtOnePlace' /\ SamePlace'
  BY <1>2 DEF AtOnePlace, SamePlace, UnderWay
<1>4. OnlyOnce'
  BY SameSession DEF OnlyOnce, OneToken
<1>5. WhileStanding'
  BY <1>2 DEF WhileStanding, Standing
<1> QED
  BY <1>3, <1>4, <1>5, SameSession DEF OneToken

\* A message that is no STOP, and the end of the stream, bring no token.
LEMMA SendsNoStop ==
  ASSUME TypeOK, OneAtATime, NEW m \in SessionMsgs, m \notin Stops,
         SendToSession(E, m)
  PROVE  /\ Has(toSession'[E], Stops) <=> Has(toSession[E], Stops)
         /\ Those(toSession'[E], Stops) = Those(toSession[E], Stops)
         /\ Once(toSession'[E], Stops) <=> Once(toSession[E], Stops)
<1>1. CASE link[E] \in {"pending", "up"}
  <2>1. toSession'[E] = Append(toSession[E], m)
    BY <1>1, QueueTypes DEF SendToSession, TypeOK, WireTypeOK
  <2>2. {m} \cap Stops = {}
    OBVIOUS
  <2>3. /\ Those(Append(toSession[E], m), Stops)
             = Those(toSession[E], Stops) \cup ({m} \cap Stops)
        /\ Has(Append(toSession[E], m), Stops)
             <=> Has(toSession[E], Stops) \/ m \in Stops
        /\ Once(Append(toSession[E], m), Stops)
             <=> /\ Once(toSession[E], Stops)
                 /\ m \in Stops => ~Has(toSession[E], Stops)
    BY QueueTypes, InAppend
  <2> QED
    BY <2>1, <2>2, <2>3
<1>2. CASE link[E] \notin {"pending", "up"}
  BY <1>2 DEF SendToSession
<1> QED
  BY <1>1, <1>2

LEMMA ClosesWithoutStop ==
  ASSUME TypeOK, OneAtATime, CloseStream(E)
  PROVE  /\ Sent' => Sent
         /\ Once(toSession'[E], Stops) <=> Once(toSession[E], Stops)
<1>1. CASE SendToSession(E, EndOfStream) /\ UNCHANGED link
  BY <1>1, SendsNoStop, MessageTypes, MessageClasses DEF Sent
<1>2. CASE link[E] = "up" /\ UNCHANGED toSession
  BY <1>2 DEF Sent
<1> QED
  BY <1>1, <1>2 DEF CloseStream

\* Every step of the thread outside the stop.
LEMMA RunningSteps ==
  ASSUME TypeOK, OneAtATime, OneToken,
         \/ Start(E) \/ StartReceiverThread(E) \/ SendBreakpointsRequest(E)
         \/ BuildScript(E) \/ BuildFail(E) \/ ScriptEnds(E) \/ Shutdown(E)
         \/ ProcessExit(E) \/ ExecuteLine(E) \/ GetAbsolutePath(E)
         \/ FindBreakpoint(E) \/ FindNothing(E) \/ Crash(E),
         UNCHANGED <<sessionVars, uiVars>>
  PROVE  OneToken'
<1>1. UNCHANGED <<requests, events, uiStopped, awaiting>>
  BY DEF sessionVars, uiVars
<1>2. UNCHANGED <<toEngine, rxQueue, debugCommand>>
  BY DEF Start, Connect, ConnectFail, StartReceiverThread,
     SendBreakpointsRequest, BuildScript, BuildFail, ScriptEnds, Shutdown,
     ProcessExit, ExecuteLine, GetAbsolutePath, FindBreakpoint, FindNothing,
     Crash, wireVars, backendVars
<1>3. ~Standing /\ ~Standing' /\ pc'[E] # "start"
  <2>1. E \in Engines /\ pc \in [Engines -> ThreadStates]
    BY QueueTypes DEF TypeOK, ThreadTypeOK
  <2> QED
    BY <2>1 DEF Start, Connect, ConnectFail, StartReceiverThread,
       SendBreakpointsRequest, BuildScript, BuildFail, ScriptEnds, Shutdown,
       ProcessExit, ExecuteLine, GetAbsolutePath, FindBreakpoint, FindNothing,
       Crash, Goto, Standing
<1>4. /\ Sent' => Sent
      /\ Once(toSession[E], Stops) => Once(toSession'[E], Stops)
  <2>1. CASE Connect(E)
    <3>1. toSession[E] = <<>> /\ toSession' = toSession
      BY <2>1 DEF Connect, Goto, OneToken, WhileStanding
    <3> QED
      BY <3>1, InEmpty DEF Sent
  <2>2. CASE SendBreakpointsRequest(E)
    BY <2>2, SendsNoStop, MessageTypes, MessageClasses
       DEF SendBreakpointsRequest, Sent
  <2>3. CASE CloseStream(E)
    BY <2>3, ClosesWithoutStop
  <2>4. CASE UNCHANGED <<link, toSession>>
    BY <2>4 DEF Sent
  <2> QED
    BY <2>1, <2>2, <2>3, <2>4 DEF Start, ConnectFail, StartReceiverThread,
       BuildScript, BuildFail, ScriptEnds, Shutdown, ProcessExit, ExecuteLine,
       GetAbsolutePath, FindBreakpoint, FindNothing, Crash, wireVars
<1> QED
  BY <1>1, <1>2, <1>3, <1>4, Running

\* What the engine reports is a location, and where it then takes itself to be.
LEMMA StopLocation ==
  ASSUME TypeOK, OneAtATime, SendStop(E)
  PROVE  \E loc \in Location : /\ SendToSession(E, StopMsg(loc))
                               /\ target'[E] = loc
<1>1. E \in Engines /\ target[E] \in Location /\ target \in [Engines -> Location]
  BY QueueTypes DEF TypeOK, ThreadTypeOK
<1>2. Readable(E, target[E]) \subseteq Location
  <2>1. breakpointList[E] \subseteq Location
    BY <1>1 DEF TypeOK, BackendTypeOK, ReadBreakpoint, Location
  <2>2. [path |-> Garbage, line |-> target[E].line] \in Location
    BY <1>1 DEF Location
  <2> QED
    BY <1>1, <2>1, <2>2 DEF Readable
<1>3. PICK loc \in Readable(E, target[E]) :
        /\ SendToSession(E, StopMsg(loc))
        /\ target' = [target EXCEPT ![E] = loc]
  BY DEF SendStop
<1> QED
  BY <1>1, <1>2, <1>3

\* The stop begins: the token is the message, if there is a connection.
LEMMA SendsStop ==
  ASSUME TypeOK, OneAtATime, OneToken, SendStop(E),
         UNCHANGED <<sessionVars, uiVars>>
  PROVE  OneToken'
<1>1. UNCHANGED <<requests, events, uiStopped, awaiting, link, toEngine, rxQueue,
                  debugCommand>>
  BY DEF SendStop, sessionVars, uiVars
<1>2. E \in Engines /\ pc[E] = "send" /\ pc'[E] = "vars"
  BY QueueTypes DEF SendStop, Goto, TypeOK, ThreadTypeOK
<1>3. ~Sent /\ ~Told /\ ~Shown /\ ~Ordered /\ ~UnderWay
  BY <1>2 DEF OneToken, WhileStanding, Standing
<1>4. ~Told' /\ ~Shown' /\ ~Ordered' /\ ~UnderWay'
  BY <1>1, <1>3, SameSession, SameCommands
<1>5. AtOnePlace'
  BY <1>4 DEF AtOnePlace, UnderWay
<1>6. WhileStanding'
  BY <1>2 DEF WhileStanding, Standing
<1>7. PICK loc \in Location : /\ SendToSession(E, StopMsg(loc))
                              /\ target'[E] = loc
  BY StopLocation
<1>8. StopMsg(loc) \in Stops /\ StopMsg(loc).at = loc /\ StopMsg(loc) \in SessionMsgs
  BY MessageClasses, MessageTypes
<1>9. /\ Once(toSession'[E], Stops)
      /\ Sent' => Those(toSession'[E], Stops) = {StopMsg(loc)}
  <2>1. Once(toSession[E], Stops)
    BY DEF OneToken, OnlyOnce
  <2>2. CASE link[E] \in {"pending", "up"}
    <3>1. toSession'[E] = Append(toSession[E], StopMsg(loc))
      BY <1>2, <1>7, <2>2 DEF SendToSession, TypeOK, WireTypeOK
    <3>2. ~Has(toSession[E], Stops)
      BY <1>3, <2>2 DEF Sent
    <3>3. Those(toSession[E], Stops) = {}
      BY <3>2 DEF Has
    <3>4. PICK m \in SessionMsgs : m = StopMsg(loc)
      BY <1>8
    <3>5. /\ Those(Append(toSession[E], m), Stops)
               = Those(toSession[E], Stops) \cup ({m} \cap Stops)
          /\ Once(Append(toSession[E], m), Stops)
               <=> /\ Once(toSession[E], Stops)
                   /\ m \in Stops => ~Has(toSession[E], Stops)
      BY QueueTypes, InAppend
    <3> QED
      BY <1>8, <2>1, <3>1, <3>2, <3>3, <3>4, <3>5
  <2>3. CASE link[E] \notin {"pending", "up"}
    <3>1. toSession' = toSession
      BY <1>7, <2>3 DEF SendToSession
    <3> QED
      BY <1>1, <1>3, <2>1, <3>1 DEF Sent
  <2> QED
    BY <2>2, <2>3
<1>10. OnlyOnce'
  BY <1>1, <1>9, SameSession DEF OnlyOnce, OneToken
<1>11. SamePlace'
  BY <1>4, <1>7, <1>8, <1>9 DEF SamePlace
<1> QED
  BY <1>1, <1>5, <1>6, <1>10, <1>11, SameSession DEF OneToken

\* The message with the variables follows the STOP.
LEMMA SendsVariables ==
  ASSUME TypeOK, OneAtATime, OneToken, SendVariables(E),
         UNCHANGED <<sessionVars, uiVars>>
  PROVE  OneToken'
<1>1. UNCHANGED <<requests, events, uiStopped, awaiting, link, toEngine, rxQueue,
                  debugCommand, target, currentBreakpoint>>
  BY DEF SendVariables, sessionVars, uiVars, backendVars
<1>2. E \in Engines /\ pc[E] = "vars" /\ pc'[E] = "wait"
  BY QueueTypes DEF SendVariables, Goto, TypeOK, ThreadTypeOK
<1>3. /\ Has(toSession'[E], Stops) <=> Has(toSession[E], Stops)
      /\ Those(toSession'[E], Stops) = Those(toSession[E], Stops)
      /\ Once(toSession'[E], Stops) <=> Once(toSession[E], Stops)
  BY SendsNoStop, MessageTypes, MessageClasses DEF SendVariables
<1>4. Sent' <=> Sent
  BY <1>1, <1>3 DEF Sent
<1>5. AtOnePlace'
  BY <1>1, <1>4, SameSession, SameCommands DEF AtOnePlace, OneToken
<1>6. OnlyOnce'
  BY <1>1, <1>3, SameSession DEF OnlyOnce, OneToken
<1>7. WhileStanding'
  BY <1>2 DEF WhileStanding, Standing
<1>8. SamePlace'
  BY <1>1, <1>3, <1>4, SameSession DEF SamePlace, OneToken
<1> QED
  BY <1>1, <1>5, <1>6, <1>7, <1>8, SameSession DEF OneToken

\* The engine takes the command, and with the store of Nothing the token is gone.
LEMMA TakesCommand ==
  ASSUME TypeOK, OneAtATime, OneToken, LoadCommand(E) \/ StoreNothing(E),
         UNCHANGED <<sessionVars, uiVars>>
  PROVE  OneToken'
<1>1. UNCHANGED <<requests, events, uiStopped, awaiting, link, toSession,
                  toEngine, rxQueue, currentBreakpoint>>
  BY DEF LoadCommand, StoreNothing, sessionVars, uiVars, wireVars, backendVars
<1>2. /\ E \in Engines
      /\ Stored
  BY QueueTypes DEF LoadCommand, StoreNothing, Goto, Stored, OneToken,
     WhileStanding
<1>3. ~Sent /\ ~Told /\ ~Shown /\ ~Ordered /\ ~InStream /\ ~InChunk
  BY <1>2 DEF OneToken, AtOnePlace, UnderWay
<1>4. /\ ~Sent' /\ ~Told' /\ ~Shown' /\ ~Ordered'
      /\ ~InStream' /\ ~InChunk'
  BY <1>1, <1>3, SameSession DEF Sent, InStream, InChunk
<1>5. AtOnePlace' /\ SamePlace'
  BY <1>4 DEF AtOnePlace, SamePlace, UnderWay
<1>6. OnlyOnce'
  BY <1>1 DEF OnlyOnce, OneToken
<1>7. WhileStanding'
  <2>1. CASE LoadCommand(E)
    <3>1. pc'[E] = "take" /\ debugCommand' = debugCommand /\ cmd'[E] = debugCommand[E]
      BY <1>2, <2>1 DEF LoadCommand, Goto, backendVars, TypeOK, ThreadTypeOK
    <3> QED
      BY <1>2, <3>1 DEF WhileStanding, Standing, Stored
  <2>2. CASE StoreNothing(E)
    <3>1. debugCommand'[E] = "Nothing" /\ pc'[E] \in {"script", "lookup"}
      BY <1>2, <2>2 DEF StoreNothing, TypeOK, BackendTypeOK, ThreadTypeOK
    <3>2. ~UnderWay'
      BY <1>4, <3>1 DEF UnderWay, Stored
    <3> QED
      BY <1>4, <3>1, <3>2 DEF WhileStanding
  <2> QED
    BY <2>1, <2>2
<1> QED
  BY <1>1, <1>5, <1>6, <1>7, SameSession DEF OneToken

LEMMA EngineToken ==
  ASSUME TypeOK, OneAtATime, OneToken, Engine(E)
  PROVE  OneToken'
  BY RunningSteps, SendsStop, SendsVariables, TakesCommand
     DEF Engine, ScriptThread

-----------------------------------------------------------------------------
\* The receiver thread moves the command towards the slot, or loses it.
LEMMA Moving ==
  ASSUME TypeOK, OneAtATime, OneToken,
         UNCHANGED <<requests, events, uiStopped, awaiting>>,
         UNCHANGED <<link, toSession, pc, cmd, target, currentBreakpoint>>,
         UnderWay' => UnderWay,
         InStream' => ~InChunk' /\ ~Stored',
         InChunk' => ~Stored',
         Once(toEngine'[E], Commands),
         Once(rxQueue'[E], Commands),
         pc[E] = "take" => debugCommand'[E] = debugCommand[E]
  PROVE  OneToken'
<1>1. Sent' <=> Sent
  BY DEF Sent
<1>2. AtOnePlace'
  BY <1>1, SameSession DEF AtOnePlace, OneToken
<1>3. OnlyOnce'
  BY SameSession DEF OnlyOnce, OneToken
<1>4. WhileStanding'
  BY <1>1, SameSession DEF WhileStanding, Standing, Stored, OneToken
<1>5. SamePlace'
  BY <1>1, SameSession DEF SamePlace, OneToken
<1> QED
  BY <1>2, <1>3, <1>4, <1>5, SameSession DEF OneToken

\* A recv takes the front of the stream, and loses at most the command it cuts.
LEMMA Received ==
  ASSUME TypeOK, OneAtATime, Receive(E) \/ ReceiveCut(E),
         Once(toEngine[E], Commands)
  PROVE  /\ Those(toEngine'[E], Commands) \cup Those(rxQueue'[E], Commands)
              \subseteq Those(toEngine[E], Commands)
         /\ Receive(E) =>
              Those(toEngine'[E], Commands) \cup Those(rxQueue'[E], Commands)
                = Those(toEngine[E], Commands)
         /\ Once(toEngine'[E], Commands)
         /\ Once(rxQueue'[E], Commands)
         /\ ~(Has(toEngine'[E], Commands) /\ Has(rxQueue'[E], Commands))
<1> DEFINE q == toEngine[E]
<1>1. /\ E \in Engines /\ q \in Seq(EngineMsgs)
      /\ toEngine \in [Engines -> Seq(EngineMsgs)]
      /\ rxQueue \in [Engines -> Seq(EngineMsgs)]
  BY QueueTypes DEF TypeOK, WireTypeOK, BackendTypeOK
<1>2. PICK k \in 1..Len(q) :
        /\ Those(toEngine'[E], Commands) = Those(SubSeq(q, k + 1, Len(q)), Commands)
        /\ Once(SubSeq(q, k + 1, Len(q)), Commands) => Once(toEngine'[E], Commands)
        /\ Those(rxQueue'[E], Commands) \subseteq Those(SubSeq(q, 1, k), Commands)
        /\ Receive(E) => rxQueue'[E] = SubSeq(q, 1, k)
        /\ Has(rxQueue'[E], Commands) => Has(SubSeq(q, 1, k), Commands)
        /\ Once(SubSeq(q, 1, k), Commands) => Once(rxQueue'[E], Commands)
  <2>1. CASE Receive(E)
    <3>1. PICK k \in 1..Len(q) :
            /\ rxQueue' = [rxQueue EXCEPT ![E] = SubSeq(q, 1, k)]
            /\ toEngine' = [toEngine EXCEPT ![E] = SubSeq(@, k + 1, Len(@))]
      BY <2>1 DEF Receive
    <3>2. /\ rxQueue'[E] = SubSeq(q, 1, k)
          /\ toEngine'[E] = SubSeq(q, k + 1, Len(q))
      BY <1>1, <3>1
    <3> QED
      BY <3>2
  <2>2. CASE ~Receive(E)
    <3>1. PICK k \in 1..Len(q), reading \in Seq(EngineMsgs), rest \in EngineMsgs :
            CutInto(E, k, reading, rest)
      BY <1>1, <2>2, CutParts
    <3>2. rest \notin Commands
      BY <3>1, Zenon DEF CutInto, Commands
    <3>3. SubSeq(q, k + 1, Len(q)) \in Seq(EngineMsgs)
      BY <1>1, SubSeqType
    <3>4. \/ reading = <<>> \/ reading = <<q[k]>>
          \/ \E list : reading = <<BreakpointsMsg(list)>>
      BY <3>1, Zenon DEF CutInto
    <3>5. \/ reading = <<>> \/ reading = <<q[k]>>
          \/ \E x \in EngineMsgs \ Commands : reading = <<x>>
      <4>1. ASSUME NEW list, reading = <<BreakpointsMsg(list)>>
            PROVE  BreakpointsMsg(list) \in EngineMsgs \ Commands
        <5> DEFINE m == BreakpointsMsg(list)
        <5>0. reading = <<m>>
          BY <4>1
        <5> HIDE DEF m
        <5>1. Len(reading) = 1 /\ reading[1] = m
          BY <5>0
        <5>2. m \in EngineMsgs
          <6>1. \A i \in 1..Len(reading) : reading[i] \in EngineMsgs
            BY <3>1
          <6> QED
            BY <5>1, <6>1
        <5> QED
          BY <5>2, MessageClasses DEF m
      <4> QED
        BY <3>4, <4>1
    <3>6. /\ rxQueue'[E] = SubSeq(q, 1, k - 1) \o reading
          /\ toEngine'[E] = <<rest>> \o SubSeq(q, k + 1, Len(q))
      BY <1>1, <3>1, Zenon DEF CutInto
    <3> HIDE DEF q
    <3>7. /\ Those(SubSeq(q, 1, k - 1) \o reading, Commands)
               \subseteq Those(SubSeq(q, 1, k), Commands)
          /\ Has(SubSeq(q, 1, k - 1) \o reading, Commands)
               => Has(SubSeq(q, 1, k), Commands)
          /\ Once(SubSeq(q, 1, k), Commands)
               => Once(SubSeq(q, 1, k - 1) \o reading, Commands)
      BY <1>1, <3>1, <3>5, InCut
    <3>8. /\ Those(toEngine'[E], Commands) = Those(SubSeq(q, k + 1, Len(q)), Commands)
          /\ Once(SubSeq(q, k + 1, Len(q)), Commands) => Once(toEngine'[E], Commands)
      <4> DEFINE behind == SubSeq(q, k + 1, Len(q))
      <4>1. behind \in Seq(EngineMsgs) /\ toEngine'[E] = <<rest>> \o behind
        BY <3>3, <3>6
      <4> HIDE DEF behind
      <4>2. rest \in EngineMsgs
        OBVIOUS
      <4>3. /\ Those(<<rest>> \o behind, Commands) = Those(behind, Commands)
            /\ Once(behind, Commands) => Once(<<rest>> \o behind, Commands)
        BY <3>2, <4>1, <4>2, InBehind
      <4> QED
        BY <4>1, <4>3 DEF behind
    <3> QED
      BY <2>2, <3>1, <3>6, <3>7, <3>8
  <2> QED
    BY <2>1, <2>2
<1>3. /\ Those(q, Commands) = Those(SubSeq(q, 1, k), Commands)
                                \cup Those(SubSeq(q, k + 1, Len(q)), Commands)
      /\ Once(SubSeq(q, 1, k), Commands)
      /\ Once(SubSeq(q, k + 1, Len(q)), Commands)
      /\ ~(/\ Has(SubSeq(q, 1, k), Commands)
           /\ Has(SubSeq(q, k + 1, Len(q)), Commands))
  <2>1. k \in 0..Len(q) /\ Once(q, Commands)
    OBVIOUS
  <2> HIDE DEF q
  <2> QED
    BY <1>1, <2>1, InParts
<1> HIDE DEF q
<1>4. /\ Those(toEngine'[E], Commands) \cup Those(rxQueue'[E], Commands)
           \subseteq Those(q, Commands)
      /\ Receive(E) =>
           Those(toEngine'[E], Commands) \cup Those(rxQueue'[E], Commands)
             = Those(q, Commands)
  BY <1>2, <1>3
<1>5. /\ Once(toEngine'[E], Commands)
      /\ Once(rxQueue'[E], Commands)
      /\ ~(Has(toEngine'[E], Commands) /\ Has(rxQueue'[E], Commands))
  BY <1>2, <1>3 DEF Has
<1> QED
  BY <1>4, <1>5 DEF q

LEMMA Receives ==
  ASSUME TypeOK, OneAtATime, OneToken, Receive(E) \/ ReceiveCut(E)
  PROVE  /\ UnderWay' => UnderWay
         /\ InStream' => ~InChunk' /\ ~Stored'
         /\ InChunk' => ~Stored'
         /\ Once(toEngine'[E], Commands)
         /\ Once(rxQueue'[E], Commands)
<1>1. /\ Those(toEngine'[E], Commands) \cup Those(rxQueue'[E], Commands)
           \subseteq Those(toEngine[E], Commands)
      /\ Once(toEngine'[E], Commands)
      /\ Once(rxQueue'[E], Commands)
      /\ ~(InStream' /\ InChunk')
  BY Received DEF OneToken, OnlyOnce, InStream, InChunk
<1>2. InStream' \/ InChunk' => InStream
  BY <1>1 DEF InStream, InChunk, Has
<1>3. Stored' <=> Stored
  BY DEF Receive, ReceiveCut, Stored
<1> QED
  BY <1>1, <1>2, <1>3 DEF OneToken, AtOnePlace, UnderWay

\* A message at the head of the chunk that is no command, and one that is.
LEMMA Parses ==
  ASSUME TypeOK, OneAtATime, OneToken,
         ClearBreakpoints(E) \/ UnknownMessage(E) \/ ParseCommand(E)
  PROVE  /\ UnderWay' => UnderWay
         /\ InStream' => ~InChunk' /\ ~Stored'
         /\ InChunk' => ~Stored'
         /\ Once(toEngine'[E], Commands)
         /\ Once(rxQueue'[E], Commands)
         /\ pc[E] = "take" => debugCommand'[E] = debugCommand[E]
<1> DEFINE q == rxQueue[E]
<1>1. E \in Engines /\ q \in Seq(EngineMsgs) /\ q # <<>> /\ rxQueue'[E] = Tail(q)
  BY QueueTypes DEF ClearBreakpoints, UnknownMessage, ParseCommand, Parsing, TypeOK,
     BackendTypeOK
<1>2. toEngine' = toEngine
  BY DEF ClearBreakpoints, UnknownMessage, ParseCommand, wireVars
<1>3. /\ Has(q, Commands) <=> Has(Tail(q), Commands) \/ Head(q) \in Commands
      /\ Once(q, Commands) => /\ Once(Tail(q), Commands)
                              /\ Head(q) \in Commands => ~Has(Tail(q), Commands)
  BY <1>1, InTail
<1>4. Once(q, Commands) /\ Once(toEngine[E], Commands)
  BY DEF OneToken, OnlyOnce
<1>5. InChunk <=> Has(q, Commands)
  BY DEF InChunk
<1>6. InChunk' <=> Has(Tail(q), Commands)
  BY <1>1 DEF InChunk
<1>7. InStream' <=> InStream
  BY <1>2 DEF InStream
<1>8. Head(q) \in EngineMsgs
  BY <1>1, HeadTailProperties
<1>9. CASE ClearBreakpoints(E) \/ UnknownMessage(E)
  <2>1. debugCommand' = debugCommand /\ (Stored' <=> Stored)
    BY <1>9 DEF ClearBreakpoints, UnknownMessage, Stored
  <2> HIDE DEF q
  <2> QED
    BY <1>1, <1>2, <1>3, <1>4, <1>5, <1>6, <1>7, <2>1
       DEF UnderWay, OneToken, AtOnePlace
<1>10. CASE ParseCommand(E)
  <2>1. Head(q) \in Commands
    BY <1>8, <1>10 DEF ParseCommand, Parsing, Commands
  <2>2. InChunk /\ ~InStream /\ ~Stored
    BY <1>3, <1>5, <2>1 DEF OneToken, AtOnePlace
  <2>3. pc[E] # "take"
    BY <2>2 DEF OneToken, WhileStanding
  <2> HIDE DEF q
  <2> QED
    BY <1>1, <1>2, <1>3, <1>4, <1>6, <1>7, <2>1, <2>2, <2>3 DEF UnderWay
<1> QED
  BY <1>9, <1>10

\* Behind a stray header commands may be lost, and none appears.
LEMMA Strays ==
  ASSUME TypeOK, OneAtATime, StrayHeader(E)
  PROVE  /\ UNCHANGED <<link, toSession, toEngine, debugCommand>>
         /\ Those(rxQueue'[E], Commands) \subseteq Those(rxQueue[E], Commands)
         /\ Once(rxQueue[E], Commands) => Once(rxQueue'[E], Commands)
<1> DEFINE q == rxQueue[E]
<1>1. E \in Engines /\ q \in Seq(EngineMsgs) /\ q # <<>>
  BY QueueTypes DEF StrayHeader
<1>2. Tail(q) \in Seq(EngineMsgs)
  BY <1>1, HeadTailProperties
<1>3. PICK r \in BehindHeader(Tail(q)) : rxQueue' = [rxQueue EXCEPT ![E] = r.left]
  BY DEF StrayHeader
<1>4. rxQueue'[E] = r.left
  BY <1>1, <1>3 DEF TypeOK, BackendTypeOK
<1>5. r.left = <<>> \/ \E i \in 1..Len(Tail(q)) : r.left = SubSeq(Tail(q), i + 1, Len(Tail(q)))
  BY <1>2, BehindHeaderType
<1> HIDE DEF q
<1>6. /\ Those(r.left, Commands) \subseteq Those(Tail(q), Commands)
      /\ Once(Tail(q), Commands) => Once(r.left, Commands)
  BY <1>2, <1>5, InLeft
<1>7. /\ Those(Tail(q), Commands) \subseteq Those(q, Commands)
      /\ Once(q, Commands) => Once(Tail(q), Commands)
  BY <1>1, InTail
<1> QED
  BY <1>4, <1>6, <1>7 DEF q, StrayHeader, wireVars

LEMMA ReceiverToken ==
  ASSUME TypeOK, OneAtATime, OneToken, ReceiverThread(E)
  PROVE  OneToken'
<1>1. /\ UNCHANGED <<requests, events, uiStopped, awaiting>>
      /\ UNCHANGED <<pc, cmd, target, currentBreakpoint>>
  BY DEF ReceiverThread, threadVars, sessionVars, uiVars
<1>2. UNCHANGED <<link, toSession>>
  BY DEF ReceiverThread, Receiver, CheckRunning, Receive, ReceiveCut,
     Disconnected, ChunkDone, ClearBreakpoints, StrayHeader, PushBreakpoint,
     EndBreakpoints, ParseCommand, UnknownMessage, wireVars
<1>3. CASE Receive(E) \/ ReceiveCut(E)
  <2>1. debugCommand' = debugCommand
    BY <1>3 DEF Receive, ReceiveCut
  <2> QED
    BY <1>1, <1>2, <1>3, <2>1, Receives, Moving
<1>4. CASE ClearBreakpoints(E) \/ UnknownMessage(E) \/ ParseCommand(E)
  BY <1>1, <1>2, <1>4, Parses, Moving
<1>5. CASE UNCHANGED <<toEngine, rxQueue, debugCommand>>
  BY <1>1, <1>2, <1>5, SameCommands, Moving DEF OneToken, AtOnePlace, OnlyOnce
<1>6. CASE StrayHeader(E)
  <2>1. /\ InChunk' => InChunk
        /\ InStream' <=> InStream
        /\ Stored' <=> Stored
        /\ Once(rxQueue'[E], Commands)
        /\ Once(toEngine'[E], Commands)
    BY <1>6, Strays DEF InChunk, InStream, Stored, Has, OneToken, OnlyOnce
  <2> QED
    BY <1>1, <1>2, <1>6, <2>1, Strays, Moving DEF OneToken, AtOnePlace, UnderWay
<1> QED
  BY <1>3, <1>4, <1>5, <1>6 DEF ReceiverThread, Receiver, CheckRunning, Disconnected,
     ChunkDone, PushBreakpoint, EndBreakpoints, wireVars

-----------------------------------------------------------------------------
\* The adapter.

\* The first message of the engine, handled.
LEMMA Handled ==
  ASSUME TypeOK, OneAtATime, NEW type, Handling(E, type)
  PROVE  /\ Head(toSession[E]) \in SessionMsgs
         /\ Head(toSession[E]).type = type
         /\ toSession[E] # <<>>
         /\ toSession'[E] = Tail(toSession[E])
         /\ link[E] \in {"up", "reset"}
         /\ Those(toSession[E], Stops)
              = Those(toSession'[E], Stops) \cup ({Head(toSession[E])} \cap Stops)
         /\ Has(toSession[E], Stops)
              <=> Has(toSession'[E], Stops) \/ Head(toSession[E]) \in Stops
         /\ Once(toSession[E], Stops) =>
              /\ Once(toSession'[E], Stops)
              /\ Head(toSession[E]) \in Stops => ~Has(toSession'[E], Stops)
<1>1. /\ E \in Engines
      /\ toSession \in [Engines -> Seq(SessionMsgs)]
      /\ toSession[E] \in Seq(SessionMsgs)
  BY QueueTypes DEF TypeOK, WireTypeOK
<1>2. /\ toSession[E] # <<>>
      /\ Head(toSession[E]).type = type
      /\ toSession'[E] = Tail(toSession[E])
      /\ link[E] \in {"up", "reset"}
  BY <1>1 DEF Handling
<1>3. Head(toSession[E]) \in SessionMsgs
  BY <1>1, <1>2, HeadTailProperties
<1> QED
  BY <1>1, <1>2, <1>3, InTail

\* A message to the engine that is no command.
LEMMA Written ==
  ASSUME TypeOK, OneAtATime, NEW W, NEW m \in EngineMsgs, WriteToEngines(W, m)
  PROVE  /\ m \notin Commands =>
              /\ Has(toEngine'[E], Commands) <=> Has(toEngine[E], Commands)
              /\ Those(toEngine'[E], Commands) = Those(toEngine[E], Commands)
              /\ Once(toEngine'[E], Commands) <=> Once(toEngine[E], Commands)
         /\ E \in W /\ link[E] \in {"pending", "up"} =>
              Those(toEngine'[E], Commands)
                = Those(toEngine[E], Commands) \cup ({m} \cap Commands)
         /\ Once(toEngine[E], Commands) /\ ~Has(toEngine[E], Commands) =>
              Once(toEngine'[E], Commands)
<1>1. /\ E \in Engines
      /\ toEngine[E] \in Seq(EngineMsgs)
  BY QueueTypes
<1>2. /\ Those(Append(toEngine[E], m), Commands)
           = Those(toEngine[E], Commands) \cup ({m} \cap Commands)
      /\ Has(Append(toEngine[E], m), Commands)
           <=> Has(toEngine[E], Commands) \/ m \in Commands
      /\ Once(Append(toEngine[E], m), Commands)
           <=> /\ Once(toEngine[E], Commands)
               /\ m \in Commands => ~Has(toEngine[E], Commands)
  BY <1>1, InAppend
<1>3. toEngine'[E] = IF E \in W /\ link[E] \in {"pending", "up"}
                       THEN Append(toEngine[E], m) ELSE toEngine[E]
  BY <1>1 DEF WriteToEngines
<1>4. m \notin Commands => {m} \cap Commands = {}
  OBVIOUS
<1> QED
  BY <1>2, <1>3, <1>4

\* A request at the head of the queue.
LEMMA TakenRequest ==
  ASSUME TypeOK, OneAtATime, NEW type, Requested(type)
  PROVE  /\ Head(requests) \in Requests
         /\ Head(requests) \in Controls <=> type = "control"
         /\ Head(requests) \in Controls => Head(requests).command \in DebugCommands
         /\ Those(requests, Controls)
              = Those(requests', Controls) \cup ({Head(requests)} \cap Controls)
         /\ Ordered <=> Ordered' \/ type = "control"
         /\ Once(requests, Controls) =>
              /\ Once(requests', Controls)
              /\ type = "control" => ~Ordered'
<1>1. /\ requests \in Seq(Requests) /\ requests # <<>>
      /\ requests' = Tail(requests)
      /\ Head(requests).type = type
  BY QueueTypes DEF Requested
<1>2. Head(requests) \in Requests
  BY <1>1, HeadTailProperties
<1>3. /\ Head(requests) \in Controls <=> type = "control"
      /\ Head(requests) \in Controls => Head(requests).command \in DebugCommands
  BY <1>1, <1>2 DEF Controls, Requests
<1> QED
  BY <1>1, <1>2, <1>3, InTail DEF Ordered

\* The lists the adapter writes, answering an engine or VS Code, are no commands.
LEMMA BreakpointsWritten ==
  ASSUME TypeOK, OneAtATime, SetBreakPointsRequest \/ HandleGetBreakpoints(E)
  PROVE  /\ Has(toEngine'[E], Commands) <=> Has(toEngine[E], Commands)
         /\ Those(toEngine'[E], Commands) = Those(toEngine[E], Commands)
         /\ Once(toEngine'[E], Commands) <=> Once(toEngine[E], Commands)
<1>1. CASE UNCHANGED toEngine
  BY <1>1
<1>2. CASE HandleGetBreakpoints(E)
  <2>1. /\ BreakpointsMsg(Entries(breakpoints)) \in EngineMsgs
        /\ BreakpointsMsg(Entries(breakpoints)) \notin Commands
    BY EntriesType, MessageTypes, MessageClasses DEF TypeOK, SessionTypeOK
  <2> QED
    BY <1>2, <2>1, Written DEF HandleGetBreakpoints
<1>3. CASE SetBreakPointsRequest /\ ~UNCHANGED toEngine
  <2> DEFINE r == Head(requests)
             set == [breakpoints EXCEPT ![r.path] = r.lines]
  <2>1. WriteToEngines(clients, BreakpointsMsg(Entries(set)))
    BY <1>3 DEF SetBreakPointsRequest
  <2>2. r \in Requests /\ r.type = "setBreakpoints"
    BY <1>3, TakenRequest DEF SetBreakPointsRequest, Requested
  <2>3. r.lines \in SUBSET Lines
    BY <2>2 DEF Requests
  <2>4. set \in [Paths -> SUBSET Lines]
    BY <2>3 DEF TypeOK, SessionTypeOK
  <2>5. /\ BreakpointsMsg(Entries(set)) \in EngineMsgs
        /\ BreakpointsMsg(Entries(set)) \notin Commands
    BY <2>4, EntriesType, MessageTypes, MessageClasses
  <2> HIDE DEF set
  <2> QED
    BY <2>1, <2>5, Written
<1> QED
  BY <1>1, <1>2, <1>3

\* Steps of the adapter that leave VS Code alone.
LEMMA Accepting ==
  ASSUME OneToken, UNCHANGED engineVars,
         UNCHANGED <<requests, events, uiStopped, awaiting, currentBreakpoint>>,
         Sent' => Sent,
         Those(toSession'[E], Stops) \subseteq Those(toSession[E], Stops),
         Once(toSession'[E], Stops),
         InStream' => InStream,
         Once(toEngine'[E], Commands),
         link'[E] \in {"up", "reset", "down"},
         pc[E] = "start" => toSession'[E] = <<>>
  PROVE  OneToken'
<1>1. UNCHANGED <<pc, cmd, target, debugCommand, rxQueue>>
  BY DEF engineVars, threadVars, backendVars
<1>2. (Stored' <=> Stored) /\ (InChunk' <=> InChunk)
  BY <1>1 DEF Stored, InChunk
<1>3. UnderWay' => UnderWay
  BY <1>2 DEF UnderWay
<1>4. AtOnePlace'
  BY <1>2, <1>3, SameSession DEF AtOnePlace, OneToken
<1>5. OnlyOnce'
  BY <1>1, SameSession DEF OnlyOnce, OneToken
<1>6. WhileStanding'
  BY <1>1, <1>2, <1>3, SameSession DEF WhileStanding, Standing, OneToken
<1>7. SamePlace'
  BY <1>1, SameSession DEF SamePlace, OneToken
<1> QED
  BY <1>4, <1>5, <1>6, <1>7, SameSession DEF OneToken

\* VS Code is told of the stop: the token passes from the message to the event.
LEMMA HandlesStop ==
  ASSUME TypeOK, OneAtATime, OneToken, HandleStop(E),
         InOneLine(Head(toSession[E]).at.path),
         UNCHANGED <<engineVars, uiVars>>
  PROVE  OneToken'
<1> DEFINE m == Head(toSession[E])
<1>1. /\ E \in Engines
      /\ events \in Seq({"stopped", "resumed", "verified"})
      /\ UNCHANGED <<pc, cmd, target, debugCommand, rxQueue, toEngine, link,
                     requests, uiStopped, awaiting>>
      /\ currentBreakpoint' = m.at
      /\ events' = Append(events, "stopped")
  BY QueueTypes DEF HandleStop, engineVars, threadVars, backendVars, uiVars
<1>2. m \in Stops
  BY Handled DEF HandleStop, Stops
<1>3. /\ Sent /\ m \in Those(toSession[E], Stops)
      /\ Once(toSession'[E], Stops) /\ ~Has(toSession'[E], Stops)
      /\ link[E] \in {"up", "reset"} /\ toSession[E] # <<>>
  BY <1>2, Handled DEF HandleStop, Sent, OneToken, OnlyOnce
<1>4. /\ ~Told /\ ~Shown /\ ~Ordered /\ ~UnderWay /\ Standing
  BY <1>3 DEF OneToken, AtOnePlace, WhileStanding
<1>5. /\ ~Sent' /\ ~Shown' /\ ~Ordered' /\ ~UnderWay'
  BY <1>1, <1>3, <1>4, SameCommands DEF Sent, Shown, Ordered
<1>6. /\ Once(events', {"stopped"})
      /\ Has(events', {"resumed"}) <=> Has(events, {"resumed"})
      /\ Once(events', {"resumed"}) <=> Once(events, {"resumed"})
  BY <1>1, <1>4, InAppend DEF OneToken, OnlyOnce, Told
<1>7. AtOnePlace'
  BY <1>5 DEF AtOnePlace, UnderWay
<1>8. OnlyOnce'
  BY <1>1, <1>3, <1>6 DEF OnlyOnce, OneToken
<1>9. WhileStanding'
  <2>1. Standing' /\ (Stored' <=> Stored)
    BY <1>1, <1>4 DEF Standing, Stored
  <2> QED
    BY <1>1, <1>3, <2>1 DEF WhileStanding, OneToken, Standing
<1>10. Answers'
  <2>1. \A i, j \in 1..Len(events') :
          events'[i] = "resumed" /\ events'[j] = "stopped" => i < j
    <3>1. /\ Len(events) \in Nat /\ Len(events') = Len(events) + 1
          /\ \A i \in 1..Len(events) : events'[i] = events[i]
          /\ events'[Len(events) + 1] = "stopped"
      BY <1>1, AppendProperties
    <3> QED
      BY <3>1 DEF OneToken, Answers
  <2> QED
    BY <1>1, <1>4, <1>5, <1>6, <2>1 DEF Answers, OneToken
<1>11. SamePlace'
  <2>1. m.at = target[E]
    BY <1>3 DEF OneToken, SamePlace
  <2> QED
    BY <1>1, <1>3, <1>5, <2>1 DEF SamePlace
<1> QED
  BY <1>7, <1>8, <1>9, <1>10, <1>11 DEF OneToken

\* A location the adapter cannot take apart: the token is lost.
LEMMA DropsStop ==
  ASSUME TypeOK, OneAtATime, OneToken, HandleStop(E),
         ~InOneLine(Head(toSession[E]).at.path),
         UNCHANGED <<engineVars, uiVars>>
  PROVE  OneToken'
<1>1. UNCHANGED <<link, toEngine, requests, events, currentBreakpoint>>
  BY DEF HandleStop
<1>2. /\ Has(toSession'[E], Stops) => Has(toSession[E], Stops)
      /\ Those(toSession'[E], Stops) \subseteq Those(toSession[E], Stops)
      /\ Once(toSession'[E], Stops)
      /\ link[E] \in {"up", "reset"} /\ toSession[E] # <<>>
  BY Handled DEF HandleStop, OneToken, OnlyOnce
<1>3. (Sent' => Sent) /\ (InStream' <=> InStream)
  BY <1>1, <1>2 DEF Sent, InStream
<1>4. pc[E] # "start"
  BY <1>2 DEF OneToken, WhileStanding
<1> QED
  BY <1>1, <1>2, <1>3, <1>4, Accepting DEF OneToken, OnlyOnce, uiVars

LEMMA AdapterToken ==
  ASSUME TypeOK, OneAtATime, OneToken, Adapter(E)
  PROVE  OneToken'
<1>1. UNCHANGED engineVars /\ UNCHANGED <<uiStopped, awaiting>>
  BY DEF Adapter, uiVars
<1>2. CASE HandleStop(E)
  BY <1>2, HandlesStop, DropsStop DEF Adapter
<1>3. CASE OnConnection(E)
  <2>1. /\ toSession' = toSession /\ toEngine' = toEngine
        /\ link[E] = "pending" /\ link'[E] = "up"
        /\ UNCHANGED <<requests, events, currentBreakpoint>>
    BY <1>3, QueueTypes DEF OnConnection, TypeOK, WireTypeOK
  <2>2. (Sent' <=> Sent) /\ (InStream' <=> InStream)
    BY <2>1 DEF Sent, InStream
  <2> QED
    BY <1>1, <2>1, <2>2, Accepting DEF OneToken, OnlyOnce, WhileStanding
<1>4. CASE HandleGetBreakpoints(E) \/ HandleVariables(E) \/ OnEnd(E)
  <2>1. PICK type \in {"GET_BREAKPOINTS", "VARIABLES", "EOF"} : Handling(E, type)
    BY <1>4 DEF HandleGetBreakpoints, HandleVariables, OnEnd
  <2>2. Head(toSession[E]) \notin Stops
    BY <2>1, Handled DEF Stops
  <2>3. {Head(toSession[E])} \cap Stops = {}
    BY <2>2
  <2>4. /\ Those(toSession'[E], Stops) = Those(toSession[E], Stops)
        /\ Has(toSession'[E], Stops) <=> Has(toSession[E], Stops)
        /\ Once(toSession'[E], Stops)
        /\ link[E] \in {"up", "reset"}
        /\ toSession[E] # <<>>
    BY <2>1, <2>2, <2>3, Handled DEF OneToken, OnlyOnce
  <2>5. /\ link'[E] \in {"up", "reset", "down"}
        /\ UNCHANGED <<requests, events, currentBreakpoint>>
    BY <1>4, <2>4, QueueTypes DEF HandleGetBreakpoints, HandleVariables, OnEnd,
       sessionVars, TypeOK, WireTypeOK
  <2>6. Sent' => Sent
    BY <2>4 DEF Sent
  <2>7. (InStream' => InStream) /\ Once(toEngine'[E], Commands)
    <3>1. CASE HandleGetBreakpoints(E)
      BY <3>1, BreakpointsWritten DEF InStream, OneToken, OnlyOnce
    <3>2. CASE UNCHANGED toEngine
      BY <3>2 DEF InStream, OneToken, OnlyOnce
    <3> QED
      BY <1>4, <3>1, <3>2 DEF HandleVariables, OnEnd
  <2>8. pc[E] # "start"
    BY <2>4 DEF OneToken, WhileStanding
  <2> QED
    BY <1>1, <2>4, <2>5, <2>6, <2>7, <2>8, Accepting
<1> QED
  BY <1>2, <1>3, <1>4 DEF Adapter, Socket

-----------------------------------------------------------------------------
\* VS Code, its user and the requests of the adapter.

LEMMA EventAdded ==
  ASSUME TypeOK, OneAtATime, NEW x \in {"stopped", "resumed", "verified"},
         events' = Append(events, x), NEW ev
  PROVE  /\ Has(events', {ev}) <=> Has(events, {ev}) \/ x = ev
         /\ Once(events', {ev}) <=>
              Once(events, {ev}) /\ (x = ev => ~Has(events, {ev}))
<1> DEFINE T == {ev}
           S == {"stopped", "resumed", "verified"}
<1>1. /\ x \in T <=> x = ev
      /\ x \in S /\ events \in Seq(S)
  BY QueueTypes
<1> HIDE DEF S, T
<1>2. /\ Has(Append(events, x), T) <=> Has(events, T) \/ x \in T
      /\ Once(Append(events, x), T) <=>
           Once(events, T) /\ (x \in T => ~Has(events, T))
  BY <1>1, InAppend
<1>3. /\ Has(events', T) <=> Has(events, T) \/ x = ev
      /\ Once(events', T) <=> Once(events, T) /\ (x = ev => ~Has(events, T))
  BY <1>1, <1>2
<1> QED
  BY <1>3 DEF T

LEMMA SetsBreakpoints ==
  ASSUME TypeOK, OneAtATime, OneToken, SetBreakPointsRequest,
         UNCHANGED <<engineVars, uiVars>>
  PROVE  OneToken'
<1>1. /\ E \in Engines
      /\ UNCHANGED <<pc, cmd, target, debugCommand, rxQueue, toSession, link,
                     uiStopped, awaiting, currentBreakpoint>>
  BY QueueTypes DEF SetBreakPointsRequest, engineVars, threadVars, backendVars,
     uiVars
<1>2. /\ Ordered' <=> Ordered
      /\ Once(requests', Controls)
  BY TakenRequest DEF SetBreakPointsRequest, OneToken, OnlyOnce
<1>3. (InStream' <=> InStream) /\ Once(toEngine'[E], Commands)
  BY BreakpointsWritten DEF InStream, OneToken, OnlyOnce
<1>4. events' = events \/ events' = Append(events, "verified")
  BY DEF SetBreakPointsRequest
<1>5. /\ Told' <=> Told
      /\ Has(events', {"resumed"}) <=> Has(events, {"resumed"})
      /\ Once(events', {"stopped"}) <=> Once(events, {"stopped"})
      /\ Once(events', {"resumed"}) <=> Once(events, {"resumed"})
  <2>1. CASE events' = events
    BY <2>1 DEF Told
  <2>2. CASE events' = Append(events, "verified")
    BY <2>2, EventAdded DEF Told
  <2> QED
    BY <1>4, <2>1, <2>2
<1>6. (Sent' <=> Sent) /\ (Shown' <=> Shown) /\ (InChunk' <=> InChunk)
      /\ (Stored' <=> Stored)
  BY <1>1 DEF Sent, Shown, InChunk, Stored
<1>7. UnderWay' <=> UnderWay
  BY <1>3, <1>6 DEF UnderWay
<1>8. AtOnePlace'
  BY <1>2, <1>3, <1>5, <1>6, <1>7 DEF AtOnePlace, OneToken
<1>9. WhileStanding'
  BY <1>1, <1>2, <1>5, <1>6, <1>7 DEF WhileStanding, OneToken, Standing
<1>10. OnlyOnce'
  BY <1>1, <1>2, <1>3, <1>5 DEF OnlyOnce, OneToken
<1>11. Answers'
  <2>1. \A i, j \in 1..Len(events') :
          events'[i] = "resumed" /\ events'[j] = "stopped" => i < j
    <3>1. CASE events' = events
      BY <3>1 DEF OneToken, Answers
    <3>2. CASE events' = Append(events, "verified")
      <4>1. /\ Len(events) \in Nat /\ Len(events') = Len(events) + 1
            /\ \A i \in 1..Len(events) : events'[i] = events[i]
            /\ events'[Len(events) + 1] = "verified"
        BY <3>2, QueueTypes, AppendProperties
      <4> QED
        BY <4>1 DEF OneToken, Answers
    <3> QED
      BY <1>4, <3>1, <3>2
  <2> QED
    BY <1>1, <1>2, <1>5, <2>1 DEF Answers, OneToken
<1>12. SamePlace'
  BY <1>1, <1>2, <1>5, <1>6 DEF SamePlace, OneToken
<1> QED
  BY <1>8, <1>9, <1>10, <1>11, <1>12 DEF OneToken

\* The request becomes a command: the token passes to the stream, unless there is
\* no connection any more.
LEMMA Controlled ==
  ASSUME TypeOK, OneAtATime, OneToken, ControlRequest,
         UNCHANGED <<engineVars, uiVars>>
  PROVE  OneToken'
<1>1. /\ E \in Engines
      /\ UNCHANGED <<pc, cmd, target, debugCommand, rxQueue, toSession, link,
                     uiStopped, awaiting, currentBreakpoint>>
      /\ events' = Append(events, "resumed")
  BY QueueTypes DEF ControlRequest, engineVars, threadVars, backendVars, uiVars
<1>2. /\ Ordered /\ ~Ordered' /\ Once(requests', Controls)
      /\ Head(requests).command \in DebugCommands
  BY TakenRequest DEF ControlRequest, OneToken, OnlyOnce
<1>3. ~Sent /\ ~Told /\ ~Shown /\ ~UnderWay /\ Standing
  BY <1>2 DEF OneToken, AtOnePlace, WhileStanding
<1>4. (Sent' <=> Sent) /\ (Shown' <=> Shown) /\ (InChunk' <=> InChunk)
      /\ (Stored' <=> Stored)
  BY <1>1 DEF Sent, Shown, InChunk, Stored
<1>5. Once(toEngine'[E], Commands)
  <2>1. CommandMsg(Head(requests).command) \in EngineMsgs
    BY <1>2, MessageTypes
  <2> QED
    BY <1>3, <2>1, Written DEF ControlRequest, InStream, UnderWay, OneToken, OnlyOnce
<1>6. /\ Told' <=> Told
      /\ Has(events', {"resumed"})
      /\ ~Has(events, {"resumed"}) /\ awaiting = 1
      /\ Once(events', {"stopped"}) <=> Once(events, {"stopped"})
      /\ Once(events', {"resumed"})
  <2>1. ~Has(events, {"resumed"}) /\ awaiting = 1 /\ Once(events, {"resumed"})
    BY <1>2 DEF OneToken, Answers
  <2>2. /\ Has(events', {"resumed"})
        /\ Has(events', {"stopped"}) <=> Has(events, {"stopped"})
        /\ Once(events', {"stopped"}) <=> Once(events, {"stopped"})
        /\ Once(events', {"resumed"})
    BY <1>1, <2>1, EventAdded
  <2> QED
    BY <2>1, <2>2 DEF Told
<1>7. AtOnePlace'
  BY <1>2, <1>3, <1>4, <1>6 DEF AtOnePlace, UnderWay
<1>8. WhileStanding'
  BY <1>1, <1>3, <1>4 DEF WhileStanding, OneToken, Standing
<1>9. OnlyOnce'
  BY <1>1, <1>2, <1>5, <1>6 DEF OnlyOnce, OneToken
<1>10. Answers'
  <2>1. \A i, j \in 1..Len(events') :
          events'[i] = "resumed" /\ events'[j] = "stopped" => i < j
    <3>1. \A j \in 1..Len(events') : events'[j] # "stopped"
      <4>1. ~Told' /\ events' \in Seq({"stopped", "resumed", "verified"})
        BY <1>1, <1>3, <1>6, QueueTypes, AppendProperties
      <4> QED
        BY <4>1, InSequence DEF Told
    <3> QED
      BY <3>1
  <2> QED
    BY <1>1, <1>2, <1>6, <2>1 DEF Answers
<1>11. SamePlace'
  BY <1>2, <1>3, <1>4, <1>6 DEF SamePlace
<1> QED
  BY <1>7, <1>8, <1>9, <1>10, <1>11 DEF OneToken

\* The user answers a stop: the token passes to the request.
LEMMA Presses ==
  ASSUME TypeOK, OneAtATime, OneToken, Press
  PROVE  OneToken'
<1>1. /\ UNCHANGED <<pc, cmd, target, debugCommand, rxQueue, toEngine, toSession,
                     link, events, uiStopped, currentBreakpoint>>
      /\ uiStopped /\ awaiting < MaxPending
      /\ awaiting' = awaiting + 1
  BY DEF Press, wireVars, engineVars, threadVars, backendVars
<1>2. awaiting = 0 /\ awaiting' = 1
  BY <1>1, UiAssumption DEF UiAssumption, OneAtATime, OneToken, Answers
<1>3. Shown /\ ~Sent /\ ~Told /\ ~Ordered /\ ~UnderWay /\ Standing
  BY <1>1, <1>2 DEF Shown, OneToken, AtOnePlace, WhileStanding
<1>4. Ordered' /\ Once(requests', Controls)
  <2>1. PICK c \in DebugCommands :
          requests' = Append(requests, [type |-> "control", command |-> c])
    BY DEF Press
  <2>2. PICK r \in Requests : r = [type |-> "control", command |-> c]
    BY DEF Requests
  <2>3. r \in Controls
    BY <2>2 DEF Controls
  <2> QED
    BY <1>3, <2>1, <2>2, <2>3, QueueTypes, InAppend DEF Ordered, OneToken, OnlyOnce
<1>5. (Sent' <=> Sent) /\ (Told' <=> Told) /\ ~Shown' /\ (Stored' <=> Stored)
      /\ (InStream' <=> InStream) /\ (InChunk' <=> InChunk)
  BY <1>1, <1>2 DEF Sent, Told, Shown, InStream, InChunk, Stored
<1>6. AtOnePlace'
  BY <1>3, <1>5 DEF AtOnePlace, UnderWay
<1>7. OnlyOnce'
  BY <1>1, <1>4 DEF OnlyOnce, OneToken
<1>8. WhileStanding'
  BY <1>1, <1>3, <1>5 DEF WhileStanding, OneToken, Standing
<1>9. Answers'
  BY <1>1, <1>2, <1>3, <1>4 DEF Answers, OneToken
<1>10. SamePlace'
  BY <1>1, <1>3, <1>5 DEF SamePlace, OneToken
<1> QED
  BY <1>6, <1>7, <1>8, <1>9, <1>10 DEF OneToken

\* A request for breakpoints is no token.
LEMMA RequestsBreakpoints ==
  ASSUME TypeOK, OneAtATime, OneToken,
         NEW path \in Paths, NEW lines \in SUBSET Lines,
         requests' = Append(requests, [type |-> "setBreakpoints", path |-> path,
                                       lines |-> lines]),
         UNCHANGED <<wireVars, engineVars, events, uiStopped, awaiting,
                     currentBreakpoint>>
  PROVE  OneToken'
<1>1. UNCHANGED <<pc, cmd, target, debugCommand, rxQueue, toEngine, toSession,
                  link, events, uiStopped, awaiting, currentBreakpoint>>
  BY DEF wireVars, engineVars, threadVars, backendVars
<1>2. (Ordered' <=> Ordered) /\ (Once(requests', Controls) <=> Once(requests, Controls))
  <2>1. PICK r \in Requests : r = [type |-> "setBreakpoints", path |-> path,
                                   lines |-> lines]
    BY DEF Requests
  <2>2. r \notin Controls
    BY <2>1 DEF Controls
  <2> QED
    BY <2>1, <2>2, QueueTypes, InAppend DEF Ordered
<1>3. (Sent' <=> Sent) /\ (Told' <=> Told) /\ (Shown' <=> Shown)
      /\ (InStream' <=> InStream) /\ (InChunk' <=> InChunk) /\ (Stored' <=> Stored)
  BY <1>1 DEF Sent, Told, Shown, InStream, InChunk, Stored
<1>4. AtOnePlace'
  BY <1>2, <1>3 DEF AtOnePlace, UnderWay, OneToken
<1>5. OnlyOnce'
  BY <1>1, <1>2 DEF OnlyOnce, OneToken
<1>6. WhileStanding'
  BY <1>1, <1>2, <1>3 DEF WhileStanding, UnderWay, OneToken, Standing
<1>7. Answers'
  BY <1>1, <1>2 DEF Answers, OneToken
<1>8. SamePlace'
  BY <1>1, <1>2, <1>3 DEF SamePlace, OneToken
<1> QED
  BY <1>4, <1>5, <1>6, <1>7, <1>8 DEF OneToken

LEMMA Edits ==
  ASSUME TypeOK, OneAtATime, OneToken, SetBreakpoints
  PROVE  OneToken'
  BY RequestsBreakpoints DEF SetBreakpoints

\* A stop VS Code reads next is not one it has still to go on from.
LEMMA StoppedBehindResumed ==
  ASSUME TypeOK, OneAtATime, OneToken, events # <<>>, Head(events) = "stopped"
  PROVE  ~Has(events, {"resumed"}) /\ awaiting = 0
<1>1. /\ events \in Seq({"stopped", "resumed", "verified"})
      /\ Len(events) \in Nat \ {0} /\ events[1] = "stopped"
  BY QueueTypes, EmptySeq
<1>2. \A i \in 1..Len(events) : events[i] # "resumed"
  BY <1>1 DEF OneToken, Answers
<1>3. ~Has(events, {"resumed"})
  BY <1>1, <1>2, InSequence DEF Has
<1>4. Told
  BY <1>1, InSequence DEF Told
<1> QED
  BY <1>3, <1>4 DEF OneToken, Answers, AtOnePlace

\* VS Code shows a stop it is told of, and the running program it is told of.
LEMMA ReadsEvent ==
  ASSUME TypeOK, OneAtATime, OneToken, ReadEvent
  PROVE  OneToken'
<1> DEFINE ev == Head(events)
<1>1. /\ UNCHANGED <<pc, cmd, target, debugCommand, rxQueue, toEngine, toSession,
                     link, requests, currentBreakpoint>>
      /\ events # <<>> /\ events' = Tail(events)
      /\ events \in Seq({"stopped", "resumed", "verified"})
  BY QueueTypes DEF ReadEvent, wireVars, engineVars, threadVars, backendVars
<1>2. /\ ev = "stopped" => uiStopped' = TRUE /\ awaiting' = awaiting
      /\ ev = "resumed" => uiStopped' = FALSE /\ awaiting' = awaiting - 1
      /\ ev = "verified" => uiStopped' = uiStopped /\ awaiting' = awaiting
  <2>1. CASE Head(events) = "stopped"
    BY <2>1, Zenon DEF ReadEvent
  <2>2. CASE Head(events) = "resumed"
    BY <2>2, Zenon DEF ReadEvent
  <2>3. CASE Head(events) = "verified"
    BY <2>3, Zenon DEF ReadEvent
  <2> QED
    BY <2>1, <2>2, <2>3, Zenon
<1>3. /\ ev \in {"stopped", "resumed", "verified"}
      /\ Len(events) \in Nat \ {0} /\ Len(events') = Len(events) - 1
      /\ \A i \in 1..Len(events') : events'[i] = events[i + 1]
      /\ ev = events[1]
  BY <1>1, HeadTailProperties, EmptySeq
<1>4. ASSUME NEW x
      PROVE  /\ Has(events, {x}) <=> Has(events', {x}) \/ ev = x
             /\ Once(events, {x}) => /\ Once(events', {x})
                                     /\ ev = x => ~Has(events', {x})
  <2> DEFINE T == {x}
  <2>1. ev \in T <=> ev = x
    OBVIOUS
  <2> HIDE DEF T
  <2>2. /\ Has(events, T) <=> Has(Tail(events), T) \/ Head(events) \in T
        /\ Once(events, T) => /\ Once(Tail(events), T)
                              /\ Head(events) \in T => ~Has(Tail(events), T)
    BY <1>1, InTail
  <2>3. /\ Has(events, T) <=> Has(events', T) \/ ev = x
        /\ Once(events, T) => /\ Once(events', T)
                              /\ ev = x => ~Has(events', T)
    BY <1>1, <2>1, <2>2
  <2> QED
    BY <2>3 DEF T
<1>5. /\ Told <=> Told' \/ ev = "stopped"
      /\ Has(events, {"resumed"}) <=> Has(events', {"resumed"}) \/ ev = "resumed"
      /\ Once(events', {"stopped"}) /\ Once(events', {"resumed"})
      /\ ev = "stopped" => ~Told'
      /\ ev = "resumed" => ~Has(events', {"resumed"})
  BY <1>4 DEF Told, OneToken, OnlyOnce, Answers
<1>6. (Sent' <=> Sent) /\ (Ordered' <=> Ordered) /\ (Stored' <=> Stored)
      /\ (InStream' <=> InStream) /\ (InChunk' <=> InChunk)
  BY <1>1 DEF Sent, Ordered, InStream, InChunk, Stored
<1>7. \A i, j \in 1..Len(events') :
        events'[i] = "resumed" /\ events'[j] = "stopped" => i < j
  BY <1>3 DEF OneToken, Answers
<1>8. ASSUME ev = "stopped" PROVE ~Has(events, {"resumed"}) /\ awaiting = 0
  BY <1>1, <1>8, StoppedBehindResumed
<1> HIDE DEF ev
<1>9. Shown' => Shown \/ ev = "stopped"
  BY <1>2, <1>3, Zenon DEF Shown
<1>10. AtOnePlace'
  BY <1>3, <1>5, <1>6, <1>9 DEF AtOnePlace, UnderWay, OneToken
<1>11. OnlyOnce'
  BY <1>1, <1>5 DEF OnlyOnce, OneToken
<1>12. WhileStanding'
  BY <1>1, <1>5, <1>6, <1>9 DEF WhileStanding, UnderWay, OneToken, Standing
<1>13. Answers'
  <2>1. CASE ev = "stopped"
    BY <1>2, <1>5, <1>6, <1>7, <1>8, <2>1 DEF Answers, OneToken
  <2>2. CASE ev = "resumed"
    BY <1>2, <1>5, <1>6, <1>7, <2>2 DEF Answers, OneToken
  <2>3. CASE ev = "verified"
    BY <1>2, <1>5, <1>6, <1>7, <2>3 DEF Answers, OneToken
  <2> QED
    BY <1>3, <2>1, <2>2, <2>3
<1>14. SamePlace'
  BY <1>1, <1>5, <1>6, <1>9 DEF SamePlace, OneToken
<1> QED
  BY <1>10, <1>11, <1>12, <1>13, <1>14 DEF OneToken

\* The host goes away: the places of VS Code and the adapter are emptied.
LEMMA Exits ==
  ASSUME TypeOK, OneAtATime, OneToken, HostExit
  PROVE  OneToken'
<1>1. /\ E \in Engines
      /\ UNCHANGED <<pc, cmd, target, debugCommand, rxQueue, toSession>>
      /\ requests' = <<>> /\ events' = <<>>
      /\ ~uiStopped' /\ awaiting' = 0
      /\ link'[E] \in {"none", "down"}
  BY QueueTypes DEF HostExit, engineVars, threadVars, backendVars
<1>2. (InStream' <=> InStream) /\ Once(toEngine'[E], Commands)
  BY Written, MessageTypes, MessageClasses DEF HostExit, InStream, OneToken, OnlyOnce
<1>3. ~Sent' /\ ~Told' /\ ~Shown' /\ ~Ordered'
  BY <1>1, InEmpty DEF Sent, Told, Shown, Ordered
<1>4. (InChunk' <=> InChunk) /\ (Stored' <=> Stored)
  BY <1>1 DEF InChunk, Stored
<1>5. AtOnePlace'
  BY <1>2, <1>3, <1>4 DEF AtOnePlace, OneToken
<1>6. OnlyOnce'
  BY <1>1, <1>2, InEmpty DEF OnlyOnce, OneToken
<1>7. WhileStanding'
  BY <1>1, <1>2, <1>3, <1>4 DEF WhileStanding, UnderWay, OneToken, Standing
<1>8. Answers'
  <2>1. Len(events') = 0 /\ ~Has(events', {"resumed"}) /\ Once(events', {"resumed"})
    BY <1>1, InEmpty
  <2> QED
    BY <1>1, <1>3, <2>1 DEF Answers
<1>9. SamePlace'
  BY <1>3 DEF SamePlace
<1> QED
  BY <1>5, <1>6, <1>7, <1>8, <1>9 DEF OneToken

\* Nothing the invariant is about changes.
LEMMA Unseen ==
  ASSUME OneToken,
         UNCHANGED <<wireVars, engineVars, currentBreakpoint, requests, events,
                     uiStopped, awaiting>>
  PROVE  OneToken'
<1>1. UNCHANGED <<pc, cmd, target, debugCommand, rxQueue, toEngine, toSession,
                  link, currentBreakpoint, requests, events, uiStopped, awaiting>>
  BY DEF wireVars, engineVars, threadVars, backendVars
<1>2. /\ (Sent' <=> Sent) /\ (Stored' <=> Stored)
      /\ (InStream' <=> InStream) /\ (InChunk' <=> InChunk) /\ (UnderWay' <=> UnderWay)
  BY <1>1 DEF Sent, InStream, InChunk, Stored, UnderWay
<1>3. AtOnePlace'
  BY <1>1, <1>2, SameSession DEF AtOnePlace, OneToken
<1>4. OnlyOnce'
  BY <1>1 DEF OnlyOnce, OneToken
<1>5. WhileStanding'
  BY <1>1, <1>2, SameSession DEF WhileStanding, OneToken, Standing
<1>6. SamePlace'
  BY <1>1, <1>2, SameSession DEF SamePlace, OneToken
<1> QED
  BY <1>1, <1>3, <1>4, <1>5, <1>6, SameSession DEF OneToken

-----------------------------------------------------------------------------
LEMMA NextToken ==
  ASSUME TypeOK, OneAtATime, OneToken, [Next]_vars
  PROVE  OneToken'
<1>1. ASSUME NEW e \in Engines, Engine(e) \/ ReceiverThread(e) \/ Adapter(e)
      PROVE  OneToken'
  <2>1. e = E
    BY DEF OneAtATime
  <2> QED
    BY <1>1, <2>1, EngineToken, ReceiverToken, AdapterToken
<1>2. CASE AdapterRequest
  <2>1. CASE Initialize
    BY <1>2, <2>1, Unseen DEF AdapterRequest, Initialize, uiVars
  <2>2. CASE Dap
    BY <1>2, <2>2, SetsBreakpoints, Controlled DEF AdapterRequest, Dap
  <2> QED
    BY <1>2, <2>1, <2>2 DEF AdapterRequest
<1>3. CASE User
  BY <1>3, Edits, Presses DEF User
<1>4. CASE VSCode
  BY <1>4, ReadsEvent DEF VSCode
<1>5. CASE HostExit
  BY <1>5, Exits
<1>6. CASE UNCHANGED vars
  BY <1>6, Unseen DEF vars, sessionVars, uiVars
<1> QED
  BY <1>1, <1>2, <1>3, <1>4, <1>5, <1>6 DEF Next

LEMMA TokenKept ==
  ASSUME OneAtATime
  PROVE  Spec => []OneToken
  BY InitToken, NextToken, TypeCorrect, PTL DEF Spec

-----------------------------------------------------------------------------
NoCommand(q) == \A i \in 1..Len(q) : q[i].type # "COMMAND"

LEMMA QueuesWithoutCommand ==
  ASSUME NEW q \in Seq(EngineMsgs), NEW r \in Seq(EngineMsgs)
  PROVE  (\A i \in DOMAIN (q \o r) : (q \o r)[i].type # "COMMAND")
           <=> NoCommand(q) /\ NoCommand(r)
<1>1. /\ Len(q) \in Nat /\ Len(r) \in Nat
      /\ DOMAIN (q \o r) = 1..(Len(q) + Len(r))
      /\ \A i \in 1..Len(q) : (q \o r)[i] = q[i]
      /\ \A i \in 1..Len(r) : (q \o r)[Len(q) + i] = r[i]
  OBVIOUS
<1>2. ASSUME NoCommand(q), NoCommand(r), NEW i \in 1..(Len(q) + Len(r))
      PROVE  (q \o r)[i].type # "COMMAND"
  <2>1. CASE i <= Len(q)
    BY <1>1, <1>2, <2>1 DEF NoCommand
  <2>2. CASE i > Len(q)
    <3>1. i - Len(q) \in 1..Len(r) /\ i = Len(q) + (i - Len(q))
      BY <1>1, <2>2
    <3> QED
      BY <1>1, <1>2, <3>1 DEF NoCommand
  <2> QED
    BY <1>1, <2>1, <2>2
<1>3. ASSUME \A i \in 1..(Len(q) + Len(r)) : (q \o r)[i].type # "COMMAND"
      PROVE  NoCommand(q) /\ NoCommand(r)
  <2>1. ASSUME NEW i \in 1..Len(q) PROVE q[i].type # "COMMAND"
    <3>1. i \in 1..(Len(q) + Len(r)) /\ (q \o r)[i] = q[i]
      BY <1>1
    <3> QED
      BY <1>3, <3>1
  <2>2. ASSUME NEW i \in 1..Len(r) PROVE r[i].type # "COMMAND"
    <3>1. /\ Len(q) + i \in 1..(Len(q) + Len(r))
          /\ (q \o r)[Len(q) + i] = r[i]
      BY <1>1
    <3> QED
      BY <1>3, <3>1
  <2> QED
    BY <2>1, <2>2 DEF NoCommand
<1> QED
  BY <1>1, <1>2, <1>3

\* The queues of the engine, read as the definitions of DebugSystem read them.
LEMMA CommandsUnderWay ==
  ASSUME TypeOK, OneAtATime
  PROVE  NoCommandUnderWay(E) <=> ~UnderWay
<1>1. toEngine[E] \in Seq(EngineMsgs) /\ rxQueue[E] \in Seq(EngineMsgs)
  BY QueueTypes
<1>2. ASSUME NEW q \in Seq(EngineMsgs)
      PROVE  NoCommand(q) <=> ~Has(q, Commands)
  BY DEF NoCommand, Has, Those, Commands
<1>3. NoCommandUnderWay(E) <=> /\ debugCommand[E] = "Nothing"
                               /\ NoCommand(rxQueue[E]) /\ NoCommand(toEngine[E])
  BY <1>1, QueuesWithoutCommand DEF NoCommandUnderWay, InFlight
<1> QED
  BY <1>1, <1>2, <1>3 DEF UnderWay, InStream, InChunk, Stored

\* With one engine and one request at a time no command is left over for a later
\* stop: not in a queue, not in the slot, and the store of Nothing erases none
\* that is newer.  A recv may cut messages and the host may exit.
THEOREM NoCommandLeftOver ==
  ASSUME OneAtATime
  PROVE  Spec => []CommandOnlyAtStop
<1>1. TypeOK /\ OneToken => CommandOnlyAtStop
  <2> SUFFICES ASSUME TypeOK, OneToken, NEW e \in Engines
               PROVE  \/ NoCommandUnderWay(e)
                      \/ pc[e] \in {"vars", "wait"}
                      \/ pc[e] = "take" /\ debugCommand[e] = cmd[e]
    BY DEF CommandOnlyAtStop
  <2>1. e = E
    BY DEF OneAtATime
  <2> QED
    BY <2>1, CommandsUnderWay DEF OneToken, WhileStanding, Standing
<1> QED
  BY <1>1, TokenKept, TypeCorrect, PTL

\* A stop that VS Code shows is where the engine stands.
THEOREM StopShown ==
  ASSUME OneAtATime
  PROVE  Spec => []ShowsTheStop
<1>1. OneToken => ShowsTheStop
  <2> SUFFICES ASSUME OneToken, NEW e \in Engines, Shown
               PROVE  pc[e] \in {"vars", "wait"} /\ currentBreakpoint = target[e]
    BY DEF ShowsTheStop, Shown
  <2>1. e = E
    BY DEF OneAtATime
  <2>2. Standing /\ ~Stored /\ currentBreakpoint = target[E]
    BY DEF OneToken, WhileStanding, AtOnePlace, SamePlace, UnderWay
  <2> QED
    BY <2>1, <2>2 DEF OneToken, WhileStanding, Standing
<1> QED
  BY <1>1, TokenKept, PTL

-----------------------------------------------------------------------------
\* The token is passed on, not dropped.

\* The commands requested and not yet gone on with.
Orders ==
  {m.command : m \in Those(requests, Controls) \cup Those(toEngine[E], Commands)
                       \cup Those(rxQueue[E], Commands)}
    \cup ({debugCommand[E]} \ {"Nothing"})

InReach == link[E] \in {"pending", "up"}

\* What takes the token away: a recv that cuts a command, a stray header that
\* swallows one, a location read behind one that the adapter cannot take apart.
\* All of them begin with a recv that ends inside a message.
KeepsToken ==
  /\ (ReceiveCut(E) \/ StrayHeader(E)) /\ UnderWay => UnderWay'
  /\ HandleStop(E) => Told'

LEMMA StutterKeepsToken ==
  ASSUME TypeOK, OneAtATime, OneToken, UNCHANGED vars
  PROVE  KeepsToken
<1>1. UnderWay' <=> UnderWay
  BY DEF vars, wireVars, engineVars, backendVars, UnderWay, InStream, InChunk, Stored
<1>2. ASSUME HandleStop(E) PROVE FALSE
  <2>1. toSession'[E] = toSession[E]
    BY DEF vars, wireVars
  <2>2. Head(toSession[E]) \in Stops
    BY <1>2, Handled DEF HandleStop, Stops
  <2>3. Has(toSession[E], Stops) /\ ~Has(toSession'[E], Stops)
    BY <1>2, <2>2, Handled DEF HandleStop, OneToken, OnlyOnce
  <2> QED
    BY <2>1, <2>3
<1> QED
  BY <1>1, <1>2 DEF KeepsToken

\* What a step of an engine that stands and has a connection can do: keep the
\* stop, the message of it perhaps becoming the event; show it; answer it; leave
\* it with the command; lose the connection.
Kept ==
  /\ Standing' /\ target'[E] = target[E]
  /\ previousCommand'[E] = previousCommand[E]
  /\ Orders' = Orders
  /\ Shown' <=> Shown
  /\ Sent \/ Told => Sent' \/ Told'
  /\ currentBreakpoint' = currentBreakpoint \/ Sent

Displayed ==
  /\ Standing' /\ target'[E] = target[E]
  /\ previousCommand'[E] = previousCommand[E]
  /\ Orders' = Orders
  /\ Told /\ Shown'
  /\ currentBreakpoint' = currentBreakpoint

Responded ==
  /\ Standing' /\ target'[E] = target[E]
  /\ previousCommand'[E] = previousCommand[E]
  /\ Shown
  /\ \E c \in DebugCommands : Orders' = {c}
  /\ currentBreakpoint' = currentBreakpoint

Resumed ==
  /\ pc[E] = "take" /\ ~Standing'
  /\ previousCommand'[E] = cmd[E]

\* No order, and the only one.
LEMMA NoOrders == Orders = {} <=> ~Ordered /\ ~UnderWay
  BY DEF Orders, Ordered, UnderWay, InStream, InChunk, Stored, Has

LEMMA NoneOrdered ==
  ASSUME NEW a, NEW b, NEW c, NEW d,
         {m.command : m \in a \cup b \cup c} \cup ({d} \ {"Nothing"}) = {}
  PROVE  a = {} /\ b = {} /\ c = {} /\ d = "Nothing"
<1>1. ASSUME NEW m \in a \cup b \cup c PROVE FALSE
  OBVIOUS
<1> QED
  BY <1>1

LEMMA StoredOrder ==
  ASSUME OneToken, Stored
  PROVE  Orders = {debugCommand[E]}
<1>1. ~InStream /\ ~InChunk /\ ~Ordered
  BY DEF OneToken, AtOnePlace, UnderWay
<1>2. /\ Those(requests, Controls) = {}
      /\ Those(toEngine[E], Commands) = {}
      /\ Those(rxQueue[E], Commands) = {}
  BY <1>1 DEF InStream, InChunk, Ordered, Has
<1> QED
  BY <1>2 DEF Orders, Stored

LEMMA OneOrder ==
  ASSUME TypeOK, OneAtATime, OneToken, NEW c \in Orders
  PROVE  Orders = {c} /\ c \in DebugCommands
<1>1. CASE Stored
  <2>1. c = debugCommand[E] /\ Orders = {c}
    BY <1>1, StoredOrder
  <2> QED
    BY <1>1, <2>1, QueueTypes DEF Stored, TypeOK, BackendTypeOK
<1>2. CASE ~Stored
  <2>1. ASSUME NEW S, NEW q \in Seq(S), NEW T, Once(q, T),
               NEW x \in Those(q, T), NEW y \in Those(q, T)
        PROVE  x = y
    BY <2>1, InSequence DEF Once
  <2>2. ASSUME NEW x \in Those(requests, Controls), NEW y \in Those(requests, Controls)
        PROVE  x = y
    BY <2>1, <2>2, QueueTypes DEF OneToken, OnlyOnce
  <2>3. ASSUME NEW x \in Those(toEngine[E], Commands),
               NEW y \in Those(toEngine[E], Commands)
        PROVE  x = y
    BY <2>1, <2>3, QueueTypes DEF OneToken, OnlyOnce
  <2>4. ASSUME NEW x \in Those(rxQueue[E], Commands),
               NEW y \in Those(rxQueue[E], Commands)
        PROVE  x = y
    BY <2>1, <2>4, QueueTypes DEF OneToken, OnlyOnce
  <2>5. \/ Those(requests, Controls) = {} /\ Those(toEngine[E], Commands) = {}
        \/ Those(requests, Controls) = {} /\ Those(rxQueue[E], Commands) = {}
        \/ Those(toEngine[E], Commands) = {} /\ Those(rxQueue[E], Commands) = {}
    BY DEF OneToken, AtOnePlace, UnderWay, Ordered, InStream, InChunk, Has
  <2>6. Orders = {m.command : m \in Those(requests, Controls)
                                      \cup Those(toEngine[E], Commands)
                                      \cup Those(rxQueue[E], Commands)}
    BY <1>2 DEF Orders, Stored
  <2>7. PICK m \in Those(requests, Controls) \cup Those(toEngine[E], Commands)
                     \cup Those(rxQueue[E], Commands) : c = m.command
    BY <2>6
  <2>8. Orders = {c}
    BY <2>2, <2>3, <2>4, <2>5, <2>6, <2>7
  <2>9. c \in DebugCommands
    BY <2>7 DEF Those, Controls, Commands, Requests, EngineMsgs
  <2> QED
    BY <2>8, <2>9
<1> QED
  BY <1>1, <1>2

-----------------------------------------------------------------------------
\* The script thread at a stop.
LEMMA ThreadPasses ==
  ASSUME TypeOK, OneAtATime, OneToken, Standing, Engine(E)
  PROVE  Kept \/ Resumed
<1>1. /\ E \in Engines
      /\ UNCHANGED <<requests, events, uiStopped, awaiting, currentBreakpoint>>
  BY QueueTypes DEF Engine, sessionVars, uiVars
<1>2. SendVariables(E) \/ LoadCommand(E) \/ StoreNothing(E)
  BY DEF Engine, Start, ScriptThread, Goto, Connect, ConnectFail,
     StartReceiverThread, SendBreakpointsRequest, BuildScript, BuildFail,
     ScriptEnds, Shutdown, ProcessExit, ExecuteLine, GetAbsolutePath,
     FindBreakpoint, FindNothing, SendStop, Crash, Standing
<1>3. CASE SendVariables(E) \/ LoadCommand(E)
  <2>1. /\ UNCHANGED <<link, toEngine, rxQueue, debugCommand, target,
                       previousCommand>>
        /\ pc'[E] \in {"wait", "take"}
    BY <1>1, <1>3 DEF SendVariables, LoadCommand, Goto, wireVars, backendVars,
       TypeOK, ThreadTypeOK
  <2>2. Sent' <=> Sent
    <3>1. CASE SendVariables(E)
      BY <2>1, <3>1, SendsNoStop, MessageTypes, MessageClasses
         DEF SendVariables, Sent
    <3>2. CASE LoadCommand(E)
      BY <3>2 DEF LoadCommand, wireVars, Sent
    <3> QED
      BY <1>3, <3>1, <3>2
  <2>3. Orders' = Orders
    BY <1>1, <2>1 DEF Orders
  <2> QED
    BY <1>1, <2>1, <2>2, <2>3, SameSession DEF Kept, Standing
<1>4. CASE StoreNothing(E)
  BY <1>1, <1>4 DEF StoreNothing, Resumed, Standing, TypeOK, ThreadTypeOK
<1> QED
  BY <1>2, <1>3, <1>4

\* The receiver thread.
LEMMA ReceiverPasses ==
  ASSUME TypeOK, OneAtATime, OneToken, HandsEmpty(E), Standing,
         ReceiverThread(E), OneToken', TypeOK', KeepsToken
  PROVE  Kept
<1>1. /\ UNCHANGED <<requests, events, uiStopped, awaiting, currentBreakpoint>>
      /\ UNCHANGED <<pc, target, previousCommand>>
  BY DEF ReceiverThread, threadVars, sessionVars, uiVars
<1>2. UNCHANGED <<link, toSession>>
  BY DEF ReceiverThread, Receiver, CheckRunning, Receive, ReceiveCut,
     Disconnected, ChunkDone, ClearBreakpoints, StrayHeader, PushBreakpoint,
     EndBreakpoints, ParseCommand, UnknownMessage, wireVars
<1>3. SUFFICES Orders' = Orders
  <2>1. (Sent' <=> Sent) /\ Standing'
    BY <1>1, <1>2 DEF Sent, Standing
  <2> QED
    BY <1>1, <2>1, SameSession DEF Kept
<1>4. ASSUME ReceiveCut(E) \/ StrayHeader(E), Orders' \subseteq Orders
      PROVE  Orders' = Orders
  <2> SUFFICES ASSUME Orders' # Orders PROVE FALSE
    OBVIOUS
  <2>1. PICK c \in Orders : c \notin Orders'
    BY <1>4
  <2>2. Orders = {c}
    BY OneOrder
  <2>3. Orders' = {}
    BY <1>4, <2>1, <2>2
  <2>4. ~Ordered' /\ ~UnderWay'
    <3>1. /\ Those(requests', Controls) = {}
          /\ Those(toEngine'[E], Commands) = {}
          /\ Those(rxQueue'[E], Commands) = {}
          /\ debugCommand'[E] = "Nothing"
      BY <2>3, NoneOrdered DEF Orders
    <3> QED
      BY <3>1 DEF Ordered, UnderWay, InStream, InChunk, Stored, Has
  <2>5. ~Ordered /\ ~UnderWay
    BY <1>1, <1>4, <2>4, SameSession DEF KeepsToken
  <2> QED
    BY <2>2, <2>5, NoOrders
<1>5. CASE Receive(E) \/ ReceiveCut(E)
  <2>1. /\ Those(toEngine'[E], Commands) \cup Those(rxQueue'[E], Commands)
             \subseteq Those(toEngine[E], Commands)
        /\ Receive(E) =>
             Those(toEngine'[E], Commands) \cup Those(rxQueue'[E], Commands)
               = Those(toEngine[E], Commands)
    BY <1>5, Received DEF OneToken, OnlyOnce
  <2>2. Those(rxQueue[E], Commands) = {}
    BY <1>5, InEmpty DEF HandsEmpty, Receive, ReceiveCut, Receivable
  <2>3. debugCommand' = debugCommand
    BY <1>5 DEF Receive, ReceiveCut
  <2>4. Orders' \subseteq Orders /\ (Receive(E) => Orders' = Orders)
    BY <1>1, <2>1, <2>2, <2>3 DEF Orders
  <2> QED
    BY <1>5, <1>4, <2>4
<1>6. CASE ClearBreakpoints(E) \/ UnknownMessage(E) \/ ParseCommand(E)
  <2> DEFINE q == rxQueue[E]
  <2>1. E \in Engines /\ q \in Seq(EngineMsgs) /\ q # <<>> /\ rxQueue'[E] = Tail(q)
    BY <1>6, QueueTypes DEF ClearBreakpoints, UnknownMessage, ParseCommand, Parsing,
       TypeOK, BackendTypeOK
  <2>2. Those(q, Commands) = Those(rxQueue'[E], Commands) \cup ({Head(q)} \cap Commands)
    BY <2>1, InTail
  <2>3. Head(q) \in EngineMsgs /\ toEngine' = toEngine
    BY <1>6, <2>1, HeadTailProperties DEF ClearBreakpoints, UnknownMessage,
       ParseCommand, wireVars
  <2>4. CASE ClearBreakpoints(E) \/ UnknownMessage(E)
    <3>1. Head(q) \notin Commands /\ debugCommand' = debugCommand
      BY <2>4 DEF ClearBreakpoints, UnknownMessage, Parsing, Commands
    <3>2. Those(q, Commands) = Those(rxQueue'[E], Commands)
      BY <2>2, <3>1
    <3> QED
      BY <1>1, <2>3, <3>1, <3>2 DEF Orders
  <2>5. CASE ParseCommand(E)
    <3>1. /\ Head(q) \in Commands
          /\ debugCommand'[E] = Head(q).command
          /\ Head(q).command \in DebugCommands
      BY <2>1, <2>3, <2>5, MessageParts DEF ParseCommand, Parsing, Commands,
         TypeOK, BackendTypeOK
    <3>2. Head(q).command \in Orders
      BY <2>2, <3>1 DEF Orders
    <3>3. Orders = {Head(q).command}
      BY <3>2, OneOrder
    <3>4. Stored'
      BY <3>1 DEF Stored, DebugCommands
    <3>5. Orders' = {debugCommand'[E]}
      <4>1. ~InStream' /\ ~InChunk' /\ ~Ordered'
        BY <3>4 DEF OneToken, AtOnePlace, UnderWay
      <4>2. /\ Those(requests', Controls) = {}
            /\ Those(toEngine'[E], Commands) = {}
            /\ Those(rxQueue'[E], Commands) = {}
        BY <4>1 DEF InStream, InChunk, Ordered, Has
      <4> QED
        BY <3>4, <4>2 DEF Orders, Stored
    <3> QED
      BY <3>1, <3>3, <3>5
  <2> QED
    BY <1>6, <2>4, <2>5
<1>7. CASE UNCHANGED <<toEngine, rxQueue, debugCommand>>
  BY <1>1, <1>7 DEF Orders
<1>8. CASE StrayHeader(E)
  <2>1. /\ UNCHANGED <<toEngine, debugCommand>>
        /\ Those(rxQueue'[E], Commands) \subseteq Those(rxQueue[E], Commands)
    BY <1>8, Strays
  <2>2. Orders' \subseteq Orders
    BY <1>1, <2>1 DEF Orders
  <2> QED
    BY <1>4, <1>8, <2>2
<1> QED
  BY <1>5, <1>6, <1>7, <1>8 DEF ReceiverThread, Receiver, CheckRunning, Disconnected,
     ChunkDone, PushBreakpoint, EndBreakpoints, wireVars

\* The adapter: it tells VS Code of the stop, or of nothing.
LEMMA AdapterPasses ==
  ASSUME TypeOK, OneAtATime, OneToken, Standing, Adapter(E), KeepsToken
  PROVE  Kept \/ (~InReach' /\ OnEnd(E))
<1>1. /\ E \in Engines
      /\ UNCHANGED <<pc, target, previousCommand, debugCommand, rxQueue,
                     requests, uiStopped, awaiting>>
  BY QueueTypes DEF Adapter, Socket, OnConnection, HandleGetBreakpoints, HandleStop,
     HandleVariables, OnEnd, sessionVars, engineVars, threadVars, backendVars, uiVars
<1>2. CASE OnEnd(E)
  BY <1>1, <1>2 DEF OnEnd, InReach, TypeOK, WireTypeOK
<1>3. CASE ~OnEnd(E)
  <2>1. Those(toEngine'[E], Commands) = Those(toEngine[E], Commands)
    <3>1. CASE HandleGetBreakpoints(E)
      BY <3>1, BreakpointsWritten
    <3>2. CASE ~HandleGetBreakpoints(E)
      BY <1>3, <3>2 DEF Adapter, Socket, OnConnection, HandleStop, HandleVariables
    <3> QED
      BY <3>1, <3>2
  <2>2. Orders' = Orders
    BY <1>1, <2>1 DEF Orders
  <2>3. Standing' /\ (Shown' <=> Shown)
    BY <1>1 DEF Standing, Shown
  <2>4. /\ Sent \/ Told => Sent' \/ Told'
        /\ currentBreakpoint' = currentBreakpoint \/ Sent
    <3>1. CASE OnConnection(E)
      BY <1>1, <3>1 DEF OnConnection, Sent, Told, TypeOK, WireTypeOK
    <3>2. CASE HandleGetBreakpoints(E) \/ HandleVariables(E)
      <4>1. UNCHANGED <<link, events, currentBreakpoint>>
        BY <3>2 DEF HandleGetBreakpoints, HandleVariables, sessionVars
      <4>2. PICK type \in {"GET_BREAKPOINTS", "VARIABLES"} : Handling(E, type)
        BY <3>2 DEF HandleGetBreakpoints, HandleVariables
      <4>3. Head(toSession[E]) \notin Stops
        BY <4>2, Handled DEF Stops
      <4>4. Has(toSession'[E], Stops) <=> Has(toSession[E], Stops)
        BY <4>2, <4>3, Handled
      <4> QED
        BY <4>1, <4>4 DEF Sent, Told
    <3>3. CASE HandleStop(E)
      <4>1. Told'
        BY <3>3 DEF KeepsToken
      <4>2. Sent
        BY <3>3, Handled DEF HandleStop, Stops, Sent
      <4> QED
        BY <4>1, <4>2
    <3> QED
      BY <1>3, <3>1, <3>2, <3>3 DEF Adapter, Socket
  <2> QED
    BY <1>1, <2>2, <2>3, <2>4 DEF Kept
<1> QED
  BY <1>2, <1>3

\* The requests: a control request becomes a command of the same name.
LEMMA RequestPasses ==
  ASSUME TypeOK, OneAtATime, OneToken, OneToken', Reachable(E), Standing, InReach,
         AdapterRequest
  PROVE  Kept
<1>1. /\ E \in Engines
      /\ UNCHANGED <<pc, target, previousCommand, debugCommand, rxQueue, link,
                     toSession, uiStopped, awaiting, currentBreakpoint>>
  BY QueueTypes DEF AdapterRequest, Initialize, Dap, SetBreakPointsRequest,
     ControlRequest, engineVars, threadVars, backendVars, uiVars, wireVars
<1>2. Standing' /\ (Shown' <=> Shown) /\ (Sent' <=> Sent)
  BY <1>1 DEF Standing, Shown, Sent
<1>3. /\ Told' <=> Told
      /\ Orders' = Orders
  <2>1. CASE Initialize
    BY <1>1, <2>1 DEF Initialize, wireVars, Told, Orders
  <2>2. CASE SetBreakPointsRequest
    <3>1. Those(toEngine'[E], Commands) = Those(toEngine[E], Commands)
      BY <2>2, BreakpointsWritten
    <3>2. Those(requests', Controls) = Those(requests, Controls)
      <4>1. {Head(requests)} \cap Controls = {}
        BY <2>2, TakenRequest DEF SetBreakPointsRequest
      <4> QED
        BY <2>2, <4>1, TakenRequest DEF SetBreakPointsRequest
    <3>3. Told' <=> Told
      <4>1. events' = events \/ events' = Append(events, "verified")
        BY <2>2 DEF SetBreakPointsRequest
      <4> QED
        BY <4>1, EventAdded DEF Told
    <3> QED
      BY <1>1, <3>1, <3>2, <3>3 DEF Orders
  <2>3. CASE ControlRequest
    <3> DEFINE c == Head(requests).command
    <3>1. /\ Head(requests) \in Controls /\ c \in DebugCommands
          /\ Head(requests) \in Those(requests, Controls)
          /\ Ordered /\ ~Ordered'
      BY <2>3, TakenRequest DEF ControlRequest, OneToken, OnlyOnce
    <3>2. E \in clients /\ link[E] = "up"
      BY <3>1 DEF Reachable, InReach, OneToken, SamePlace
    <3>3. CommandMsg(c) \in EngineMsgs /\ CommandMsg(c) \in Commands
          /\ CommandMsg(c).command = c
      BY <3>1, MessageTypes, MessageClasses
    <3>4. Those(toEngine'[E], Commands)
            = Those(toEngine[E], Commands) \cup ({CommandMsg(c)} \cap Commands)
      BY <2>3, <3>2, <3>3, Written DEF ControlRequest
    <3>5. c \in Orders /\ c \in Orders'
      BY <3>1, <3>3, <3>4 DEF Orders
    <3>6. Orders = {c}
      BY <3>5, OneOrder
    <3>7. Those(toEngine[E], Commands) = {} /\ Those(rxQueue[E], Commands) = {}
          /\ debugCommand[E] = "Nothing"
      BY <3>1 DEF OneToken, AtOnePlace, UnderWay, InStream, InChunk, Stored, Has
    <3>8. Those(requests', Controls) = {}
      BY <3>1 DEF Ordered, Has
    <3>9. Orders' = {c}
      BY <1>1, <3>3, <3>4, <3>7, <3>8 DEF Orders
    <3>10. Told' <=> Told
      BY <2>3, EventAdded DEF ControlRequest, Told
    <3> QED
      BY <3>6, <3>9, <3>10
  <2> QED
    BY <2>1, <2>2, <2>3 DEF AdapterRequest, Dap
<1> QED
  BY <1>1, <1>2, <1>3 DEF Kept

\* VS Code and the user.
LEMMA UserPasses ==
  ASSUME TypeOK, OneAtATime, OneToken, Standing,
         User \/ VSCode \/ UNCHANGED vars
  PROVE  Kept \/ Displayed \/ Responded
<1>1. /\ E \in Engines
      /\ UNCHANGED <<pc, target, previousCommand, debugCommand, rxQueue, toEngine,
                     link, toSession, currentBreakpoint>>
  BY QueueTypes DEF User, VSCode, SetBreakpoints, Press, ReadEvent, vars,
     sessionVars, engineVars, threadVars, backendVars, wireVars
<1>2. Standing' /\ (Sent' <=> Sent)
  BY <1>1 DEF Standing, Sent
<1>3. CASE UNCHANGED vars
  BY <1>1, <1>2, <1>3, SameSession DEF vars, sessionVars, uiVars, Kept, Orders
<1>4. CASE SetBreakpoints
  <2>1. PICK r \in Requests : r.type = "setBreakpoints" /\ requests' = Append(requests, r)
    <3>1. PICK path \in Paths, lines \in SUBSET Lines :
            requests' = Append(requests, [type |-> "setBreakpoints", path |-> path,
                                          lines |-> lines])
      BY <1>4 DEF SetBreakpoints
    <3>2. PICK r \in Requests : r = [type |-> "setBreakpoints", path |-> path,
                                     lines |-> lines]
      BY DEF Requests
    <3> QED
      BY <3>1, <3>2
  <2>2. {r} \cap Controls = {}
    BY <2>1 DEF Controls
  <2>3. Those(Append(requests, r), Controls)
          = Those(requests, Controls) \cup ({r} \cap Controls)
    BY QueueTypes, InAppend
  <2>4. Those(requests', Controls) = Those(requests, Controls)
    BY <2>1, <2>2, <2>3
  <2>5. Orders' = Orders
    BY <1>1, <2>4 DEF Orders
  <2>6. (Told' <=> Told) /\ (Shown' <=> Shown)
    BY <1>4 DEF SetBreakpoints, Told, Shown
  <2> QED
    BY <1>1, <1>2, <2>5, <2>6 DEF Kept
<1>5. CASE Press
  <2>1. awaiting = 0 /\ uiStopped
    BY <1>5, UiAssumption DEF Press, UiAssumption, OneAtATime, OneToken, Answers
  <2>2. Shown /\ Orders = {}
    BY <2>1, NoOrders DEF Shown, OneToken, AtOnePlace
  <2>3. PICK c \in DebugCommands :
          requests' = Append(requests, [type |-> "control", command |-> c])
    BY <1>5 DEF Press
  <2>4. PICK r \in Requests : r = [type |-> "control", command |-> c]
    BY DEF Requests
  <2>5. r \in Controls /\ r.command = c
    BY <2>4 DEF Controls
  <2>6. Those(requests', Controls) = Those(requests, Controls) \cup ({r} \cap Controls)
    BY <2>3, <2>4, QueueTypes, InAppend
  <2>7. Orders' = Orders \cup {c}
    BY <1>1, <2>5, <2>6 DEF Orders
  <2>8. Orders' = {c}
    BY <2>2, <2>7
  <2> QED
    BY <1>1, <1>2, <2>2, <2>8 DEF Responded
<1>6. CASE ReadEvent
  <2>1. requests' = requests
    BY <1>6 DEF ReadEvent
  <2>2. Orders' = Orders
    BY <1>1, <2>1 DEF Orders
  <2>3. /\ Head(events) \in {"stopped", "resumed", "verified"}
        /\ events # <<>> /\ events' = Tail(events)
    BY <1>6, QueueTypes, HeadTailProperties DEF ReadEvent
  <2>4. ASSUME NEW ev
        PROVE  Has(events, {ev}) <=> Has(events', {ev}) \/ Head(events) = ev
    <3> DEFINE T == {ev}
    <3>1. Head(events) \in T <=> Head(events) = ev
      OBVIOUS
    <3> HIDE DEF T
    <3>2. Has(events, T) <=> Has(Tail(events), T) \/ Head(events) \in T
      BY <2>3, QueueTypes, InTail
    <3>3. Has(events, T) <=> Has(events', T) \/ Head(events) = ev
      BY <2>3, <3>1, <3>2
    <3> QED
      BY <3>3 DEF T
  <2>5. CASE Head(events) = "stopped"
    <3>1. Told
      BY <2>4, <2>5 DEF Told
    <3>2. uiStopped' = TRUE /\ awaiting' = awaiting
      BY <1>6, <2>5, Zenon DEF ReadEvent
    <3>3. awaiting = 0
      BY <2>3, <2>5, StoppedBehindResumed
    <3>4. Shown'
      BY <3>2, <3>3 DEF Shown
    <3> QED
      BY <1>1, <1>2, <2>2, <3>1, <3>4 DEF Displayed
  <2>6. CASE Head(events) = "resumed"
    <3>1. awaiting = 1
      BY <2>4, <2>6 DEF OneToken, Answers
    <3>2. ~Shown /\ uiStopped' = FALSE
      <4>1. uiStopped' = FALSE
        BY <1>6, <2>6, Zenon DEF ReadEvent
      <4>2. ~Shown
        BY <3>1 DEF Shown
      <4> QED
        BY <4>1, <4>2
    <3>3. ~Shown'
      BY <3>2, Zenon DEF Shown
    <3>4. Told' <=> Told
      BY <2>4, <2>6 DEF Told
    <3> QED
      BY <1>1, <1>2, <2>2, <3>2, <3>3, <3>4 DEF Kept
  <2>7. CASE Head(events) = "verified"
    <3>1. uiStopped' = uiStopped /\ awaiting' = awaiting
      BY <1>6, <2>7, Zenon DEF ReadEvent
    <3>2. Told' <=> Told
      BY <2>4, <2>7 DEF Told
    <3>3. Shown' <=> Shown
      BY <3>1 DEF Shown
    <3> QED
      BY <1>1, <1>2, <2>2, <3>2, <3>3 DEF Kept
  <2> QED
    BY <2>3, <2>5, <2>6, <2>7
<1> QED
  BY <1>3, <1>4, <1>5, <1>6 DEF User, VSCode

\* Any step of an engine that stands and has a connection.
LEMMA StandingPasses ==
  ASSUME TypeOK, TypeOK', NoUpdateLost, OneAtATime, OneToken, OneToken',
         Standing, InReach, [Next]_vars, KeepsToken
  PROVE  Kept \/ Displayed \/ Responded \/ Resumed \/ (~InReach' /\ (HostExit \/ OnEnd(E)))
<1>1. ASSUME NEW e \in Engines, Engine(e) \/ ReceiverThread(e) \/ Adapter(e)
      PROVE  Kept \/ Resumed \/ (~InReach' /\ OnEnd(E))
  <2>1. e = E
    BY DEF OneAtATime
  <2>2. HandsEmpty(E)
    BY <2>1 DEF NoUpdateLost
  <2> QED
    BY <1>1, <2>1, <2>2, ThreadPasses, ReceiverPasses, AdapterPasses
<1>2. CASE AdapterRequest
  <2>1. Reachable(E)
    BY QueueTypes DEF NoUpdateLost
  <2> QED
    BY <1>2, <2>1, RequestPasses
<1>3. CASE User \/ VSCode \/ UNCHANGED vars
  BY <1>3, UserPasses
<1>4. CASE HostExit
  BY <1>4, QueueTypes DEF HostExit, InReach
<1> QED
  BY <1>1, <1>2, <1>3, <1>4 DEF Next

\* An engine that does not stand begins to only by sending where.
LEMMA StopBegins ==
  ASSUME TypeOK, OneAtATime, ~Standing, [Next]_vars
  PROVE  /\ previousCommand'[E] = previousCommand[E]
         /\ Standing' => SendStop(E) /\ UNCHANGED <<sessionVars, uiVars>>
<1>1. ASSUME NEW e \in Engines, Engine(e)
      PROVE  /\ previousCommand'[E] = previousCommand[E]
             /\ Standing' => SendStop(E) /\ UNCHANGED <<sessionVars, uiVars>>
  <2>1. e = E /\ UNCHANGED <<sessionVars, uiVars>>
    BY <1>1 DEF Engine, OneAtATime
  <2>2. /\ E \in Engines /\ pc \in [Engines -> ThreadStates]
    BY QueueTypes DEF TypeOK, ThreadTypeOK
  <2>3. ~(SendVariables(E) \/ LoadCommand(E) \/ StoreNothing(E))
    BY DEF SendVariables, LoadCommand, StoreNothing, Goto, Standing
  <2>4. previousCommand' = previousCommand
    BY <1>1, <2>1, <2>3 DEF Engine, Start, ScriptThread, Connect, ConnectFail,
       StartReceiverThread, SendBreakpointsRequest, BuildScript, BuildFail,
       ScriptEnds, Shutdown, ProcessExit, ExecuteLine, GetAbsolutePath,
       FindBreakpoint, FindNothing, SendStop, Crash
  <2>5. SendStop(E) \/ ~Standing'
    BY <1>1, <2>1, <2>2, <2>3 DEF Engine, Start, ScriptThread, Connect, ConnectFail,
       StartReceiverThread, SendBreakpointsRequest, BuildScript, BuildFail,
       ScriptEnds, Shutdown, ProcessExit, ExecuteLine, GetAbsolutePath,
       FindBreakpoint, FindNothing, Crash, Goto, Standing
  <2> QED
    BY <2>1, <2>4, <2>5
<1>2. ASSUME UNCHANGED <<pc, previousCommand>>
      PROVE  previousCommand'[E] = previousCommand[E] /\ ~Standing'
  BY <1>2 DEF Standing
<1> QED
  BY <1>1, <1>2 DEF Next, ReceiverThread, Adapter, AdapterRequest, User,
     SetBreakpoints, Press, VSCode, ReadEvent, HostExit, vars, engineVars, threadVars

LEMMA StopSent ==
  ASSUME TypeOK, OneAtATime, SendStop(E), InReach
  PROVE  Sent'
<1>1. E \in Engines /\ link' = link
  BY QueueTypes DEF SendStop
<1>2. PICK loc \in Location : SendToSession(E, StopMsg(loc))
  BY StopLocation
<1>3. PICK m \in Stops : m = StopMsg(loc)
  BY MessageClasses
<1>4. toSession'[E] = Append(toSession[E], m)
  BY <1>1, <1>2, <1>3 DEF SendToSession, InReach, TypeOK, WireTypeOK
<1>5. Has(toSession'[E], Stops)
  BY <1>3, <1>4, QueueTypes, InAppend DEF Stops
<1> QED
  BY <1>1, <1>5 DEF Sent, InReach

-----------------------------------------------------------------------------
\* As long as the connection lasts, a stop has its token.
TokenInPlay ==
  Standing /\ InReach => Sent \/ Told \/ Shown \/ Orders # {}

LEMMA TokenStaysInPlay ==
  ASSUME TypeOK, TypeOK', NoUpdateLost, OneAtATime, OneToken, OneToken',
         TokenInPlay, [Next]_vars, KeepsToken
  PROVE  TokenInPlay'
<1> SUFFICES ASSUME Standing', InReach'
             PROVE  Sent' \/ Told' \/ Shown' \/ Orders' # {}
  BY DEF TokenInPlay
<1>1. CASE ~Standing
  <2>1. SendStop(E) /\ InReach
    BY <1>1, StopBegins DEF SendStop, InReach
  <2> QED
    BY <2>1, StopSent
<1>2. CASE Standing /\ InReach
  BY <1>2, StandingPasses DEF TokenInPlay, Kept, Displayed, Responded, Resumed
<1>3. CASE Standing /\ ~InReach
  <2>1. /\ E \in Engines /\ link \in [Engines -> LinkStates]
        /\ pc[E] # "start" /\ link[E] \notin {"pending", "up"}
        /\ link'[E] \in {"pending", "up"}
    BY <1>3, QueueTypes DEF Standing, InReach, TypeOK, WireTypeOK
  <2>2. ASSUME NEW e \in Engines, Engine(e) PROVE FALSE
    <3>1. e = E
      BY DEF OneAtATime
    <3> QED
      BY <2>1, <2>2, <3>1 DEF Engine, Start, ScriptThread, Connect, ConnectFail,
         StartReceiverThread, SendBreakpointsRequest, BuildScript, BuildFail,
         ScriptEnds, Shutdown, ProcessExit, ExecuteLine, GetAbsolutePath,
         FindBreakpoint, FindNothing, SendStop, Crash, SendVariables, LoadCommand,
         StoreNothing, CloseStream, Goto, wireVars
  <2>3. ASSUME NEW e \in Engines, Adapter(e) PROVE FALSE
    <3>1. e = E
      BY DEF OneAtATime
    <3> QED
      BY <2>1, <2>3, <3>1 DEF Adapter, Socket, OnConnection, HandleGetBreakpoints,
         HandleStop, HandleVariables, OnEnd, Handling
  <2>4. ASSUME NEW e \in Engines, ReceiverThread(e) PROVE link' = link
    BY <2>4 DEF ReceiverThread, Receiver, CheckRunning, Receive, ReceiveCut,
       Disconnected, ChunkDone, ClearBreakpoints, StrayHeader, PushBreakpoint,
       EndBreakpoints, ParseCommand, UnknownMessage, wireVars
  <2>5. ~HostExit
    BY <2>1 DEF HostExit
  <2> QED
    BY <2>1, <2>2, <2>3, <2>4, <2>5 DEF Next, AdapterRequest, Initialize, Dap,
       SetBreakPointsRequest, ControlRequest, User, SetBreakpoints, Press, VSCode,
       ReadEvent, vars, wireVars
<1> QED
  BY <1>1, <1>2, <1>3

\* Unless a recv that ends inside a message takes a command or a location away,
\* the engine and VS Code never both wait for the other, whatever else goes wrong
\* with the connection.
THEOREM SomeoneActs ==
  ASSUME OneAtATime
  PROVE  Spec /\ [][KeepsToken]_vars => []NeverBothWaiting
<1>1. Init => TokenInPlay
  <2> SUFFICES ASSUME Init PROVE TokenInPlay
    OBVIOUS
  <2>1. pc[E] = "start"
    BY DEF Init, ThreadInit, OneAtATime
  <2> QED
    BY <2>1 DEF TokenInPlay, Standing
<1>3. TypeOK /\ TypeOK' /\ NoUpdateLost /\ OneToken /\ OneToken' /\ TokenInPlay
      /\ [Next]_vars /\ [KeepsToken]_vars => TokenInPlay'
  BY StutterKeepsToken, TokenStaysInPlay
<1>4. TypeOK /\ OneToken /\ TokenInPlay => NeverBothWaiting
  <2> SUFFICES ASSUME TypeOK, OneToken, TokenInPlay, NEW e \in Engines,
                      pc[e] = "wait", link[e] = "up"
               PROVE  \/ ~NoCommandUnderWay(e)
                      \/ uiStopped
                      \/ requests # <<>> \/ events # <<>>
                      \/ \E i \in DOMAIN toSession[e] : toSession[e][i].type = "STOP"
    BY DEF NeverBothWaiting
  <2>1. e = E
    BY DEF OneAtATime
  <2>2. Sent \/ Told \/ Shown \/ Ordered \/ UnderWay
    BY <2>1, NoOrders DEF TokenInPlay, Standing, InReach
  <2>3. CASE Sent
    BY <2>1, <2>3, QueueTypes DEF Sent, Has, Those, Stops
  <2>4. CASE Told \/ Ordered
    BY <2>4, InEmpty DEF Told, Ordered
  <2>5. CASE Shown \/ UnderWay
    BY <2>1, <2>5, CommandsUnderWay DEF Shown
  <2> QED
    BY <2>2, <2>3, <2>4, <2>5
<1> QED
  BY <1>1, <1>3, <1>4, TokenKept, TypeCorrect, UpdatesSurvive, PTL DEF Spec

-----------------------------------------------------------------------------
\* What the user sees: the safety part of StopAndGo, for a host that stays.

NoEnd(q) == \A i \in 1..Len(q) : q[i].type # "EOF"

\* From its connection until it closes it an engine is connected.
Connected ==
  pc[E] \notin {"start", "aborted", "exit", "ended"} =>
    InReach /\ NoEnd(toSession[E])

LEMMA NoEndAppended ==
  ASSUME NEW q \in Seq(SessionMsgs), NEW m \in SessionMsgs, NoEnd(q), m.type # "EOF"
  PROVE  NoEnd(Append(q, m))
<1>1. /\ Len(q) \in Nat
      /\ Len(Append(q, m)) = Len(q) + 1
      /\ \A i \in 1..Len(q) : Append(q, m)[i] = q[i]
      /\ Append(q, m)[Len(q) + 1] = m
  BY AppendProperties
<1> QED
  BY <1>1 DEF NoEnd

LEMMA NoEndInTail ==
  ASSUME NEW q \in Seq(SessionMsgs), NoEnd(q), q # <<>>
  PROVE  NoEnd(Tail(q)) /\ Head(q).type # "EOF"
<1>1. /\ Len(q) \in Nat \ {0}
      /\ Len(Tail(q)) = Len(q) - 1
      /\ \A i \in 1..Len(Tail(q)) : Tail(q)[i] = q[i + 1]
      /\ Head(q) = q[1]
  BY HeadTailProperties, EmptySeq
<1> QED
  BY <1>1 DEF NoEnd

LEMMA SendsNoEnd ==
  ASSUME TypeOK, OneAtATime, NEW m \in SessionMsgs, m.type # "EOF",
         SendToSession(E, m), NoEnd(toSession[E])
  PROVE  NoEnd(toSession'[E])
<1>1. CASE link[E] \in {"pending", "up"}
  <2>1. toSession'[E] = Append(toSession[E], m)
    BY <1>1, QueueTypes DEF SendToSession, TypeOK, WireTypeOK
  <2> QED
    BY <2>1, QueueTypes, NoEndAppended
<1>2. CASE link[E] \notin {"pending", "up"}
  BY <1>2 DEF SendToSession
<1> QED
  BY <1>1, <1>2

LEMMA StaysConnected ==
  ASSUME TypeOK, OneAtATime, OneToken, Connected, MayExit = FALSE, [Next]_vars
  PROVE  Connected'
<1> SUFFICES ASSUME pc'[E] \notin {"start", "aborted", "exit", "ended"}
             PROVE  InReach' /\ NoEnd(toSession'[E])
  BY DEF Connected
<1>1. /\ E \in Engines /\ pc \in [Engines -> ThreadStates]
      /\ link \in [Engines -> LinkStates]
      /\ toSession[E] \in Seq(SessionMsgs)
  BY QueueTypes DEF TypeOK, WireTypeOK, ThreadTypeOK
<1>2. CASE Connect(E)
  <2>1. toSession'[E] = <<>> /\ link'[E] = "pending"
    BY <1>1, <1>2 DEF Connect, Goto, OneToken, WhileStanding
  <2> QED
    BY <2>1 DEF InReach, NoEnd
<1>3. ASSUME Engine(E), ~Connect(E)
      PROVE  InReach' /\ NoEnd(toSession'[E])
  <2>1. /\ pc[E] \notin {"start", "aborted", "exit", "ended"}
        /\ ~ConnectFail(E) /\ ~Shutdown(E) /\ ~ProcessExit(E) /\ ~Crash(E)
        /\ Start(E) => FALSE
    BY <1>1, <1>3 DEF Engine, Start, ScriptThread, Connect, ConnectFail,
       StartReceiverThread, SendBreakpointsRequest, BuildScript, BuildFail,
       ScriptEnds, Shutdown, ProcessExit, ExecuteLine, GetAbsolutePath,
       FindBreakpoint, FindNothing, SendStop, Crash, SendVariables, LoadCommand,
       StoreNothing, Goto
  <2>2. InReach /\ NoEnd(toSession[E])
    BY <2>1 DEF Connected
  <2>3. link' = link
    BY <1>3, <2>1 DEF Engine, ScriptThread, StartReceiverThread,
       SendBreakpointsRequest, BuildScript, BuildFail, ScriptEnds, ExecuteLine,
       GetAbsolutePath, FindBreakpoint, FindNothing, SendStop, SendVariables,
       LoadCommand, StoreNothing, wireVars
  <2>4. NoEnd(toSession'[E])
    <3>1. CASE SendBreakpointsRequest(E)
      BY <2>2, <3>1, SendsNoEnd, MessageTypes DEF SendBreakpointsRequest,
         GetBreakpointsMsg
    <3>2. CASE SendVariables(E)
      BY <2>2, <3>2, SendsNoEnd, MessageTypes DEF SendVariables, VariablesMsg
    <3>3. CASE SendStop(E)
      <4>1. PICK loc \in Location : SendToSession(E, StopMsg(loc))
        BY <3>3, StopLocation
      <4>2. StopMsg(loc) \in SessionMsgs /\ StopMsg(loc).type # "EOF"
        BY MessageTypes DEF StopMsg
      <4> QED
        BY <2>2, <4>1, <4>2, SendsNoEnd
    <3>4. CASE UNCHANGED toSession
      BY <2>2, <3>4
    <3> QED
      BY <1>3, <2>1, <3>1, <3>2, <3>3, <3>4 DEF Engine, ScriptThread,
         StartReceiverThread, BuildScript, BuildFail, ScriptEnds, ExecuteLine,
         GetAbsolutePath, FindBreakpoint, FindNothing, LoadCommand, StoreNothing,
         wireVars
  <2> QED
    BY <2>2, <2>3, <2>4 DEF InReach
<1>4. ASSUME Adapter(E) PROVE InReach' /\ NoEnd(toSession'[E])
  <2>1. pc' = pc
    BY <1>4 DEF Adapter, engineVars, threadVars
  <2>2. InReach /\ NoEnd(toSession[E])
    BY <2>1 DEF Connected
  <2>3. CASE OnConnection(E)
    BY <1>1, <2>2, <2>3 DEF OnConnection, InReach
  <2>4. ASSUME NEW type, Handling(E, type)
        PROVE  type # "EOF" /\ NoEnd(toSession'[E])
    <3>1. /\ toSession[E] # <<>> /\ Head(toSession[E]).type = type
          /\ toSession'[E] = Tail(toSession[E])
      BY <2>4, Handled
    <3> QED
      BY <1>1, <2>2, <3>1, NoEndInTail
  <2>5. ~OnEnd(E)
    BY <2>4 DEF OnEnd
  <2>6. CASE HandleGetBreakpoints(E) \/ HandleStop(E) \/ HandleVariables(E)
    <3>1. link' = link
      BY <2>6 DEF HandleGetBreakpoints, HandleStop, HandleVariables
    <3>2. PICK type : Handling(E, type)
      BY <2>6 DEF HandleGetBreakpoints, HandleStop, HandleVariables
    <3> QED
      BY <2>2, <2>4, <3>1, <3>2 DEF InReach
  <2> QED
    BY <1>4, <2>3, <2>5, <2>6 DEF Adapter, Socket
<1>5. ASSUME UNCHANGED <<pc, link, toSession>>
      PROVE  InReach' /\ NoEnd(toSession'[E])
  BY <1>5 DEF Connected, InReach
<1>6. ASSUME NEW e \in Engines, Engine(e) \/ ReceiverThread(e) \/ Adapter(e)
      PROVE  InReach' /\ NoEnd(toSession'[E])
  <2>1. e = E
    BY DEF OneAtATime
  <2>2. CASE ReceiverThread(e)
    BY <1>5, <2>2 DEF ReceiverThread, Receiver, CheckRunning, Receive, ReceiveCut,
       Disconnected, ChunkDone, ClearBreakpoints, StrayHeader, PushBreakpoint,
       EndBreakpoints, ParseCommand, UnknownMessage, wireVars, threadVars
  <2> QED
    BY <1>2, <1>3, <1>4, <1>6, <2>1, <2>2
<1>7. ~HostExit
  BY DEF HostExit
<1> QED
  BY <1>5, <1>6, <1>7 DEF Next, AdapterRequest, Initialize, Dap,
     SetBreakPointsRequest, ControlRequest, User, SetBreakpoints, Press, VSCode,
     ReadEvent, vars, wireVars, engineVars, threadVars

\* What the refinement mapping reads is the only order there is.
LEMMA OrderRead ==
  ASSUME TypeOK, OneAtATime, OneToken
  PROVE  /\ Orders = {} => OrderUnderWay = Nowhere
         /\ Orders # {} => OrderUnderWay \in Orders
<1>1. /\ toEngine[E] \in Seq(EngineMsgs) /\ rxQueue[E] \in Seq(EngineMsgs)
      /\ requests \in Seq(Requests)
  BY QueueTypes
<1>2. CASE Stored
  <2>1. OrderUnderWay = debugCommand[E]
    BY <1>2 DEF OrderUnderWay, Stored, OneToken, WhileStanding
  <2> QED
    BY <1>2, <2>1, StoredOrder
<1>3. CASE ~Stored /\ CommandsTo # {}
  <2> DEFINE i == CHOOSE i \in CommandsTo : TRUE
  <2>1. i \in CommandsTo
    BY <1>3
  <2>2. OrderUnderWay = InFlight(E)[i].command
    BY <1>3 DEF OrderUnderWay, Stored, OneToken, WhileStanding
  <2> HIDE DEF i
  <2>3. InFlight(E)[i] \in Those(toEngine[E], Commands) \cup Those(rxQueue[E], Commands)
    <3> DEFINE q == rxQueue[E]
               r == toEngine[E]
               both == q \o r
    <3>1. /\ Len(q) \in Nat /\ Len(r) \in Nat
          /\ DOMAIN both = 1..(Len(q) + Len(r))
          /\ \A j \in 1..(Len(q) + Len(r)) :
               both[j] = IF j <= Len(q) THEN q[j] ELSE r[j - Len(q)]
      <4>1. q \in Seq(EngineMsgs) /\ r \in Seq(EngineMsgs)
        BY <1>1
      <4> HIDE DEF q, r
      <4>2. /\ both \in Seq(EngineMsgs)
            /\ Len(both) = Len(q) + Len(r)
            /\ \A j \in 1..(Len(q) + Len(r)) :
                 both[j] = IF j <= Len(q) THEN q[j] ELSE r[j - Len(q)]
        BY <4>1, ConcatProperties
      <4> HIDE DEF both
      <4> QED
        BY <4>1, <4>2
    <3>2. i \in DOMAIN both /\ both[i].type = "COMMAND"
      BY <2>1 DEF CommandsTo, InFlight
    <3>3. /\ \A j \in 1..Len(q) : q[j] \in EngineMsgs
          /\ \A j \in 1..Len(r) : r[j] \in EngineMsgs
      BY <1>1
    <3> HIDE DEF q, r, both
    <3>4. \/ i \in 1..Len(q) /\ both[i] = q[i]
          \/ i - Len(q) \in 1..Len(r) /\ both[i] = r[i - Len(q)]
      BY <3>1, <3>2
    <3>5. both[i] \in Those(r, Commands) \cup Those(q, Commands)
      BY <3>2, <3>4, <3>3 DEF Those, Commands
    <3> QED
      BY <3>5 DEF InFlight, q, r, both
  <2> QED
    BY <2>2, <2>3 DEF Orders
<1>4. CASE ~Stored /\ CommandsTo = {}
  <2>1. ~InStream /\ ~InChunk
    <3>1. NoCommandUnderWay(E)
      BY <1>4 DEF NoCommandUnderWay, CommandsTo, Stored
    <3> QED
      BY <3>1, CommandsUnderWay DEF UnderWay
  <2>2. OrderUnderWay = IF ControlRequests # {}
                          THEN requests[CHOOSE i \in ControlRequests : TRUE].command
                          ELSE Nowhere
    BY <1>4 DEF OrderUnderWay, Stored, OneToken, WhileStanding
  <2>3. CASE ControlRequests # {}
    <3> DEFINE i == CHOOSE i \in ControlRequests : TRUE
    <3>1. i \in ControlRequests /\ OrderUnderWay = requests[i].command
      BY <2>2, <2>3
    <3> HIDE DEF i
    <3>2. requests[i] \in Those(requests, Controls)
      BY <1>1, <3>1 DEF ControlRequests, Those, Controls
    <3> QED
      BY <3>1, <3>2 DEF Orders
  <2>4. CASE ControlRequests = {}
    <3>1. ~Ordered
      BY <1>1, <2>4 DEF ControlRequests, Ordered, Has, Those, Controls
    <3>2. Orders = {}
      BY <1>4, <2>1, <3>1, NoOrders DEF UnderWay
    <3> QED
      BY <2>2, <2>4, <3>2
  <2> QED
    BY <2>3, <2>4
<1> QED
  BY <1>2, <1>3, <1>4

\* What the user sees of each state.
SeenAs(m, place, shown, order) ==
  /\ ModeSeen = m
  /\ PlaceSeen = place
  /\ ShownSeen = shown
  /\ OrderSeen = order

View ==
  /\ ~Standing => SeenAs("running", Nowhere, Nowhere, Nowhere)
  /\ Standing /\ Orders = {} /\ ~Shown =>
       SeenAs("stopping", target[E], Nowhere, Nowhere)
  /\ Standing /\ Orders = {} /\ Shown =>
       SeenAs("stopped", target[E], currentBreakpoint, Nowhere)
  /\ \A c \in Orders :
       Standing => SeenAs("resuming", target[E], currentBreakpoint, c)

LEMMA ViewRight ==
  ASSUME TypeOK, OneAtATime, OneToken
  PROVE  View
<1>1. CASE ~Standing
  BY <1>1 DEF View, SeenAs, ModeSeen, PlaceSeen, ShownSeen, OrderSeen
<1>2. CASE Standing /\ Orders = {}
  BY <1>2, OrderRead DEF View, SeenAs, ModeSeen, PlaceSeen, ShownSeen, OrderSeen,
     Shown
<1>3. ASSUME Standing, NEW c \in Orders
      PROVE  SeenAs("resuming", target[E], currentBreakpoint, c)
  <2>1. Orders = {c} /\ c \in DebugCommands
    BY <1>3, OneOrder
  <2>2. OrderUnderWay = c /\ c # Nowhere
    BY <2>1, OrderRead DEF DebugCommands, Nowhere
  <2> QED
    BY <1>3, <2>2 DEF SeenAs, ModeSeen, PlaceSeen, ShownSeen, OrderSeen
<1> QED
  BY <1>1, <1>2, <1>3 DEF View

\* An engine that is connected does not lose its connection at a stop.
LEMMA StopKeepsConnection ==
  ASSUME TypeOK, OneAtATime, Connected, MayExit = FALSE, Standing
  PROVE  InReach /\ ~HostExit /\ ~OnEnd(E)
<1>1. InReach /\ NoEnd(toSession[E])
  BY DEF Connected, Standing
<1>2. ASSUME OnEnd(E) PROVE FALSE
  <2>1. toSession[E] # <<>> /\ Head(toSession[E]).type = "EOF"
    BY <1>2, Handled DEF OnEnd
  <2> QED
    BY <1>1, <2>1, QueueTypes, NoEndInTail
<1> QED
  BY <1>1, <1>2 DEF HostExit

\* Every step of the system is a step the user sees, or one that is not seen.
LEMMA StepSeen ==
  ASSUME TypeOK, TypeOK', NoUpdateLost, OneAtATime, OneToken, OneToken',
         Connected, View, View', MayExit = FALSE, [Next]_vars, KeepsToken
  PROVE  [UserView!Next]_(UserView!vars)
<1>1. CASE ~Standing /\ ~Standing'
  <2>1. UNCHANGED <<ModeSeen, PlaceSeen, ShownSeen, OrderSeen>>
    BY <1>1 DEF View, SeenAs
  <2>2. previousCommand'[E] = previousCommand[E]
    BY <1>1, StopBegins
  <2> QED
    BY <2>1, <2>2 DEF UserView!vars
<1>2. CASE ~Standing /\ Standing'
  <2>1. SendStop(E) /\ UNCHANGED <<sessionVars, uiVars>>
        /\ previousCommand'[E] = previousCommand[E]
    BY <1>2, StopBegins
  <2>2. Orders = {} /\ ~Shown
    BY <1>2, NoOrders DEF OneToken, WhileStanding
  <2>3. Orders' = {} /\ ~Shown'
    BY <2>1, <2>2 DEF SendStop, Orders, Shown, sessionVars, uiVars
  <2>4. target'[E] \in Location
    BY <2>1, StopLocation
  <2>5. UserView!Stop
    BY <1>2, <2>1, <2>3, <2>4 DEF View, SeenAs, UserView!Stop
  <2> QED
    BY <2>5 DEF UserView!Next
<1>3. CASE Standing /\ Kept
  <2>1. Standing' /\ Orders' = Orders /\ (Shown' <=> Shown)
        /\ target'[E] = target[E] /\ previousCommand'[E] = previousCommand[E]
    BY <1>3 DEF Kept
  <2>2. CASE Orders = {} /\ ~Shown
    BY <1>3, <2>1, <2>2 DEF View, SeenAs, UserView!vars
  <2>3. CASE Orders = {} /\ Shown
    <3>1. currentBreakpoint' = currentBreakpoint
      BY <1>3, <2>3 DEF Kept, OneToken, AtOnePlace
    <3> QED
      BY <1>3, <2>1, <2>3, <3>1 DEF View, SeenAs, UserView!vars
  <2>4. ASSUME NEW c \in Orders PROVE UNCHANGED UserView!vars
    <3>1. Ordered \/ UnderWay
      BY <2>4, NoOrders
    <3>2. currentBreakpoint' = currentBreakpoint
      BY <1>3, <3>1 DEF Kept, OneToken, AtOnePlace
    <3>3. c \in Orders'
      BY <2>1
    <3> QED
      BY <1>3, <2>1, <2>4, <3>2, <3>3 DEF View, SeenAs, UserView!vars
  <2> QED
    BY <2>2, <2>3, <2>4
<1>4. CASE Standing /\ Displayed
  <2>1. Told /\ ~Shown /\ Orders = {} /\ currentBreakpoint = target[E]
    BY <1>4, NoOrders DEF Displayed, OneToken, AtOnePlace, SamePlace
  <2>2. UserView!Show
    BY <1>4, <2>1 DEF Displayed, View, SeenAs, UserView!Show
  <2> QED
    BY <2>2 DEF UserView!Next
<1>5. CASE Standing /\ Responded
  <2>1. Shown /\ Orders = {}
    BY <1>5, NoOrders DEF Responded, OneToken, AtOnePlace
  <2>2. PICK c \in DebugCommands : Orders' = {c}
    BY <1>5 DEF Responded
  <2>3. UserView!Command
    BY <1>5, <2>1, <2>2 DEF Responded, View, SeenAs, UserView!Command
  <2> QED
    BY <2>3 DEF UserView!Next
<1>6. CASE Standing /\ Resumed
  <2>1. Stored /\ cmd[E] = debugCommand[E] /\ Orders = {cmd[E]}
    BY <1>6, StoredOrder DEF Resumed, OneToken, WhileStanding
  <2>2. UserView!Resume
    BY <1>6, <2>1 DEF Resumed, View, SeenAs, UserView!Resume
  <2> QED
    BY <2>2 DEF UserView!Next
<1>7. ASSUME Standing PROVE Kept \/ Displayed \/ Responded \/ Resumed
  BY <1>7, StopKeepsConnection, StandingPasses
<1> QED
  BY <1>1, <1>2, <1>3, <1>4, <1>5, <1>6, <1>7

LEMMA FirstView ==
  ASSUME Init, OneAtATime
  PROVE  UserView!Init /\ Connected
<1>1. pc[E] = "start" /\ previousCommand[E] = "Nothing"
  BY DEF Init, ThreadInit, OneAtATime
<1> QED
  BY <1>1 DEF UserView!Init, Connected, ModeSeen, PlaceSeen, ShownSeen, OrderSeen,
     Standing, Nowhere

\* With one engine, one request at a time, an extension host that stays and no
\* recv that takes a command or a location away, the system is a StopAndGo: every
\* stop is shown where it is, gets exactly one command, and is left with it.
THEOREM SafelyImplementsUserView ==
  ASSUME OneAtATime, MayExit = FALSE
  PROVE  Spec /\ [][KeepsToken]_vars
           => UserView!Init /\ [][UserView!Next]_(UserView!vars)
<1>1. Init => UserView!Init /\ Connected
  BY FirstView
<1>2. TypeOK /\ OneToken => View
  BY ViewRight
<1>4. TypeOK /\ OneToken /\ Connected /\ [Next]_vars => Connected'
  BY StaysConnected
<1>5. TypeOK /\ TypeOK' /\ NoUpdateLost /\ OneToken /\ OneToken' /\ Connected
      /\ View /\ View' /\ [Next]_vars /\ [KeepsToken]_vars
      => [UserView!Next]_(UserView!vars)
  BY StutterKeepsToken, StepSeen
<1> QED
  BY <1>1, <1>2, <1>4, <1>5, TokenKept, TypeCorrect, UpdatesSurvive, PTL DEF Spec
=============================================================================
