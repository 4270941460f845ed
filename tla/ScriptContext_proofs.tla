------------------------ MODULE ScriptContext_proofs -------------------------
(***************************************************************************)
(* For every depth of calls and of nested executions, with and without a   *)
(* second thread, as long as the application is careful: instructions run  *)
(* only in an active context, a running script sees the line callback and  *)
(* every request to suspend that is still recorded, and no nested          *)
(* execution touches the functions below the marker of the pushed state.   *)
(***************************************************************************)
EXTENDS ScriptContext, FiniteSetTheorems, SequenceTheorems, WellFoundedInduction, TLAPS

-----------------------------------------------------------------------------
\* The C++ stack

Callees == {"system", "line", "lastLine"}
Flags == {"flagOn", "flagOff"}
Steps == {"begin", "next", "direct", "returned", "left", "end"}
Frame == [at : Callees \cup Flags \cup Steps, pushed : BOOLEAN]

\* What may stand upon a frame f: Execute upon what has pushed the state, and what
\* a script calls upon Execute.
Upon(f, g) ==
  /\ g.at \in Flags => f.at \in Callees
  /\ g.at \in Steps => f.at \in Callees /\ f.pushed
  /\ g.at \in Callees => f.at \in Steps

Stack(s) ==
  /\ s \in Seq(Frame)
  /\ s # <<>> => s[1].at \notin Callees
  /\ \A i \in 1..(Len(s) - 1) : Upon(s[i], s[i + 1])

SameKind(f, g) ==
  \/ f.at \in Callees /\ g.at \in Callees
  \/ f.at \in Steps /\ g.at \in Steps

\* A frame put upon a stack.
LEMMA Entered ==
  ASSUME NEW s, Stack(s), NEW f \in Frame,
         s = <<>> => f.at \notin Callees,
         s # <<>> => Upon(s[Len(s)], f)
  PROVE  /\ Stack(Append(s, f))
         /\ Append(s, f) # <<>>
         /\ Len(Append(s, f)) = Len(s) + 1
         /\ Append(s, f)[Len(s) + 1] = f
         /\ s # <<>> => Append(s, f)[Len(s)] = s[Len(s)]
<1> DEFINE t == Append(s, f)
<1>1. s \in Seq(Frame) /\ Len(s) \in Nat
  BY DEF Stack
<1>2. /\ t \in Seq(Frame)
      /\ Len(t) = Len(s) + 1
      /\ t[Len(s) + 1] = f
      /\ \A i \in 1..Len(s) : t[i] = s[i]
      /\ t # <<>>
  BY <1>1, AppendProperties
<1>3. s = <<>> => Len(s) = 0
  BY <1>1
<1>4. s # <<>> => Len(s) >= 1
  BY <1>1
<1> HIDE DEF t
<1>5. t[1].at \notin Callees
  BY <1>1, <1>2, <1>3, <1>4 DEF Stack
<1>6. ASSUME NEW i \in 1..(Len(t) - 1) PROVE Upon(t[i], t[i + 1])
  <2>1. CASE i = Len(s)
    BY <1>1, <1>2, <1>3, <2>1
  <2>2. CASE i # Len(s)
    <3>1. i \in 1..(Len(s) - 1) /\ i \in 1..Len(s) /\ i + 1 \in 1..Len(s)
      BY <1>1, <1>2, <2>2
    <3> QED
      BY <1>2, <3>1 DEF Stack
  <2> QED
    BY <2>1, <2>2
<1>7. Stack(t)
  BY <1>2, <1>5, <1>6 DEF Stack
<1>8. s # <<>> => t[Len(s)] = s[Len(s)]
  BY <1>1, <1>2, <1>4
<1> QED
  BY <1>2, <1>7, <1>8 DEF t

\* A stack without its topmost frame.
LEMMA Removed ==
  ASSUME NEW s, Stack(s), s # <<>>
  PROVE  /\ Stack(Front(s))
         /\ Len(Front(s)) = Len(s) - 1
         /\ Front(s) = <<>> <=> Len(s) = 1
         /\ \A i \in 1..(Len(s) - 1) : Front(s)[i] = s[i]
<1> DEFINE t == Front(s)
<1>1. s \in Seq(Frame) /\ Len(s) \in Nat /\ Len(s) >= 1
  BY DEF Stack
<1>2. /\ t \in Seq(Frame)
      /\ Len(t) = Len(s) - 1
      /\ \A i \in 1..(Len(s) - 1) : t[i] = s[i]
  <2>1. /\ 1 \in 1..(Len(s) + 1) /\ Len(s) - 1 \in 0..Len(s)
        /\ Len(s) - 1 - 1 + 1 = Len(s) - 1
    BY <1>1
  <2>2. t = SubSeq(s, 1, Len(s) - 1)
    BY DEF Front
  <2> QED
    BY <1>1, <2>1, <2>2, SubSeqProperties
<1> HIDE DEF t
<1>3. t = <<>> <=> Len(s) = 1
  BY <1>1, <1>2
<1>4. t # <<>> => t[1].at \notin Callees
  BY <1>1, <1>2, <1>3 DEF Stack
<1>5. ASSUME NEW i \in 1..(Len(t) - 1) PROVE Upon(t[i], t[i + 1])
  BY <1>1, <1>2, <1>5 DEF Stack
<1> QED
  BY <1>2, <1>3, <1>4, <1>5 DEF Stack, t

\* The topmost frame replaced by one of its kind.
LEMMA Replaced ==
  ASSUME NEW s, Stack(s), s # <<>>, NEW f \in Frame, SameKind(s[Len(s)], f)
  PROVE  /\ Stack(Append(Front(s), f))
         /\ Append(Front(s), f) # <<>>
         /\ Len(Append(Front(s), f)) = Len(s)
         /\ Append(Front(s), f)[Len(s)] = f
         /\ Len(s) > 1 => Append(Front(s), f)[Len(s) - 1] = s[Len(s) - 1]
<1>1. s \in Seq(Frame) /\ Len(s) \in Nat /\ Len(s) >= 1 /\ s[Len(s)] \in Frame
  BY DEF Stack
<1>2. /\ Stack(Front(s))
      /\ Len(Front(s)) = Len(s) - 1
      /\ Front(s) = <<>> <=> Len(s) = 1
      /\ \A i \in 1..(Len(s) - 1) : Front(s)[i] = s[i]
  BY Removed
<1>3. Callees \cap Steps = {} /\ Callees \cap Flags = {} /\ Steps \cap Flags = {}
  BY DEF Callees, Steps, Flags
<1>4. Front(s) = <<>> => f.at \notin Callees
  BY <1>1, <1>2, <1>3 DEF Stack, SameKind
<1>5. ASSUME Front(s) # <<>> PROVE Upon(Front(s)[Len(Front(s))], f)
  <2>1. Len(s) - 1 \in 1..(Len(s) - 1) /\ (Len(s) - 1) + 1 = Len(s)
    BY <1>1, <1>2, <1>5
  <2>2. Upon(s[Len(s) - 1], s[Len(s)])
    BY <2>1 DEF Stack
  <2>3. Upon(s[Len(s) - 1], f)
    BY <1>3, <2>2 DEF Upon, SameKind
  <2> QED
    BY <1>2, <2>1, <2>3
<1>6. Len(s) > 1 => Front(s)[Len(s) - 1] = s[Len(s) - 1]
  BY <1>1, <1>2
<1>7. (Len(s) - 1) + 1 = Len(s)
  BY <1>1
<1> QED
  BY <1>1, <1>2, <1>4, <1>5, <1>6, <1>7, Entered

-----------------------------------------------------------------------------
\* The inductive invariant

Top(s) == s[Len(s)]

\* The topmost frame, and the one below it.
LEMMA TopFrames ==
  ASSUME NEW s, Stack(s), s # <<>>
  PROVE  /\ Len(s) \in Nat \ {0}
         /\ Top(s) \in Frame
         /\ Len(s) = 1 => Top(s).at \notin Callees
         /\ Len(s) > 1 => Upon(s[Len(s) - 1], Top(s)) /\ s[Len(s) - 1] \in Frame
<1>1. s \in Seq(Frame) /\ Len(s) \in Nat \ {0}
  BY DEF Stack
<1>2. Len(s) = 1 => Top(s).at \notin Callees
  BY <1>1 DEF Stack, Top
<1>3. ASSUME Len(s) > 1
      PROVE  Upon(s[Len(s) - 1], Top(s)) /\ s[Len(s) - 1] \in Frame
  <2>1. Len(s) - 1 \in 1..(Len(s) - 1) /\ (Len(s) - 1) + 1 = Len(s)
    BY <1>1, <1>3
  <2>2. Upon(s[Len(s) - 1], s[Len(s)])
    BY <2>1 DEF Stack
  <2> QED
    BY <1>1, <2>1, <2>2 DEF Top
<1> QED
  BY <1>1, <1>2, <1>3 DEF Top

\* Where a script goes on, now or when what it has called returns, the context is
\* active, or the exception raised will be noticed.
ActiveAt(f, st, process) ==
  /\ f.at \in {"begin", "next"} => st = "active"
  /\ f.at = "line" /\ ~f.pushed => st = "active"
  /\ f.at = "system" /\ ~f.pushed => st = "active" \/ (st = "exception" /\ process)

\* The same below a frame that is about to write the flag, whatever it writes.
ActiveBelow(f, st) == f.at \in {"line", "system"} /\ ~f.pushed => st = "active"

\* The flag is set if there is something to look for, but between the last line
\* callback and the end of Execute, and while it is written.
SeenAt(f, suspend, process, callback) ==
  /\ f.at = "flagOff" => ~suspend /\ ~callback
  /\ f.at \notin Flags /\ callback => process
  /\ f.at \notin Flags \cup {"end"} /\ suspend => process

Active(s, st, process) ==
  s # <<>> =>
    /\ ActiveAt(Top(s), st, process)
    /\ Top(s).at \in Flags /\ Len(s) > 1 => ActiveBelow(s[Len(s) - 1], st)

Seen(s, suspend, process, callback) ==
  IF s # <<>> THEN SeenAt(Top(s), suspend, process, callback)
              ELSE callback \/ suspend => process

Holds(s, st, suspend, process, callback) ==
  /\ Stack(s)
  /\ Active(s, st, process)
  /\ Seen(s, suspend, process, callback)

IInv == Holds(native, status, doSuspend, doProcessSuspend, lineCallback)

LEMMA Initially == Init => IInv
<1> SUFFICES ASSUME Init PROVE IInv
  OBVIOUS
<1>1. Stack(<<>>)
  BY DEF Stack
<1> QED
  BY <1>1 DEF Init, IInv, Holds, Active, Seen

LEMMA Implied == IInv => RunsOnlyActive /\ RequestsSeen
<1> SUFFICES ASSUME IInv, At("next")
             PROVE  status = "active" /\ (lineCallback \/ doSuspend => doProcessSuspend)
  BY DEF RunsOnlyActive, RequestsSeen
<1>1. native # <<>> /\ Top(native).at = "next"
  BY DEF At, Last, Top
<1> QED
  BY <1>1 DEF IInv, Holds, Active, ActiveAt, Seen, SeenAt, Flags

-----------------------------------------------------------------------------
\* What is to be shown of a step, for each thing it may do to the C++ stack

LEMMA Kinds ==
  /\ Callees \cap Steps = {}
  /\ Callees \cap Flags = {}
  /\ Steps \cap Flags = {}
BY DEF Callees, Steps, Flags

\* It calls.
LEMMA Entering ==
  ASSUME NEW s, Stack(s), NEW f \in Frame,
         s = <<>> => f.at \notin Callees,
         s # <<>> => Upon(Top(s), f),
         NEW st, NEW suspend, NEW process, NEW callback,
         ActiveAt(f, st, process),
         f.at \in Flags /\ s # <<>> => ActiveBelow(Top(s), st),
         SeenAt(f, suspend, process, callback)
  PROVE  Holds(Append(s, f), st, suspend, process, callback)
<1> DEFINE t == Append(s, f)
<1>1. /\ Stack(t)
      /\ t # <<>>
      /\ Len(t) = Len(s) + 1
      /\ t[Len(s) + 1] = f
      /\ s # <<>> => t[Len(s)] = s[Len(s)]
  BY Entered DEF Top
<1>2. s \in Seq(Frame) /\ Len(s) \in Nat
  BY DEF Stack
<1> HIDE DEF t
<1>3. Top(t) = f
  BY <1>1 DEF Top
<1>4. Len(t) > 1 => s # <<>> /\ t[Len(t) - 1] = Top(s)
  BY <1>1, <1>2 DEF Top
<1>5. Active(t, st, process)
  BY <1>3, <1>4 DEF Active
<1>6. Seen(t, suspend, process, callback)
  BY <1>1, <1>3 DEF Seen
<1> QED
  BY <1>1, <1>5, <1>6 DEF Holds, t

\* It goes on in the same frame.
LEMMA Replacing ==
  ASSUME NEW s, Stack(s), s # <<>>, NEW f \in Frame, SameKind(Top(s), f),
         NEW st, NEW suspend, NEW process, NEW callback,
         ActiveAt(f, st, process),
         SeenAt(f, suspend, process, callback)
  PROVE  Holds(Append(Front(s), f), st, suspend, process, callback)
<1> DEFINE t == Append(Front(s), f)
<1>1. /\ Stack(t)
      /\ t # <<>>
      /\ Len(t) = Len(s)
      /\ t[Len(s)] = f
  BY Replaced DEF Top
<1> HIDE DEF t
<1>2. Top(t) = f /\ f.at \notin Flags
  BY <1>1, Kinds DEF Top, SameKind
<1>3. Active(t, st, process)
  BY <1>2 DEF Active
<1>4. Seen(t, suspend, process, callback)
  BY <1>1, <1>2 DEF Seen
<1> QED
  BY <1>1, <1>3, <1>4 DEF Holds, t

\* It goes on in the same frame and calls.
LEMMA Calling ==
  ASSUME NEW s, Stack(s), s # <<>>, NEW f \in Frame, SameKind(Top(s), f),
         NEW g \in Frame, g.at \in Callees, f.at \in Steps,
         NEW st, NEW suspend, NEW process, NEW callback,
         ActiveAt(g, st, process),
         SeenAt(g, suspend, process, callback)
  PROVE  Holds(Append(Append(Front(s), f), g), st, suspend, process, callback)
<1> DEFINE t == Append(Front(s), f)
<1>1. /\ Stack(t)
      /\ t # <<>>
      /\ Len(t) = Len(s)
      /\ t[Len(s)] = f
  BY Replaced DEF Top
<1> HIDE DEF t
<1>2. Top(t) = f /\ g.at \notin Flags /\ g.at \notin Steps
  BY <1>1, Kinds DEF Top
<1>3. Upon(f, g)
  BY <1>2 DEF Upon
<1>4. Holds(Append(t, g), st, suspend, process, callback)
  BY <1>1, <1>2, <1>3, Entering
<1> QED
  BY <1>4 DEF t

\* It returns to the caller, which knows nothing yet.
LEMMA Removing ==
  ASSUME NEW s, Stack(s), s # <<>>, Top(s).at \notin Callees,
         NEW st, NEW suspend, NEW process, NEW callback,
         Len(s) > 1 => /\ ActiveAt(s[Len(s) - 1], st, process)
                       /\ SeenAt(s[Len(s) - 1], suspend, process, callback),
         Len(s) = 1 => (callback \/ suspend => process)
  PROVE  Holds(Front(s), st, suspend, process, callback)
<1> DEFINE t == Front(s)
<1>1. /\ Stack(t)
      /\ Len(t) = Len(s) - 1
      /\ t = <<>> <=> Len(s) = 1
      /\ \A i \in 1..(Len(s) - 1) : t[i] = s[i]
  BY Removed
<1> HIDE DEF t
<1>2. /\ Len(s) \in Nat \ {0}
      /\ Top(s) \in Frame
      /\ Len(s) > 1 => Upon(s[Len(s) - 1], Top(s))
  BY TopFrames
<1>3. CASE t = <<>>
  BY <1>1, <1>3 DEF Holds, Active, Seen, t
<1>4. CASE t # <<>>
  <2>1. Len(s) > 1 /\ Top(t) = s[Len(s) - 1]
    BY <1>1, <1>2, <1>4 DEF Top
  <2>2. Top(t).at \notin Flags
    BY <1>2, <2>1, Kinds DEF Upon, Frame
  <2>3. Active(t, st, process) /\ Seen(t, suspend, process, callback)
    BY <1>4, <2>1, <2>2 DEF Active, Seen
  <2> QED
    BY <1>1, <2>3 DEF Holds, t
<1> QED
  BY <1>3, <1>4

\* The two topmost frames.
LEMMA FrontTwice ==
  ASSUME NEW S, NEW s \in Seq(S), Len(s) >= 2
  PROVE  SubSeq(s, 1, Len(s) - 2) = Front(Front(s))
<1> DEFINE n == Len(s)
           a == SubSeq(s, 1, n - 1)
<1>1. n \in Nat /\ n - 1 \in Nat /\ n - 2 \in Nat
      /\ \A i \in 1..(n - 1) : s[i] \in S
  <2>1. n \in Nat
    OBVIOUS
  <2> QED
    BY <2>1
<1> HIDE DEF n
<1>2. /\ a \in Seq(S)
      /\ Len(a) = n - 1
      /\ \A i \in 1..(n - 1) : a[i] = s[i]
  <2>1. /\ a \in Seq(S)
        /\ Len(a) = IF 1 <= n - 1 THEN n - 1 - 1 + 1 ELSE 0
        /\ \A i \in 1..(n - 1 - 1 + 1) : a[i] = s[1 + i - 1]
    BY <1>1, SubSeqProperties
  <2> HIDE DEF a
  <2> QED
    BY <1>1, <2>1
<1> HIDE DEF a
<1> DEFINE b == SubSeq(a, 1, n - 2)
           c == SubSeq(s, 1, n - 2)
<1>3. /\ b \in Seq(S)
      /\ Len(b) = IF 1 <= n - 2 THEN n - 2 - 1 + 1 ELSE 0
      /\ \A i \in 1..(n - 2 - 1 + 1) : b[i] = a[1 + i - 1]
  <2>1. \A i \in 1..(n - 2) : a[i] \in S
    BY <1>1, <1>2
  <2> QED
    BY <1>1, <2>1, SubSeqProperties
<1>4. /\ c \in Seq(S)
      /\ Len(c) = IF 1 <= n - 2 THEN n - 2 - 1 + 1 ELSE 0
      /\ \A i \in 1..(n - 2 - 1 + 1) : c[i] = s[1 + i - 1]
  <2>1. \A i \in 1..(n - 2) : s[i] \in S
    BY <1>1
  <2> QED
    BY <1>1, <2>1, SubSeqProperties
<1> HIDE DEF b, c
<1>5. Len(b) = Len(c) /\ \A i \in 1..Len(b) : b[i] = c[i]
  BY <1>1, <1>2, <1>3, <1>4
<1>6. b = c
  BY <1>3, <1>4, <1>5, SeqEqual
<1>7. Front(Front(s)) = SubSeq(a, 1, Len(a) - 1) /\ Len(a) - 1 = n - 2
  BY <1>1, <1>2 DEF Front, a, n
<1> QED
  BY <1>6, <1>7 DEF b, c, n

\* What it has called returns.
LEMMA Returning ==
  ASSUME NEW s, Stack(s), s # <<>>, Top(s).at \in Callees,
         NEW f \in Frame, f.at \in Steps,
         NEW st, NEW suspend, NEW process, NEW callback,
         ActiveAt(f, st, process),
         SeenAt(f, suspend, process, callback)
  PROVE  Holds(Append(SubSeq(s, 1, Len(s) - 2), f), st, suspend, process, callback)
<1> DEFINE t == Front(s)
<1>1. /\ Stack(t)
      /\ Len(t) = Len(s) - 1
      /\ t = <<>> <=> Len(s) = 1
      /\ \A i \in 1..(Len(s) - 1) : t[i] = s[i]
  BY Removed
<1>2. /\ Len(s) \in Nat \ {0}
      /\ Top(s) \in Frame
      /\ Len(s) = 1 => Top(s).at \notin Callees
      /\ Len(s) > 1 => Upon(s[Len(s) - 1], Top(s))
  BY TopFrames
<1>3. t # <<>> /\ Len(s) > 1 /\ Top(t) = s[Len(s) - 1] /\ Top(t).at \in Steps
  <2>1. t # <<>> /\ Len(s) > 1
    BY <1>1, <1>2
  <2> HIDE DEF t
  <2> QED
    BY <1>1, <1>2, <2>1 DEF Top, Upon
<1>4. Front(t) = SubSeq(s, 1, Len(s) - 2)
  <2>1. s \in Seq(Frame) /\ Len(s) >= 2
    BY <1>2, <1>3 DEF Stack
  <2> QED
    BY <2>1, FrontTwice
<1>5. Holds(Append(Front(t), f), st, suspend, process, callback)
  <2>1. SameKind(Top(t), f)
    BY <1>3 DEF SameKind
  <2> HIDE DEF t
  <2> QED
    BY <1>1, <1>3, <2>1, Replacing
<1> QED
  BY <1>4, <1>5

\* It leaves the C++ stack alone.
LEMMA Staying ==
  ASSUME NEW s, Stack(s), NEW st, NEW suspend, NEW process, NEW callback,
         s # <<>> => /\ Top(s).at \notin Flags
                     /\ ActiveAt(Top(s), st, process)
                     /\ SeenAt(Top(s), suspend, process, callback),
         s = <<>> => (callback \/ suspend => process)
  PROVE  Holds(s, st, suspend, process, callback)
BY DEF Holds, Active, Seen

-----------------------------------------------------------------------------
\* The steps

\* What is known at a place.
LEMMA Now ==
  ASSUME IInv, native # <<>>
  PROVE  /\ Stack(native)
         /\ Last(native) = Top(native)
         /\ Top(native) \in Frame
         /\ Len(native) \in Nat \ {0}
         /\ Len(native) = 1 => Top(native).at \notin Callees
         /\ Len(native) > 1 => /\ Upon(native[Len(native) - 1], Top(native))
                               /\ native[Len(native) - 1] \in Frame
         /\ ActiveAt(Top(native), status, doProcessSuspend)
         /\ SeenAt(Top(native), doSuspend, doProcessSuspend, lineCallback)
         /\ Top(native).at \in Flags /\ Len(native) > 1 =>
              ActiveBelow(native[Len(native) - 1], status)
<1>1. Stack(native)
  BY DEF IInv, Holds
<1>2. Last(native) = Top(native)
  BY DEF Last, Top
<1> QED
  BY <1>1, <1>2, TopFrames DEF IInv, Holds, Active, Seen

\* The application runs: nothing does, or what a script calls.
LEMMA ApplicationRuns ==
  ASSUME IInv, Application
  PROVE  /\ Stack(native)
         /\ native # <<>> => Top(native).at \in Callees /\ Top(native).at \notin Flags
         /\ native = <<>> => (lineCallback \/ doSuspend => doProcessSuspend)
         /\ native # <<>> /\ Owns => Top(native).pushed
         /\ native # <<>> =>
              /\ lineCallback => doProcessSuspend
              /\ doSuspend => doProcessSuspend
<1>1. Stack(native)
  BY DEF IInv, Holds
<1>2. native = <<>> => (lineCallback \/ doSuspend => doProcessSuspend)
  BY DEF IInv, Holds, Seen
<1>3. ASSUME native # <<>>
      PROVE  /\ Top(native).at \in Callees /\ Top(native).at \notin Flags
             /\ Owns => Top(native).pushed
             /\ lineCallback => doProcessSuspend
             /\ doSuspend => doProcessSuspend
  <2>1. Top(native).at \in Callees
    BY <1>3, Now DEF Application, Callees
  <2>2. Top(native).at \notin Flags \cup {"end"}
    BY <2>1 DEF Callees, Flags
  <2> QED
    BY <1>3, <2>1, <2>2, Now DEF SeenAt, Owns
<1> QED
  BY <1>1, <1>2, <1>3

\* What is about to write the flag is put upon the application.
Writer(flag) == [at |-> IF flag THEN "flagOn" ELSE "flagOff", pushed |-> FALSE]

LEMMA WriterFrame ==
  ASSUME NEW flag
  PROVE  /\ AboutToWrite(flag) = Append(native, Writer(flag))
         /\ Writer(flag) \in Frame /\ Writer(flag).at \in Flags /\ ~Writer(flag).pushed
         /\ Writer(flag).at = "flagOff" => ~flag
  BY DEF AboutToWrite, Enter, Writer, Frame, Flags

LEMMA KeepsWriter ==
  ASSUME IInv, Application, NEW flag, native' = AboutToWrite(flag),
         ~flag => ~doSuspend' /\ ~lineCallback',
         native # <<>> => ActiveBelow(Top(native), status')
  PROVE  IInv'
<1> DEFINE f == Writer(flag)
<1>1. /\ native' = Append(native, f)
      /\ f \in Frame /\ f.at \in Flags /\ ~f.pushed
      /\ f.at = "flagOff" => ~doSuspend' /\ ~lineCallback'
  BY WriterFrame
<1> HIDE DEF f
<1>2. ActiveAt(f, status', doProcessSuspend')
  BY <1>1 DEF ActiveAt, Flags
<1>3. SeenAt(f, doSuspend', doProcessSuspend', lineCallback')
  BY <1>1 DEF SeenAt
<1>4. native = <<>> => f.at \notin Callees
  BY <1>1, Kinds
<1>5. native # <<>> => Upon(Top(native), f)
  BY <1>1, ApplicationRuns, Kinds DEF Upon
<1>6. Stack(native)
  BY DEF IInv, Holds
<1>7. Holds(Append(native, f), status', doSuspend', doProcessSuspend', lineCallback')
  BY <1>1, <1>2, <1>3, <1>4, <1>5, <1>6, Entering
<1> QED
  BY <1>1, <1>7 DEF IInv

\* The callers of Execute prepare and unprepare.
LEMMA KeepsPrepare ==
  ASSUME IInv, Prepare \/ Unprepare
  PROVE  IInv'
<1>1. Application /\ Owns
  BY DEF Prepare, Unprepare
<1>2. CASE UNCHANGED <<native, doSuspend, doProcessSuspend, lineCallback>>
  <2>1. (lineCallback => doProcessSuspend) /\ (doSuspend => doProcessSuspend)
    BY <1>1, ApplicationRuns
  <2>2. ASSUME native # <<>>
        PROVE  /\ Top(native).at \notin Flags
               /\ ActiveAt(Top(native), status', doProcessSuspend')
               /\ SeenAt(Top(native), doSuspend', doProcessSuspend', lineCallback')
    BY <1>1, <1>2, <2>1, <2>2, ApplicationRuns DEF ActiveAt, SeenAt, Callees, Flags
  <2>3. Holds(native, status', doSuspend', doProcessSuspend', lineCallback')
    BY <1>1, <1>2, <2>1, <2>2, ApplicationRuns, Staying
  <2> QED
    BY <1>2, <2>3 DEF IInv
<1>3. CASE /\ native' = AboutToWrite(lineCallback)
           /\ doSuspend' = FALSE /\ lineCallback' = lineCallback
  <2>1. native # <<>> => ActiveBelow(Top(native), status')
    BY <1>1, ApplicationRuns DEF ActiveBelow
  <2>2. ~lineCallback => ~doSuspend' /\ ~lineCallback'
    BY <1>3, Zenon
  <2> QED
    BY <1>1, <1>3, <2>1, <2>2, KeepsWriter
<1> QED
  BY <1>2, <1>3, Zenon DEF Prepare, Unprepare

\* A request comes from the application or from another thread.
LEMMA KeepsRequest ==
  ASSUME IInv, Careful, Suspend \/ Abort
  PROVE  IInv'
<1>1. /\ doSuspend' = TRUE /\ doProcessSuspend' = TRUE
      /\ native' = native /\ lineCallback' = lineCallback
      /\ status' = status \/ status = "suspended"
      /\ Application \/ ~SettingFlag
  BY DEF Suspend, Abort
<1>2. ASSUME native # <<>>
      PROVE  /\ Top(native).at \notin Flags
             /\ ActiveAt(Top(native), status', doProcessSuspend')
             /\ SeenAt(Top(native), doSuspend', doProcessSuspend', lineCallback')
  <2>1. Top(native).at \notin Flags
    BY <1>1, <1>2, Now, ApplicationRuns DEF SettingFlag, At, Flags
  <2> QED
    BY <1>1, <1>2, <2>1, Now DEF ActiveAt, SeenAt, Flags
<1>3. Stack(native)
  BY DEF IInv, Holds
<1>4. Holds(native, status', doSuspend', doProcessSuspend', lineCallback')
  BY <1>1, <1>2, <1>3, Staying
<1> QED
  BY <1>1, <1>4 DEF IInv

LEMMA KeepsException ==
  ASSUME IInv, NEW b \in BOOLEAN, SetException(b)
  PROVE  IInv'
<1>1. /\ Application /\ native # <<>>
      /\ Top(native).at = "system" /\ ~Top(native).pushed
      /\ status' = "exception" /\ doProcessSuspend' = TRUE
      /\ UNCHANGED <<native, doSuspend, lineCallback>>
  BY Now DEF SetException, CallingSystemFunction, At, RaisesException
<1>2. /\ ActiveAt(Top(native), status', doProcessSuspend')
      /\ SeenAt(Top(native), doSuspend', doProcessSuspend', lineCallback')
      /\ Top(native).at \notin Flags
  BY <1>1 DEF ActiveAt, SeenAt, Flags
<1>3. Stack(native)
  BY DEF IInv, Holds
<1>4. Holds(native, status', doSuspend', doProcessSuspend', lineCallback')
  BY <1>1, <1>2, <1>3, Staying
<1> QED
  BY <1>1, <1>4 DEF IInv

\* Nobody runs upon a frame that has pushed the state but the callers of Execute, and
\* what pops it goes on in an active context.
LEMMA KeepsPush ==
  ASSUME IInv, PushState \/ PopState
  PROVE  IInv'
<1>1. /\ native # <<>> /\ Top(native).at \in Callees
      /\ UNCHANGED <<doSuspend, doProcessSuspend, lineCallback>>
  <2>1. CASE PushState
    BY <2>1, Now DEF PushState, At, Callees
  <2>2. CASE PopState
    BY <2>2, ApplicationRuns DEF PopState
  <2> QED
    BY <2>1, <2>2
<1>2. PICK f \in Frame : /\ f.at = Top(native).at
                         /\ native' = Append(Front(native), f)
                         /\ f.pushed \/ status' = "active"
  <2>1. CASE PushState
    <3> DEFINE f == [Top(native) EXCEPT !.pushed = TRUE]
    <3>1. f \in Frame /\ f.at = Top(native).at /\ f.pushed
      BY <1>1, Now DEF Frame
    <3>2. native' = Append(Front(native), f)
      BY <1>1, <2>1, Now DEF PushState
    <3> QED
      BY <3>1, <3>2
  <2>2. CASE PopState
    <3> DEFINE f == [Top(native) EXCEPT !.pushed = FALSE]
    <3>1. f \in Frame /\ f.at = Top(native).at
      BY <1>1, Now DEF Frame
    <3>2. native' = Append(Front(native), f) /\ status' = "active"
      BY <1>1, <2>2, Now DEF PopState
    <3> QED
      BY <3>1, <3>2
  <2> QED
    BY <2>1, <2>2
<1>3. ActiveAt(f, status', doProcessSuspend')
  BY <1>1, <1>2 DEF ActiveAt, Callees
<1>4. SeenAt(f, doSuspend', doProcessSuspend', lineCallback')
  BY <1>1, <1>2, Now DEF SeenAt
<1>5. SameKind(Top(native), f)
  BY <1>1, <1>2 DEF SameKind
<1>6. Holds(Append(Front(native), f), status', doSuspend', doProcessSuspend', lineCallback')
  BY <1>1, <1>3, <1>4, <1>5, Now, Replacing
<1> QED
  BY <1>2, <1>6 DEF IInv

\* The line callback is set in two steps.
LEMMA KeepsSetLineCallback ==
  ASSUME IInv, Careful, NEW set \in BOOLEAN, SetLineCallback(set)
  PROVE  IInv'
<1>1. /\ Application
      /\ status # "exception" \/ Owns
      /\ native' = AboutToWrite(doSuspend \/ set)
      /\ lineCallback' = set
      /\ UNCHANGED <<status, doSuspend>>
  BY DEF SetLineCallback
<1>2. ~(doSuspend \/ set) => ~doSuspend' /\ ~lineCallback'
  BY <1>1, Zenon
<1>3. ASSUME native # <<>> PROVE ActiveBelow(Top(native), status')
  <2>1. Owns => Top(native).pushed
    BY <1>1, <1>3, ApplicationRuns
  <2> QED
    BY <1>1, <1>3, <2>1, Now DEF ActiveBelow, ActiveAt
<1> QED
  BY <1>1, <1>2, <1>3, KeepsWriter

LEMMA KeepsWriteFlag ==
  ASSUME IInv, WriteFlag
  PROVE  IInv'
<1>1. /\ native # <<>> /\ Top(native).at \in Flags
      /\ native' = Front(native)
      /\ UNCHANGED <<status, doSuspend, lineCallback>>
  BY Now DEF WriteFlag, SettingFlag, At, Flags
<1>2. lineCallback' \/ doSuspend' => doProcessSuspend'
  <2>1. CASE Top(native).at = "flagOn"
    BY <1>1, <2>1, Now DEF WriteFlag, At
  <2>2. CASE Top(native).at = "flagOff"
    BY <1>1, <2>2, Now DEF SeenAt
  <2> QED
    BY <1>1, <2>1, <2>2 DEF Flags
<1>3. ASSUME Len(native) > 1
      PROVE  LET f == native[Len(native) - 1]
             IN  /\ ActiveAt(f, status', doProcessSuspend')
                 /\ SeenAt(f, doSuspend', doProcessSuspend', lineCallback')
  <2> DEFINE f == native[Len(native) - 1]
  <2>1. f.at \in Callees /\ ActiveBelow(f, status)
    BY <1>1, <1>3, Now DEF Upon
  <2> HIDE DEF f
  <2>2. ActiveAt(f, status', doProcessSuspend')
    BY <1>1, <2>1 DEF ActiveAt, ActiveBelow, Callees
  <2>3. SeenAt(f, doSuspend', doProcessSuspend', lineCallback')
    BY <1>2, <2>1 DEF SeenAt, Callees
  <2> QED
    BY <2>2, <2>3 DEF f
<1>4. Top(native).at \notin Callees
  BY <1>1, Kinds
<1>5. Holds(Front(native), status', doSuspend', doProcessSuspend', lineCallback')
  BY <1>1, <1>2, <1>3, <1>4, Now, Removing
<1> QED
  BY <1>1, <1>5 DEF IInv

LEMMA KeepsExecute ==
  ASSUME IInv, Execute
  PROVE  IInv'
<1> DEFINE f == [at |-> "begin", pushed |-> FALSE]
<1>1. /\ Application /\ Owns
      /\ native' = Append(native, f)
      /\ status' = "active"
      /\ UNCHANGED <<doSuspend, doProcessSuspend, lineCallback>>
  BY DEF Execute, Enter
<1>2. f \in Frame /\ f.at = "begin"
  BY DEF Frame, Steps
<1> HIDE DEF f
<1>3. f.at \in Steps /\ f.at \notin Callees /\ f.at \notin Flags
  BY <1>2 DEF Steps, Callees, Flags
<1>4. ActiveAt(f, status', doProcessSuspend')
  BY <1>1, <1>2 DEF ActiveAt
<1>5. SeenAt(f, doSuspend', doProcessSuspend', lineCallback')
  BY <1>1, <1>2, <1>3, ApplicationRuns DEF SeenAt
<1>6. native # <<>> => Upon(Top(native), f)
  BY <1>1, <1>3, ApplicationRuns DEF Upon
<1>7. Stack(native)
  BY DEF IInv, Holds
<1>8. Holds(Append(native, f), status', doSuspend', doProcessSuspend', lineCallback')
  BY <1>2, <1>3, <1>4, <1>5, <1>6, <1>7, Entering
<1> QED
  BY <1>1, <1>8 DEF IInv

-----------------------------------------------------------------------------
\* The steps of an execution, from one place to another

Executing == native # <<>> /\ Top(native).at \in Steps

LEMMA MovesOn ==
  ASSUME IInv, Executing, NEW p \in Steps, native' = MoveTo(p),
         p \in {"begin", "next"} => status' = "active",
         lineCallback' => doProcessSuspend',
         p # "end" => (doSuspend' => doProcessSuspend')
  PROVE  IInv'
<1> DEFINE f == [at |-> p, pushed |-> FALSE]
<1>1. f \in Frame /\ f.at = p /\ native' = Append(Front(native), f)
  BY DEF Frame, MoveTo
<1> HIDE DEF f
<1>2. ActiveAt(f, status', doProcessSuspend')
  BY <1>1 DEF ActiveAt, Steps
<1>3. SeenAt(f, doSuspend', doProcessSuspend', lineCallback')
  BY <1>1 DEF SeenAt, Steps
<1>4. SameKind(Top(native), f)
  BY <1>1 DEF SameKind, Executing
<1>5. Holds(Append(Front(native), f), status', doSuspend', doProcessSuspend', lineCallback')
  BY <1>1, <1>2, <1>3, <1>4, Now, Replacing DEF Executing
<1> QED
  BY <1>1, <1>5 DEF IInv

LEMMA Calls ==
  ASSUME IInv, Executing, NEW p \in Steps, NEW q \in Callees,
         native' = Append(MoveTo(p), [at |-> q, pushed |-> FALSE]),
         q # "lastLine" => status' = "active",
         lineCallback' => doProcessSuspend',
         doSuspend' => doProcessSuspend'
  PROVE  IInv'
<1> DEFINE f == [at |-> p, pushed |-> FALSE]
           g == [at |-> q, pushed |-> FALSE]
<1>1. /\ f \in Frame /\ f.at = p /\ g \in Frame /\ g.at = q
      /\ native' = Append(Append(Front(native), f), g)
  BY DEF Frame, MoveTo
<1> HIDE DEF f, g
<1>2. ActiveAt(g, status', doProcessSuspend')
  BY <1>1 DEF ActiveAt, Callees
<1>3. SeenAt(g, doSuspend', doProcessSuspend', lineCallback')
  BY <1>1 DEF SeenAt, Callees, Flags
<1>4. SameKind(Top(native), f)
  BY <1>1 DEF SameKind, Executing
<1>5. Holds(Append(Append(Front(native), f), g), status', doSuspend', doProcessSuspend',
            lineCallback')
  BY <1>1, <1>2, <1>3, <1>4, Now, Calling DEF Executing
<1> QED
  BY <1>1, <1>5 DEF IInv

\* The place, and what is seen there.
LEMMA AtStep ==
  ASSUME IInv, NEW p \in Steps, At(p)
  PROVE  /\ Executing
         /\ Top(native).at = p
         /\ lineCallback => doProcessSuspend
         /\ p # "end" => (doSuspend => doProcessSuspend)
         /\ p \in {"begin", "next"} => status = "active"
<1>1. native # <<>> /\ Top(native).at = p
  BY Now DEF At
<1>2. p \notin Flags
  BY Kinds
<1> QED
  BY <1>1, <1>2, Now DEF Executing, ActiveAt, SeenAt

\* An exception is raised, and Execute goes on with it.
LEMMA Raises ==
  ASSUME IInv, Executing, NEW p \in {"left", "returned"}, native' = MoveTo(p),
         RaisesException(TRUE)
  PROVE  IInv'
<1>1. p \in Steps /\ p \notin {"begin", "next"} /\ doProcessSuspend'
  BY DEF Steps, RaisesException
<1> QED
  BY <1>1, MovesOn

\* Where a line callback is called or a request looked for.
LEMMA KeepsLineCue ==
  ASSUME IInv, LineCue, At("begin") \/ At("next"),
         UNCHANGED <<doSuspend, doProcessSuspend, lineCallback>>
  PROVE  IInv'
<1>1. /\ Executing
      /\ lineCallback' => doProcessSuspend'
      /\ doSuspend' => doProcessSuspend'
  BY AtStep DEF Steps
<1>2. CASE native' = Append(MoveTo("next"), [at |-> "line", pushed |-> FALSE])
           /\ status' = "active"
  <2>1. "next" \in Steps /\ "line" \in Callees
    BY DEF Steps, Callees
  <2> QED
    BY <1>1, <1>2, <2>1, Calls
<1>3. CASE native' = MoveTo("returned")
  <2>1. "returned" \in Steps
    BY DEF Steps
  <2> QED
    BY <1>1, <1>3, <2>1, MovesOn
<1>4. CASE native' = MoveTo("next") /\ status' = "active"
  <2>1. "next" \in Steps
    BY DEF Steps
  <2> QED
    BY <1>1, <1>4, <2>1, MovesOn
<1> QED
  BY <1>2, <1>3, <1>4 DEF LineCue

LEMMA KeepsBegin ==
  ASSUME IInv, Begin
  PROVE  IInv'
<1>1. /\ At("begin") /\ Executing /\ status = "active"
      /\ lineCallback => doProcessSuspend
      /\ doSuspend => doProcessSuspend
      /\ UNCHANGED <<doSuspend, lineCallback>>
  BY AtStep DEF Begin, Steps
<1>2. CASE RaisesException(TRUE) /\ native' = MoveTo("left")
  BY <1>1, <1>2, Raises
<1>3. CASE native' = MoveTo("next") /\ UNCHANGED <<status, doProcessSuspend>>
  <2>1. "next" \in Steps
    BY DEF Steps
  <2> QED
    BY <1>1, <1>3, <2>1, MovesOn
<1>4. CASE LineCue /\ UNCHANGED doProcessSuspend
  BY <1>1, <1>4, KeepsLineCue
<1>5. CASE /\ native' = Append(MoveTo("direct"), [at |-> "system", pushed |-> FALSE])
           /\ UNCHANGED <<status, doProcessSuspend>>
  <2>1. "direct" \in Steps /\ "system" \in Callees
    BY DEF Steps, Callees
  <2> QED
    BY <1>1, <1>5, <2>1, Calls
<1> QED
  BY <1>2, <1>3, <1>4, <1>5 DEF Begin

\* The instructions of a script.
LEMMA KeepsInstruction ==
  ASSUME IInv, Line \/ Try \/ CallScriptFunction \/ CallSystemFunction \/ Throw \/ Ret
  PROVE  IInv'
<1>1. /\ At("next")
      /\ UNCHANGED <<doSuspend, lineCallback>>
  BY DEF Line, Try, CallScriptFunction, CallSystemFunction, Throw, Ret, Instruction
<1>2. /\ Executing /\ Top(native).at = "next" /\ status = "active"
      /\ lineCallback => doProcessSuspend
      /\ doSuspend => doProcessSuspend
  BY <1>1, AtStep DEF Steps
<1>3. CASE LineCue /\ UNCHANGED doProcessSuspend
  BY <1>1, <1>3, KeepsLineCue
<1>4. CASE RaisesException(TRUE) /\ native' = MoveTo("returned")
  BY <1>2, <1>4, Raises
<1>5. CASE UNCHANGED <<status, native, doProcessSuspend>>
  BY <1>1, <1>5 DEF IInv
<1>6. CASE native' = MoveTo("returned") /\ UNCHANGED doProcessSuspend
  <2>1. "returned" \in Steps
    BY DEF Steps
  <2> QED
    BY <1>1, <1>2, <1>6, <2>1, MovesOn
<1>7. CASE native' = Enter("system") /\ UNCHANGED <<status, doProcessSuspend>>
  <2> DEFINE f == [at |-> "system", pushed |-> FALSE]
  <2>1. f \in Frame /\ f.at = "system" /\ native' = Append(native, f)
    BY <1>7 DEF Frame, Callees, Enter
  <2> HIDE DEF f
  <2>2. f.at \in Callees /\ f.at \notin Flags /\ f.at \notin Steps /\ f.at # "flagOff"
    BY <2>1 DEF Callees, Flags, Steps
  <2>3. Upon(Top(native), f)
    BY <1>2, <2>2 DEF Upon, Executing
  <2>4. ActiveAt(f, status', doProcessSuspend')
    BY <1>2, <1>7, <2>1 DEF ActiveAt
  <2>5. SeenAt(f, doSuspend', doProcessSuspend', lineCallback')
    BY <1>1, <1>2, <1>7, <2>2 DEF SeenAt
  <2>6. Holds(Append(native, f), status', doSuspend', doProcessSuspend', lineCallback')
    BY <1>2, <2>1, <2>2, <2>3, <2>4, <2>5, Now, Entering DEF Executing
  <2> QED
    BY <2>1, <2>6 DEF IInv
<1>8. CASE Line \/ CallScriptFunction
  BY <1>3, <1>4, <1>8 DEF Line, CallScriptFunction
<1>9. CASE Try \/ Ret
  BY <1>5, <1>6, <1>9 DEF Try, Ret
<1> QED
  BY <1>4, <1>7, <1>8, <1>9 DEF CallSystemFunction, Throw

\* What the script has called returns, and what it has done is looked at.
LEMMA KeepsReturns ==
  ASSUME IInv, NEW p \in Steps, NEW q \in Callees, At(q), native' = Back(p),
         p \in {"begin", "next"} => status' = "active",
         lineCallback' => doProcessSuspend',
         p # "end" => (doSuspend' => doProcessSuspend')
  PROVE  IInv'
<1> DEFINE f == [at |-> p, pushed |-> FALSE]
<1>1. /\ f \in Frame /\ f.at = p
      /\ native' = Append(SubSeq(native, 1, Len(native) - 2), f)
  BY DEF Frame, Back
<1> HIDE DEF f
<1>2. ActiveAt(f, status', doProcessSuspend')
  BY <1>1 DEF ActiveAt, Steps
<1>3. SeenAt(f, doSuspend', doProcessSuspend', lineCallback')
  BY <1>1 DEF SeenAt, Steps
<1>4. native # <<>> /\ Top(native).at \in Callees
  BY Now DEF At
<1>5. Holds(Append(SubSeq(native, 1, Len(native) - 2), f), status', doSuspend',
            doProcessSuspend', lineCallback')
  BY <1>1, <1>2, <1>3, <1>4, Now, Returning
<1> QED
  BY <1>1, <1>5 DEF IInv

LEMMA KeepsReturn ==
  ASSUME IInv, SystemFunctionReturns \/ LineCallbackReturns \/ LastLineCallbackReturns
  PROVE  IInv'
<1>1. /\ native # <<>> /\ ~Top(native).pushed
      /\ Top(native).at \in Callees
      /\ UNCHANGED <<doSuspend, lineCallback>>
  BY Now DEF SystemFunctionReturns, LineCallbackReturns, LastLineCallbackReturns,
             Returns, At, Callees
<1>2. /\ lineCallback => doProcessSuspend
      /\ doSuspend => doProcessSuspend
  BY <1>1, Now DEF SeenAt, Callees, Flags
<1>3. /\ "left" \in Steps /\ "next" \in Steps /\ "returned" \in Steps /\ "end" \in Steps
      /\ "system" \in Callees /\ "line" \in Callees /\ "lastLine" \in Callees
  BY DEF Steps, Callees
<1>4. CASE SystemFunctionReturns
  <2>1. /\ At("system") /\ UNCHANGED doProcessSuspend
        /\ status = "active" \/ (status = "exception" /\ doProcessSuspend)
    BY <1>1, <1>4, Now DEF SystemFunctionReturns, Returns, At, ActiveAt
  <2>2. CASE native' = Back("left") \/ native' = Back("returned")
    BY <1>1, <1>2, <1>3, <2>1, <2>2, KeepsReturns
  <2>3. CASE native' = Back("next") /\ status' = "active"
    BY <1>1, <1>2, <1>3, <2>1, <2>3, KeepsReturns
  <2> QED
    BY <1>4, <2>1, <2>2, <2>3 DEF SystemFunctionReturns
<1>5. CASE LineCallbackReturns
  <2>1. At("line") /\ UNCHANGED doProcessSuspend /\ status = "active"
    BY <1>1, <1>5, Now DEF LineCallbackReturns, Returns, At, ActiveAt
  <2>2. CASE native' = Back("returned")
    BY <1>1, <1>2, <1>3, <2>1, <2>2, KeepsReturns
  <2>3. CASE native' = Back("next") /\ status' = "active"
    BY <1>1, <1>2, <1>3, <2>1, <2>3, KeepsReturns
  <2> QED
    BY <1>5, <2>1, <2>2, <2>3 DEF LineCallbackReturns
<1>6. CASE LastLineCallbackReturns
  <2>1. At("lastLine") /\ doProcessSuspend' = TRUE /\ native' = Back("end")
    BY <1>6 DEF LastLineCallbackReturns, Returns
  <2> QED
    BY <1>3, <2>1, KeepsReturns
<1> QED
  BY <1>4, <1>5, <1>6

LEMMA KeepsUnwind ==
  ASSUME IInv, Unwind
  PROVE  IInv'
<1>1. At("returned") /\ UNCHANGED <<doSuspend, doProcessSuspend, lineCallback>>
  BY DEF Unwind
<1>2. /\ "returned" \in Steps /\ "next" \in Steps /\ "left" \in Steps
  BY DEF Steps
<1>3. /\ Executing
      /\ lineCallback' => doProcessSuspend'
      /\ doSuspend' => doProcessSuspend'
  BY <1>1, <1>2, AtStep
<1>4. CASE native' = MoveTo("next") /\ status' = "active"
  BY <1>2, <1>3, <1>4, MovesOn
<1>5. CASE native' = MoveTo("left")
  BY <1>2, <1>3, <1>5, MovesOn
<1> QED
  BY <1>4, <1>5 DEF Unwind

LEMMA KeepsLeave ==
  ASSUME IInv, Leave
  PROVE  IInv'
<1>1. /\ At("left") \/ At("returned")
      /\ UNCHANGED <<doSuspend, lineCallback>>
  BY DEF Leave
<1>2. /\ "returned" \in Steps /\ "left" \in Steps /\ "end" \in Steps /\ "lastLine" \in Callees
  BY DEF Steps, Callees
<1>3. /\ Executing
      /\ lineCallback => doProcessSuspend
      /\ doSuspend => doProcessSuspend
  BY <1>1, <1>2, AtStep
<1>4. CASE /\ native' = Append(MoveTo("end"), [at |-> "lastLine", pushed |-> FALSE])
           /\ UNCHANGED doProcessSuspend
  BY <1>1, <1>2, <1>3, <1>4, Calls
<1>5. CASE native' = MoveTo("end") /\ ~lineCallback
  BY <1>1, <1>2, <1>3, <1>5, MovesOn
<1> QED
  BY <1>4, <1>5 DEF Leave

\* Execute returns to what has pushed the state, or to nothing.
LEMMA KeepsExecuteReturns ==
  ASSUME IInv, ExecuteReturns
  PROVE  IInv'
<1>1. /\ At("end") /\ native' = Front(native)
      /\ doSuspend' = FALSE /\ UNCHANGED <<doProcessSuspend, lineCallback>>
  BY DEF ExecuteReturns
<1>2. /\ Executing /\ Top(native).at = "end"
      /\ lineCallback => doProcessSuspend
  BY <1>1, AtStep DEF Steps
<1>3. ASSUME Len(native) > 1
      PROVE  LET f == native[Len(native) - 1]
             IN  /\ ActiveAt(f, status', doProcessSuspend')
                 /\ SeenAt(f, doSuspend', doProcessSuspend', lineCallback')
  <2> DEFINE f == native[Len(native) - 1]
  <2>1. f.at \in Callees /\ f.pushed
    BY <1>2, <1>3, Now DEF Upon, Executing
  <2> HIDE DEF f
  <2>2. ActiveAt(f, status', doProcessSuspend')
    BY <2>1 DEF ActiveAt, Callees
  <2>3. SeenAt(f, doSuspend', doProcessSuspend', lineCallback')
    BY <1>1, <1>2, <2>1 DEF SeenAt, Callees
  <2> QED
    BY <2>2, <2>3 DEF f
<1>4. native # <<>> /\ Top(native).at \notin Callees
  BY <1>2, Kinds DEF Executing
<1>5. Holds(Front(native), status', doSuspend', doProcessSuspend', lineCallback')
  BY <1>1, <1>2, <1>3, <1>4, Now, Removing
<1> QED
  BY <1>1, <1>5 DEF IInv

-----------------------------------------------------------------------------
LEMMA Inductive ==
  ASSUME IInv, Careful, [Next]_vars
  PROVE  IInv'
<1>1. CASE Prepare \/ Unprepare
  BY <1>1, KeepsPrepare
<1>2. CASE PushState \/ PopState
  BY <1>2, KeepsPush
<1>3. CASE Suspend \/ Abort
  BY <1>3, KeepsRequest
<1>4. ASSUME NEW b \in BOOLEAN, SetException(b) \/ SetLineCallback(b)
      PROVE  IInv'
  BY <1>4, KeepsException, KeepsSetLineCallback
<1>5. CASE WriteFlag
  BY <1>5, KeepsWriteFlag
<1>6. CASE Execute \/ Begin
  BY <1>6, KeepsExecute, KeepsBegin
<1>7. CASE Line \/ Try \/ CallScriptFunction \/ CallSystemFunction \/ Throw \/ Ret
  BY <1>7, KeepsInstruction
<1>8. CASE SystemFunctionReturns \/ LineCallbackReturns \/ LastLineCallbackReturns
  BY <1>8, KeepsReturn
<1>9. CASE Unwind \/ Leave \/ ExecuteReturns
  BY <1>9, KeepsUnwind, KeepsLeave, KeepsExecuteReturns
<1>10. CASE UNCHANGED vars
  BY <1>10 DEF vars, IInv
<1> QED
  BY <1>1, <1>2, <1>3, <1>4, <1>5, <1>6, <1>7, <1>8, <1>9, <1>10 DEF Next

LEMMA Invariance ==
  ASSUME Careful PROVE Spec => []IInv
<1>1. IInv /\ [Next]_vars => IInv'
  BY Inductive
<1> QED
  BY <1>1, Initially, PTL DEF Spec

\* What runs is active: nothing that raises an exception, suspends or finishes lets
\* the script go on, for any depth of calls and nested executions.
THEOREM OnlyActiveRuns ==
  ASSUME Careful PROVE Spec => []RunsOnlyActive
BY Invariance, Implied, PTL

\* The line callback, and a request to suspend that no nested Prepare or Execute has
\* erased, are seen by a running script, with any number of nested executions and with
\* a second thread that does not call Suspend while the flag is being written.
THEOREM SeesRequests ==
  ASSUME Careful PROVE Spec => []RequestsSeen
BY Invariance, Implied, PTL

-----------------------------------------------------------------------------
\* The call stack: where the markers are

Entries == {"plain", "try", "marker"}

\* The positions m of the markers, from the lowest to the highest, each with the
\* function under it that was running when the state was pushed.
Marked(cs, m) ==
  /\ cs \in Seq(Entries)
  /\ {i \in 1..Len(cs) : cs[i] = "marker"} = {m[j] : j \in 1..Len(m)}
  /\ \A j \in 1..Len(m) : m[j] >= 2
  /\ \A i, j \in 1..Len(m) : i < j => m[i] + 2 <= m[j]

Mark(m, j) == IF j = 0 THEN 0 ELSE m[j]
Highest(m) == Mark(m, Len(m))

\* What is up to h is as it was, and above it functions only.
SameUpTo(h, old, new) ==
  /\ new \in Seq(Entries)
  /\ h <= Len(new)
  /\ \A i \in 1..h : new[i] = old[i]
  /\ \A i \in (h + 1)..Len(new) : new[i] # "marker"

LEMMA HighestMark ==
  ASSUME NEW cs, NEW m \in Seq(Nat), Marked(cs, m)
  PROVE  /\ Highest(m) \in 0..Len(cs)
         /\ \A j \in 1..Len(m) : m[j] \in 1..Highest(m)
         /\ \A i \in 1..Len(cs) : cs[i] = "marker" => i <= Highest(m)
         /\ m # <<>> => Highest(m) = m[Len(m)] /\ cs[Highest(m)] = "marker"
         /\ SameUpTo(Highest(m), cs, cs)
<1> DEFINE M == {i \in 1..Len(cs) : cs[i] = "marker"}
<1>1. Len(m) \in Nat /\ Len(cs) \in Nat /\ \A j \in 1..Len(m) : m[j] \in Nat
  BY DEF Marked
<1>2. M = {m[j] : j \in 1..Len(m)}
  BY DEF Marked
<1>3. CASE m = <<>>
  <2>1. Len(m) = 0 /\ Highest(m) = 0
    BY <1>3 DEF Highest, Mark
  <2>2. M = {}
    BY <1>2, <2>1
  <2> QED
    BY <1>1, <1>3, <2>1, <2>2 DEF SameUpTo, Marked
<1>4. CASE m # <<>>
  <2>1. Len(m) \in 1..Len(m) /\ Highest(m) = m[Len(m)]
    BY <1>1, <1>4 DEF Highest, Mark
  <2>2. \A j \in 1..Len(m) : m[j] <= m[Len(m)] /\ m[j] >= 1
    BY <1>1, <2>1 DEF Marked
  <2>3. m[Len(m)] \in M
    BY <1>2, <2>1
  <2>4. \A i \in M : i <= m[Len(m)]
    BY <1>2, <2>2
  <2> QED
    BY <1>1, <1>4, <2>1, <2>2, <2>3, <2>4 DEF SameUpTo, Marked
<1> QED
  BY <1>3, <1>4

LEMMA MarkedAgain ==
  ASSUME NEW cs, NEW m \in Seq(Nat), Marked(cs, m), NEW new, SameUpTo(Highest(m), cs, new)
  PROVE  Marked(new, m)
<1> DEFINE h == Highest(m)
<1>1. /\ h \in 0..Len(cs)
      /\ \A j \in 1..Len(m) : m[j] \in 1..h
      /\ \A i \in 1..Len(cs) : cs[i] = "marker" => i <= h
  BY HighestMark
<1>2. /\ new \in Seq(Entries)
      /\ h <= Len(new)
      /\ \A i \in 1..h : new[i] = cs[i]
      /\ \A i \in (h + 1)..Len(new) : new[i] # "marker"
  BY DEF SameUpTo
<1> HIDE DEF h
<1>3. Len(cs) \in Nat /\ Len(new) \in Nat
  BY <1>2 DEF Marked
<1>4. ASSUME NEW i
      PROVE  i \in 1..Len(new) /\ new[i] = "marker" <=> i \in 1..Len(cs) /\ cs[i] = "marker"
  BY <1>1, <1>2, <1>3
<1>5. {i \in 1..Len(new) : new[i] = "marker"} = {i \in 1..Len(cs) : cs[i] = "marker"}
  BY <1>4
<1> QED
  BY <1>2, <1>5 DEF Marked

LEMMA TopIsHighest ==
  ASSUME NEW m \in Seq(Nat), Marked(callStack, m)
  PROVE  TopMarker = Highest(m)
<1>1. Markers = {m[j] : j \in 1..Len(m)}
  BY DEF Marked, Markers
<1>2. /\ Highest(m) \in 0..Len(callStack)
      /\ \A j \in 1..Len(m) : m[j] \in 1..Highest(m)
      /\ m # <<>> => Highest(m) = m[Len(m)]
  BY HighestMark
<1>3. CASE m = <<>>
  <2>1. Len(m) = 0 /\ Highest(m) = 0
    BY <1>3 DEF Highest, Mark
  <2> QED
    BY <1>1, <2>1 DEF TopMarker
<1>4. CASE m # <<>>
  <2>1. Len(m) \in 1..Len(m)
    BY <1>4
  <2>2. Highest(m) \in Markers /\ \A j \in Markers : j <= Highest(m)
    BY <1>1, <1>2, <1>4, <2>1
  <2>3. ASSUME NEW i \in Markers, \A j \in Markers : j <= i
        PROVE  i = Highest(m)
    <3>1. i <= Highest(m) /\ Highest(m) <= i
      BY <2>2, <2>3
    <3>2. i \in Nat /\ Highest(m) \in Nat
      BY <1>2, <2>2 DEF Markers
    <3> QED
      BY <3>1, <3>2
  <2> QED
    BY <2>2, <2>3 DEF TopMarker
<1> QED
  BY <1>3, <1>4

\* As long as its markers, or longer.
LEMMA Cut ==
  ASSUME NEW cs, NEW m \in Seq(Nat), Marked(cs, m), NEW n \in Highest(m)..Len(cs)
  PROVE  /\ SameUpTo(Highest(m), cs, SubSeq(cs, 1, n))
         /\ Len(SubSeq(cs, 1, n)) = n
<1> DEFINE t == SubSeq(cs, 1, n)
           h == Highest(m)
<1>1. /\ h \in 0..Len(cs)
      /\ \A i \in 1..Len(cs) : cs[i] = "marker" => i <= h
  BY HighestMark
<1>2. cs \in Seq(Entries) /\ Len(cs) \in Nat
  BY DEF Marked
<1>3. n \in Nat /\ h <= n /\ \A i \in 1..n : cs[i] \in Entries
  BY <1>1, <1>2
<1>4. /\ t \in Seq(Entries)
      /\ Len(t) = IF 1 <= n THEN n - 1 + 1 ELSE 0
      /\ \A i \in 1..(n - 1 + 1) : t[i] = cs[1 + i - 1]
  BY <1>3, SubSeqProperties
<1> HIDE DEF t, h
<1>5. Len(t) = n /\ \A i \in 1..n : t[i] = cs[i]
  BY <1>3, <1>4
<1>6. SameUpTo(h, cs, t)
  BY <1>1, <1>2, <1>3, <1>4, <1>5, SMTT(30) DEF SameUpTo
<1> QED
  BY <1>5, <1>6 DEF t, h

\* A function calls.
LEMMA Called ==
  ASSUME NEW cs, NEW m \in Seq(Nat), Marked(cs, m), NEW f \in {"plain", "try"}
  PROVE  SameUpTo(Highest(m), cs, Append(cs, f))
<1> DEFINE t == Append(cs, f)
           h == Highest(m)
<1>1. /\ h \in 0..Len(cs)
      /\ \A i \in 1..Len(cs) : cs[i] = "marker" => i <= h
  BY HighestMark
<1>2. cs \in Seq(Entries) /\ Len(cs) \in Nat /\ f \in Entries /\ f # "marker"
  BY DEF Marked, Entries
<1>3. /\ t \in Seq(Entries)
      /\ Len(t) = Len(cs) + 1
      /\ \A i \in 1..Len(cs) : t[i] = cs[i]
      /\ t[Len(cs) + 1] = f
  BY <1>2, AppendProperties
<1> HIDE DEF t, h
<1>4. h <= Len(t) /\ \A i \in 1..h : t[i] = cs[i]
  BY <1>1, <1>2, <1>3
<1>5. ASSUME NEW i \in (h + 1)..Len(t) PROVE t[i] # "marker"
  <2>1. CASE i = Len(cs) + 1
    BY <1>2, <1>3, <2>1
  <2>2. CASE i # Len(cs) + 1
    BY <1>1, <1>2, <1>3, <2>2, SMTT(30)
  <2> QED
    BY <2>1, <2>2
<1>6. SameUpTo(h, cs, t)
  BY <1>3, <1>4, <1>5 DEF SameUpTo
<1> QED
  BY <1>6 DEF t, h

\* A state is pushed.
LEMMA MarkPushed ==
  ASSUME NEW cs, NEW m \in Seq(Nat), Marked(cs, m), NEW f \in {"plain", "try"}
  PROVE  LET t == cs \o <<f, "marker">>
             n == Append(m, Len(cs) + 2)
         IN  /\ Marked(t, n)
             /\ n \in Seq(Nat)
             /\ Len(n) = Len(m) + 1
             /\ \A j \in 1..Len(m) : n[j] = m[j]
             /\ n[Len(m) + 1] = Len(cs) + 2
             /\ Highest(n) = Len(cs) + 2
             /\ Len(t) = Len(cs) + 2
             /\ \A i \in 1..Len(cs) : t[i] = cs[i]
<1> DEFINE u == <<f, "marker">>
           t == cs \o u
           l == Len(cs)
           n == Append(m, l + 2)
<1>1. /\ Highest(m) \in 0..l
      /\ \A j \in 1..Len(m) : m[j] \in 1..Highest(m)
  BY HighestMark
<1>2. cs \in Seq(Entries) /\ l \in Nat /\ Len(m) \in Nat
  BY DEF Marked
<1>3. u \in Seq(Entries) /\ Len(u) = 2 /\ u[1] = f /\ u[2] = "marker" /\ f # "marker"
  BY DEF Entries
<1>4. /\ n \in Seq(Nat)
      /\ Len(n) = Len(m) + 1
      /\ \A j \in 1..Len(m) : n[j] = m[j]
      /\ n[Len(m) + 1] = l + 2
  BY <1>2, AppendProperties
<1> HIDE DEF u
<1>5. /\ t \in Seq(Entries)
      /\ Len(t) = l + Len(u)
      /\ \A i \in 1..(l + Len(u)) : t[i] = IF i <= l THEN cs[i] ELSE u[i - l]
  BY <1>2, <1>3, ConcatProperties
<1>6. {i \in 1..l : cs[i] = "marker"} = {m[j] : j \in 1..Len(m)}
  BY DEF Marked
<1>7. Highest(n) = l + 2
  <2> HIDE DEF n, l
  <2> QED
    BY <1>2, <1>4 DEF Highest, Mark
<1> HIDE DEF t, n, l
<1>8. /\ Len(t) = l + 2
      /\ \A i \in 1..l : t[i] = cs[i]
      /\ t[l + 1] # "marker" /\ t[l + 2] = "marker"
  <2>1. l + 1 \in 1..(l + Len(u)) /\ l + 2 \in 1..(l + Len(u)) /\ l + 1 - l = 1 /\ l + 2 - l = 2
    BY <1>2, <1>3
  <2> QED
    BY <1>2, <1>3, <1>5, <2>1
<1>9. {i \in 1..Len(t) : t[i] = "marker"} = {n[j] : j \in 1..Len(n)}
  <2>1. {i \in 1..Len(t) : t[i] = "marker"} = {i \in 1..l : cs[i] = "marker"} \cup {l + 2}
    BY <1>2, <1>8
  <2>2. {n[j] : j \in 1..Len(n)} = {m[j] : j \in 1..Len(m)} \cup {l + 2}
    <3>1. 1..Len(n) = (1..Len(m)) \cup {Len(m) + 1}
      BY <1>2, <1>4
    <3>2. \A j \in 1..Len(n) : n[j] \in {m[i] : i \in 1..Len(m)} \cup {l + 2}
      BY <1>4, <3>1
    <3>3. \A j \in 1..Len(m) : j \in 1..Len(n) /\ n[j] = m[j]
      BY <1>4, <3>1
    <3>4. Len(m) + 1 \in 1..Len(n)
      BY <1>2, <3>1
    <3>5. {m[j] : j \in 1..Len(m)} \cup {l + 2} \subseteq {n[j] : j \in 1..Len(n)}
      BY <1>4, <3>3, <3>4
    <3> QED
      BY <3>2, <3>5
  <2> QED
    BY <1>6, <2>1, <2>2
<1>10. ASSUME NEW j \in 1..Len(n) PROVE n[j] >= 2
  <2>1. CASE j = Len(m) + 1
    BY <1>2, <1>4, <2>1
  <2>2. CASE j # Len(m) + 1
    <3>1. j \in 1..Len(m) /\ n[j] = m[j]
      BY <1>2, <1>4, <2>2
    <3> QED
      BY <3>1 DEF Marked
  <2> QED
    BY <2>1, <2>2
<1>11. ASSUME NEW i \in 1..Len(n), NEW j \in 1..Len(n), i < j
       PROVE  n[i] + 2 <= n[j]
  <2>1. i \in 1..Len(m) /\ n[i] = m[i] /\ m[i] \in Nat /\ m[i] <= l
    <3>1. Len(m) \in Nat /\ Len(n) = Len(m) + 1
      BY <1>2, <1>4
    <3>2. i \in 1..Len(m)
      BY <1>11, <3>1
    <3>3. n[i] = m[i]
      BY <1>4, <3>2
    <3> QED
      BY <1>1, <1>2, <3>2, <3>3
  <2>2. CASE j = Len(m) + 1
    <3>1. n[j] = l + 2
      BY <1>4, <2>2
    <3>2. l \in Nat
      BY <1>2
    <3> QED
      BY <2>1, <3>1, <3>2
  <2>3. CASE j # Len(m) + 1
    <3>1. j \in 1..Len(m) /\ n[j] = m[j]
      BY <1>2, <1>4, <2>3
    <3> QED
      BY <1>11, <2>1, <3>1 DEF Marked
  <2> QED
    BY <2>2, <2>3
<1>12. Marked(t, n)
  BY <1>5, <1>9, <1>10, <1>11 DEF Marked
<1> QED
  BY <1>4, <1>7, <1>8, <1>12 DEF t, n, l, u

\* The topmost state is popped.
LEMMA MarkPopped ==
  ASSUME NEW cs, NEW m \in Seq(Nat), Marked(cs, m), m # <<>>, Len(cs) = Highest(m)
  PROVE  LET t == SubSeq(cs, 1, Len(cs) - 2)
             n == Front(m)
         IN  /\ Marked(t, n)
             /\ n \in Seq(Nat)
             /\ Len(n) = Len(m) - 1
             /\ \A j \in 1..(Len(m) - 1) : n[j] = m[j]
             /\ Len(t) = Len(cs) - 2
             /\ Len(cs) - 2 \in Nat
             /\ cs[Len(cs) - 1] \in {"plain", "try"}
<1> DEFINE k == Len(m) - 1
           h == Highest(m)
           t == SubSeq(cs, 1, Len(cs) - 2)
           n == Front(m)
<1>1. /\ h \in 0..Len(cs)
      /\ h = m[Len(m)]
      /\ \A i \in 1..Len(cs) : cs[i] = "marker" => i <= h
  BY HighestMark
<1>2. cs \in Seq(Entries) /\ Len(cs) \in Nat
  BY DEF Marked
<1>3. k \in Nat /\ Len(m) = k + 1 /\ Len(m) \in 1..Len(m)
  <2>1. Len(m) \in Nat \ {0}
    OBVIOUS
  <2> QED
    BY <2>1
<1>4. h >= 2 /\ \A j \in 1..k : m[j] \in Nat /\ m[j] + 2 <= h /\ m[j] >= 2
  <2>1. h >= 2
    BY <1>1, <1>3 DEF Marked
  <2>2. ASSUME NEW j \in 1..k
        PROVE  m[j] \in Nat /\ m[j] + 2 <= h /\ m[j] >= 2
    <3>1. j \in 1..Len(m) /\ j < Len(m)
      BY <1>3, <2>2
    <3> QED
      BY <1>1, <1>3, <3>1 DEF Marked
  <2> QED
    BY <2>1, <2>2
<1>5. /\ n \in Seq(Nat)
      /\ Len(n) = k
      /\ \A j \in 1..k : n[j] = m[j]
  <2>1. n = SubSeq(m, 1, k)
    BY DEF Front
  <2>2. \A j \in 1..k : m[j] \in Nat
    BY <1>4
  <2> HIDE DEF k, n
  <2>3. /\ n \in Seq(Nat)
        /\ Len(n) = IF 1 <= k THEN k - 1 + 1 ELSE 0
        /\ \A j \in 1..(k - 1 + 1) : n[j] = m[1 + j - 1]
    BY <1>3, <2>1, <2>2, SubSeqProperties
  <2> QED
    BY <1>3, <2>3
<1>6. /\ t \in Seq(Entries)
      /\ Len(t) = Len(cs) - 2
      /\ \A i \in 1..(Len(cs) - 2) : t[i] = cs[i]
  <2> DEFINE l == Len(cs) - 2
  <2>1. l \in Nat /\ \A i \in 1..l : cs[i] \in Entries
    BY <1>2, <1>4
  <2> HIDE DEF l
  <2>2. /\ t \in Seq(Entries)
        /\ Len(t) = IF 1 <= l THEN l - 1 + 1 ELSE 0
        /\ \A i \in 1..(l - 1 + 1) : t[i] = cs[1 + i - 1]
    BY <2>1, SubSeqProperties DEF l
  <2> HIDE DEF t
  <2>3. Len(t) = l /\ \A i \in 1..l : t[i] = cs[i]
    BY <2>1, <2>2
  <2> QED
    BY <2>2, <2>3 DEF l
<1>7. {i \in 1..Len(cs) : cs[i] = "marker"} = {m[j] : j \in 1..Len(m)}
  BY DEF Marked
<1> HIDE DEF h, k, t, n
<1>8. \A j \in 1..Len(m) : m[j] <= h - 2 \/ m[j] = h
  <2>1. ASSUME NEW j \in 1..Len(m) PROVE m[j] <= h - 2 \/ m[j] = h
    <3>1. CASE j = k + 1
      BY <1>1, <1>3, <3>1
    <3>2. CASE j # k + 1
      BY <1>1, <1>3, <1>4, <3>2
    <3> QED
      BY <3>1, <3>2
  <2> QED
    BY <2>1
<1>9. cs[Len(cs) - 1] \in {"plain", "try"}
  <2>1. Len(cs) - 1 \in 1..Len(cs) /\ Len(cs) - 1 # h /\ ~(Len(cs) - 1 <= h - 2)
    BY <1>2, <1>4 DEF h
  <2>2. Len(cs) - 1 \notin {m[j] : j \in 1..Len(m)}
    BY <1>8, <2>1
  <2> QED
    BY <1>2, <1>7, <2>1, <2>2 DEF Entries
<1>10. {i \in 1..Len(t) : t[i] = "marker"} = {n[j] : j \in 1..Len(n)}
  <2>1. Len(cs) = h /\ h \in Nat
    BY <1>2 DEF h
  <2>2. {i \in 1..Len(t) : t[i] = "marker"} = {i \in 1..(h - 2) : cs[i] = "marker"}
    BY <1>6, <2>1
  <2>3. {i \in 1..(h - 2) : cs[i] = "marker"} = {m[j] : j \in 1..k}
    <3>1. ASSUME NEW i \in 1..(h - 2), cs[i] = "marker" PROVE i \in {m[j] : j \in 1..k}
      <4>1. i \in 1..Len(cs) /\ i # h
        BY <2>1
      <4>2. PICK j \in 1..Len(m) : i = m[j]
        BY <1>7, <3>1, <4>1
      <4>3. j \in 1..k
        BY <1>1, <1>3, <4>1, <4>2
      <4> QED
        BY <4>2, <4>3
    <3>2. ASSUME NEW j \in 1..k PROVE m[j] \in 1..(h - 2) /\ cs[m[j]] = "marker"
      <4>1. j \in 1..Len(m)
        BY <1>3
      <4>2. cs[m[j]] = "marker"
        BY <1>7, <4>1
      <4> QED
        BY <1>4, <2>1, <4>2
    <3> QED
      BY <3>1, <3>2
  <2>4. {n[j] : j \in 1..Len(n)} = {m[j] : j \in 1..k}
    BY <1>5
  <2> QED
    BY <2>2, <2>3, <2>4
<1>11. /\ \A j \in 1..Len(n) : n[j] >= 2
       /\ \A i, j \in 1..Len(n) : i < j => n[i] + 2 <= n[j]
  <2>1. \A j \in 1..k : j \in 1..Len(m) /\ n[j] = m[j]
    BY <1>3, <1>5
  <2> QED
    BY <1>4, <1>5, <2>1 DEF Marked
<1>12. Marked(t, n)
  BY <1>6, <1>10, <1>11 DEF Marked
<1>13. Len(cs) - 2 \in Nat
  BY <1>2, <1>4 DEF h
<1> QED
  BY <1>5, <1>6, <1>9, <1>12, <1>13 DEF k, t, n

-----------------------------------------------------------------------------
\* The C++ stack: what has pushed a state, and what runs above it

\* What calls a function, and what the line callback.
OnCall(f, g) ==
  /\ g.at = "system" => f.at \in {"next", "direct"}
  /\ g.at = "line" => f.at = "next"

\* Each marker has an Execute and a function it has called that has pushed a state.
\* Execute has called that function directly, without a function of the script, only
\* where the marker came right above the one below.
Pushes(s, m) ==
  /\ 2 * Len(m) <= Len(s)
  /\ \A i \in 1..Len(s) : s[i].pushed <=> \E j \in 1..Len(m) : i = 2 * j
  /\ \A i \in 1..Len(s) : s[i].pushed => s[i].at \in {"system", "line"}
  /\ \A i \in 1..(Len(s) - 1) : OnCall(s[i], s[i + 1])
  /\ \A j \in 1..Len(m) : s[2 * j - 1].at = "direct" => m[j] = Mark(m, j - 1) + 2

\* Where the Execute above the topmost marker is.
Place(s, m) ==
  IF Len(s) > 2 * Len(m) /\ s[2 * Len(m) + 1].at \in Steps
    THEN s[2 * Len(m) + 1].at ELSE "none"

LEMMA Shape ==
  ASSUME NEW s, Stack(s), NEW m \in Seq(Nat), Pushes(s, m)
  PROVE  LET k == 2 * Len(m)
         IN  /\ k \in Nat
             /\ Len(s) \in k..(k + 3)
             /\ s = <<>> => k = 0
             /\ Len(s) > k => ~s[k + 1].pushed /\ s[k + 1].at \notin Callees
             /\ Len(s) > k + 1 => s[k + 1].at \in Steps
             /\ s # <<>> =>
                  /\ Top(s).pushed => Len(s) = k /\ m # <<>>
                  /\ Top(s).at \in Callees /\ ~Top(s).pushed => Len(s) = k + 2
                  /\ Top(s).at \in Steps => Len(s) = k + 1
                  /\ Top(s).at \in Flags => ~Top(s).pushed /\ Len(s) > k
<1> DEFINE k == 2 * Len(m)
           n == Len(s)
<1>1. s \in Seq(Frame) /\ n \in Nat /\ Len(m) \in Nat /\ k \in Nat /\ k <= n
  BY DEF Stack, Pushes
<1>2. \A i \in 1..(n - 1) : Upon(s[i], s[i + 1])
  BY DEF Stack
<1>3. /\ \A i \in 1..n : s[i].pushed <=> \E j \in 1..Len(m) : i = 2 * j
      /\ \A i \in 1..n : s[i].pushed => s[i].at \in {"system", "line"}
      /\ \A i \in 1..n : s[i] \in Frame
  BY <1>1 DEF Pushes
<1>4. \A i \in 1..n : i > k => ~s[i].pushed
  BY <1>1, <1>3
<1>5. ASSUME n > k PROVE s[k + 1].at \notin Callees
  <2>1. CASE k = 0
    <3>1. s # <<>> /\ k + 1 = 1
      BY <1>1, <1>5, <2>1
    <3> QED
      BY <3>1 DEF Stack
  <2>2. CASE k # 0
    <3>1. k \in 1..(n - 1) /\ k \in 1..n /\ Len(m) \in 1..Len(m) /\ k = 2 * Len(m)
      BY <1>1, <1>5, <2>2
    <3>2. s[k].pushed
      BY <1>3, <3>1
    <3>3. s[k].at \in {"system", "line"} /\ Upon(s[k], s[k + 1])
      BY <1>2, <1>3, <3>1, <3>2
    <3>4. s[k].at \notin Steps
      BY <3>3 DEF Steps
    <3> QED
      BY <3>3, <3>4 DEF Upon
  <2> QED
    BY <2>1, <2>2
<1> HIDE DEF k
<1>6. ASSUME n > k + 1 PROVE s[k + 1].at \in Steps /\ s[k + 2].at \in Callees
  <2>1. k + 1 \in 1..(n - 1) /\ k + 2 \in 1..n /\ (k + 1) + 1 = k + 2
    BY <1>1, <1>6
  <2>2. Upon(s[k + 1], s[k + 2]) /\ s[k + 1].at \notin Callees
    BY <1>1, <1>2, <1>5, <1>6, <2>1
  <2>3. s[k + 2].at \in Callees
    BY <1>3, <2>1, <2>2 DEF Upon, Frame
  <2> QED
    BY <2>2, <2>3 DEF Upon
<1>7. ASSUME n > k + 2 PROVE s[k + 3].at \in Flags
  <2>1. k + 2 \in 1..(n - 1) /\ k + 2 \in 1..n /\ k + 3 \in 1..n /\ (k + 2) + 1 = k + 3
        /\ k + 2 > k /\ n > k + 1
    BY <1>1, <1>7
  <2>2. Upon(s[k + 2], s[k + 3]) /\ s[k + 2].at \in Callees /\ ~s[k + 2].pushed
    BY <1>2, <1>4, <1>6, <2>1
  <2>3. s[k + 2].at \notin Steps
    BY <2>2, Kinds
  <2> QED
    BY <1>3, <2>1, <2>2, <2>3 DEF Upon, Frame
<1>8. n <= k + 3
  <2> SUFFICES ASSUME n > k + 3 PROVE FALSE
    BY <1>1
  <2>1. k + 3 \in 1..(n - 1) /\ k + 4 \in 1..n /\ (k + 3) + 1 = k + 4 /\ n > k + 2
    BY <1>1
  <2>2. Upon(s[k + 3], s[k + 4]) /\ s[k + 3].at \in Flags
    BY <1>2, <1>7, <2>1
  <2>3. s[k + 3].at \notin Callees /\ s[k + 3].at \notin Steps
    BY <2>2, Kinds
  <2> QED
    BY <1>3, <2>1, <2>2, <2>3 DEF Upon, Frame
<1>9. ASSUME s # <<>>
      PROVE  /\ Top(s).pushed => n = k /\ m # <<>>
             /\ Top(s).at \in Callees /\ ~Top(s).pushed => n = k + 2
             /\ Top(s).at \in Steps => n = k + 1
             /\ Top(s).at \in Flags => ~Top(s).pushed /\ n > k
  <2>1. n \in 1..n /\ Top(s) = s[n]
    BY <1>1, <1>9 DEF Top
  <2>2. n = k => Top(s).pushed /\ Top(s).at \in {"system", "line"} /\ m # <<>>
    <3> SUFFICES ASSUME n = k PROVE Top(s).pushed /\ Top(s).at \in {"system", "line"} /\ m # <<>>
      OBVIOUS
    <3>1. Len(m) \in 1..Len(m) /\ n = 2 * Len(m)
      BY <1>1, <2>1 DEF k
    <3>2. m # <<>>
      BY <3>1
    <3> QED
      BY <1>3, <2>1, <3>1, <3>2
  <2>3. n > k => ~Top(s).pushed
    BY <1>4, <2>1
  <2>4. Top(s).at \in {"system", "line"} => Top(s).at \in Callees
    BY DEF Callees
  <2>5. n = k \/ n = k + 1 \/ n = k + 2 \/ n = k + 3
    BY <1>1, <1>8
  <2>6. CASE n = k
    BY <1>1, <2>2, <2>4, <2>6, Kinds
  <2>7. CASE n = k + 1
    BY <1>1, <1>5, <2>1, <2>3, <2>7
  <2>8. CASE n = k + 2
    BY <1>1, <1>6, <2>1, <2>3, <2>8, Kinds
  <2>9. CASE n = k + 3
    BY <1>1, <1>7, <2>1, <2>3, <2>9, Kinds
  <2> QED
    BY <2>5, <2>6, <2>7, <2>8, <2>9
<1>10. s = <<>> => k = 0
  BY <1>1
<1>11. n > k => ~s[k + 1].pushed
  BY <1>1, <1>4
<1> QED
  BY <1>1, <1>5, <1>6, <1>8, <1>9, <1>10, <1>11 DEF k

\* A frame that has pushed nothing comes on top.
LEMMA EnterKeeps ==
  ASSUME NEW s, Stack(s), NEW m \in Seq(Nat), Pushes(s, m), NEW f \in Frame, ~f.pushed,
         Len(s) = 2 * Len(m) => f.at \notin Callees,
         Len(s) > 2 * Len(m) => OnCall(Top(s), f)
  PROVE  /\ Pushes(Append(s, f), m)
         /\ Place(Append(s, f), m) = IF Len(s) > 2 * Len(m) THEN Place(s, m)
                                     ELSE IF f.at \in Steps THEN f.at ELSE "none"
<1> DEFINE k == 2 * Len(m)
           n == Len(s)
           t == Append(s, f)
<1>1. s \in Seq(Frame) /\ n \in Nat /\ Len(m) \in Nat /\ k \in Nat /\ k <= n
  BY DEF Stack, Pushes
<1>2. /\ Len(t) = n + 1
      /\ t[n + 1] = f
      /\ \A i \in 1..n : t[i] = s[i]
  BY <1>1, AppendProperties
<1> HIDE DEF t
<1>3. ASSUME NEW i \in 1..Len(t)
      PROVE  /\ t[i].pushed <=> \E j \in 1..Len(m) : i = 2 * j
             /\ t[i].pushed => t[i].at \in {"system", "line"}
  <2>1. CASE i = n + 1
    BY <1>1, <1>2, <2>1
  <2>2. CASE i # n + 1
    <3>1. i \in 1..n /\ t[i] = s[i]
      BY <1>1, <1>2, <2>2
    <3> QED
      BY <3>1 DEF Pushes
  <2> QED
    BY <2>1, <2>2
<1>4. ASSUME NEW i \in 1..(Len(t) - 1) PROVE OnCall(t[i], t[i + 1])
  <2>1. CASE i = n
    <3>1. t[i] = Top(s) /\ t[i + 1] = f
      BY <1>1, <1>2, <1>4, <2>1 DEF Top
    <3>2. CASE n = k
      <4>1. f.at # "system" /\ f.at # "line"
        BY <3>2 DEF Callees
      <4> QED
        BY <3>1, <4>1 DEF OnCall
    <3>3. CASE n > k
      BY <3>1, <3>3
    <3> QED
      BY <1>1, <3>2, <3>3
  <2>2. CASE i # n
    <3>1. i \in 1..(n - 1) /\ t[i] = s[i] /\ t[i + 1] = s[i + 1]
      BY <1>1, <1>2, <2>2
    <3> QED
      BY <3>1 DEF Pushes
  <2> QED
    BY <2>1, <2>2
<1>5. ASSUME NEW j \in 1..Len(m), t[2 * j - 1].at = "direct"
      PROVE  m[j] = Mark(m, j - 1) + 2
  <2>1. 2 * j - 1 \in 1..n
    BY <1>1
  <2> QED
    BY <1>2, <1>5, <2>1 DEF Pushes
<1>6. Pushes(t, m)
  BY <1>1, <1>2, <1>3, <1>4, <1>5 DEF Pushes
<1>7. CASE n > k
  <2>1. k + 1 \in 1..n /\ Len(t) > k
    BY <1>1, <1>2, <1>7
  <2> QED
    BY <1>2, <1>6, <1>7, <2>1 DEF Place, t
<1>8. CASE n = k
  <2>1. t[k + 1] = f /\ Len(t) > k /\ ~(n > k)
    BY <1>1, <1>2, <1>8
  <2> QED
    BY <1>6, <2>1 DEF Place, t
<1> QED
  BY <1>1, <1>7, <1>8

\* The topmost frame goes, one that has pushed nothing.
LEMMA LeaveKeeps ==
  ASSUME NEW s, Stack(s), NEW m \in Seq(Nat), Pushes(s, m), Len(s) > 2 * Len(m)
  PROVE  /\ Pushes(Front(s), m)
         /\ Stack(Front(s))
         /\ Len(Front(s)) = Len(s) - 1
         /\ Place(Front(s), m) = IF Len(s) = 2 * Len(m) + 1 THEN "none" ELSE Place(s, m)
<1> DEFINE k == 2 * Len(m)
           n == Len(s)
           t == Front(s)
<1>1. s \in Seq(Frame) /\ n \in Nat /\ Len(m) \in Nat /\ k \in Nat /\ k < n /\ s # <<>>
  BY DEF Stack
<1>2. /\ Len(t) = n - 1
      /\ \A i \in 1..(n - 1) : t[i] = s[i]
      /\ Stack(t)
  BY <1>1, Removed
<1> HIDE DEF t
<1>3. ASSUME NEW i \in 1..Len(t)
      PROVE  /\ t[i].pushed <=> \E j \in 1..Len(m) : i = 2 * j
             /\ t[i].pushed => t[i].at \in {"system", "line"}
  <2>1. i \in 1..n /\ t[i] = s[i]
    BY <1>1, <1>2
  <2> QED
    BY <2>1 DEF Pushes
<1>4. ASSUME NEW i \in 1..(Len(t) - 1) PROVE OnCall(t[i], t[i + 1])
  <2>1. i \in 1..(n - 1) /\ t[i] = s[i] /\ t[i + 1] = s[i + 1]
    BY <1>1, <1>2
  <2> QED
    BY <2>1 DEF Pushes
<1>5. ASSUME NEW j \in 1..Len(m), t[2 * j - 1].at = "direct"
      PROVE  m[j] = Mark(m, j - 1) + 2
  <2>1. 2 * j - 1 \in 1..(n - 1)
    BY <1>1
  <2> QED
    BY <1>2, <1>5, <2>1 DEF Pushes
<1>6. Pushes(t, m)
  BY <1>1, <1>2, <1>3, <1>4, <1>5 DEF Pushes
<1>7. CASE n = k + 1
  <2>1. ~(Len(t) > k)
    BY <1>1, <1>2, <1>7
  <2> QED
    BY <1>2, <1>6, <1>7, <2>1 DEF Place, t
<1>8. CASE n > k + 1
  <2>1. k + 1 \in 1..(n - 1) /\ Len(t) > k /\ n # k + 1
    BY <1>1, <1>2, <1>8
  <2> QED
    BY <1>1, <1>2, <1>6, <2>1 DEF Place, t
<1> QED
  BY <1>1, <1>7, <1>8

\* A function that has been called pushes the state.
LEMMA PushKeeps ==
  ASSUME NEW s, Stack(s), NEW m \in Seq(Nat), Pushes(s, m), s # <<>>,
         Top(s).at \in {"system", "line"}, ~Top(s).pushed,
         NEW f \in Frame, f.pushed, f.at = Top(s).at,
         NEW n \in Seq(Nat), Len(n) = Len(m) + 1, \A j \in 1..Len(m) : n[j] = m[j],
         Place(s, m) = "direct" => n[Len(m) + 1] = Highest(m) + 2
  PROVE  /\ Pushes(Append(Front(s), f), n)
         /\ Place(Append(Front(s), f), n) = "none"
<1> DEFINE k == Len(m)
           t == Append(Front(s), f)
<1>0. Len(s) \in Nat
  BY DEF Stack
<1>1. /\ s \in Seq(Frame) /\ Len(s) \in Nat /\ k \in Nat
      /\ Len(s) = 2 * k + 2
      /\ s[2 * k + 1].at \in Steps
  <2>1. Top(s).at \in Callees
    BY DEF Callees
  <2>2. Len(s) = 2 * k + 2 /\ s[2 * k + 1].at \in Steps /\ 2 * k \in Nat
    BY <2>1, Shape
  <2> QED
    BY <2>2 DEF Stack
<1>2. /\ Len(t) = Len(s)
      /\ t[Len(s)] = f
      /\ \A i \in 1..(Len(s) - 1) : t[i] = s[i]
  <2>1. /\ Len(Front(s)) = Len(s) - 1 /\ Front(s) \in Seq(Frame)
        /\ \A i \in 1..(Len(s) - 1) : Front(s)[i] = s[i]
    BY Removed DEF Stack
  <2> DEFINE u == Front(s)
  <2> HIDE DEF u
  <2>2. /\ Len(Append(u, f)) = Len(u) + 1
        /\ Append(u, f)[Len(u) + 1] = f
        /\ \A i \in 1..Len(u) : Append(u, f)[i] = u[i]
    BY <2>1, AppendProperties DEF u
  <2> QED
    BY <1>1, <2>1, <2>2 DEF u
<1> HIDE DEF t
<1>3. ASSUME NEW i \in 1..Len(t)
      PROVE  /\ t[i].pushed <=> \E j \in 1..Len(n) : i = 2 * j
             /\ t[i].pushed => t[i].at \in {"system", "line"}
  <2>1. CASE i = Len(s)
    <3>1. t[i] = f /\ k + 1 \in 1..Len(n) /\ i = 2 * (k + 1)
      BY <1>1, <1>2, <2>1
    <3> QED
      BY <3>1
  <2>2. CASE i # Len(s)
    <3>1. i \in 1..(Len(s) - 1) /\ t[i] = s[i] /\ i \in 1..Len(s)
      <4>1. i \in 1..(Len(s) - 1) /\ i \in 1..Len(s)
        BY <1>0, <1>2, <2>2
      <4> QED
        BY <1>2, <4>1
    <3>2. ASSUME NEW j \in 1..Len(n), i = 2 * j PROVE j \in 1..k
      BY <1>1, <3>1, <3>2
    <3>3. (\E j \in 1..Len(n) : i = 2 * j) <=> \E j \in 1..k : i = 2 * j
      <4>1. 1..k \subseteq 1..Len(n)
        BY <1>1
      <4> QED
        BY <3>2, <4>1
    <3> QED
      BY <3>1, <3>3 DEF Pushes
  <2> QED
    BY <2>1, <2>2
<1>4. ASSUME NEW i \in 1..(Len(t) - 1) PROVE OnCall(t[i], t[i + 1])
  <2>1. i \in 1..(Len(s) - 1) /\ t[i] = s[i] /\ OnCall(s[i], s[i + 1])
    BY <1>1, <1>2 DEF Pushes
  <2>2. t[i + 1].at = s[i + 1].at
    <3>1. CASE i = Len(s) - 1
      BY <1>1, <1>2, <3>1 DEF Top
    <3>2. CASE i # Len(s) - 1
      <4>1. i + 1 \in 1..(Len(s) - 1)
        BY <1>0, <1>2, <3>2
      <4> QED
        BY <1>2, <4>1
    <3> QED
      BY <3>1, <3>2
  <2> QED
    BY <2>1, <2>2 DEF OnCall
<1>5. ASSUME NEW j \in 1..Len(n), t[2 * j - 1].at = "direct"
      PROVE  n[j] = Mark(n, j - 1) + 2
  <2>1. j \in Nat /\ 2 * j - 1 \in 1..(Len(s) - 1)
    BY <1>1
  <2>2. s[2 * j - 1].at = "direct"
    BY <1>2, <1>5, <2>1
  <2>3. CASE j = k + 1
    <3>1. Place(s, m) = "direct"
      <4>1. 2 * j - 1 = 2 * k + 1 /\ Len(s) > 2 * Len(m)
        BY <1>1, <2>3
      <4> QED
        BY <1>1, <2>2, <4>1 DEF Place
    <3>2. Mark(n, k) = Highest(m)
      <4>1. k # 0 => k \in 1..Len(m) /\ n[k] = m[k]
        BY <1>1
      <4> QED
        BY <4>1 DEF Highest, Mark
    <3> QED
      BY <1>1, <2>3, <3>1, <3>2
  <2>4. CASE j # k + 1
    <3>1. j \in 1..k /\ n[j] = m[j] /\ m[j] = Mark(m, j - 1) + 2
      BY <1>1, <2>2, <2>4, SMTT(30) DEF Pushes
    <3>2. Mark(n, j - 1) = Mark(m, j - 1)
      <4>1. j - 1 # 0 => j - 1 \in 1..Len(m)
        BY <1>1, <3>1
      <4>2. j - 1 # 0 => n[j - 1] = m[j - 1]
        BY <4>1
      <4> QED
        BY <4>2 DEF Mark
    <3> QED
      BY <3>1, <3>2
  <2> QED
    BY <2>3, <2>4
<1>6. 2 * Len(n) = Len(t)
  BY <1>1, <1>2
<1>7. Pushes(t, n)
  BY <1>1, <1>2, <1>3, <1>4, <1>5, <1>6 DEF Pushes
<1>8. Place(t, n) = "none"
  BY <1>1, <1>2, <1>6 DEF Place
<1> QED
  BY <1>7, <1>8 DEF t

\* The function that has pushed the state pops it.
LEMMA PopKeeps ==
  ASSUME NEW s, Stack(s), NEW m \in Seq(Nat), Pushes(s, m), s # <<>>, Top(s).pushed,
         NEW f \in Frame, ~f.pushed, f.at = Top(s).at,
         NEW n \in Seq(Nat), Len(n) = Len(m) - 1, \A j \in 1..(Len(m) - 1) : n[j] = m[j]
  PROVE  /\ Pushes(Append(Front(s), f), n)
         /\ Place(Append(Front(s), f), n) = s[Len(s) - 1].at
         /\ s[Len(s) - 1].at \in {"next", "direct"}
         /\ s[Len(s) - 1].at = "direct" => Highest(m) = Highest(n) + 2
<1> DEFINE k == Len(n)
           t == Append(Front(s), f)
<1>0. Len(s) \in Nat
  BY DEF Stack
<1>1. /\ s \in Seq(Frame) /\ Len(s) \in Nat /\ k \in Nat
      /\ Len(m) = k + 1
      /\ Len(s) = 2 * k + 2
  <2>1. Len(s) = 2 * Len(m) /\ m # <<>> /\ Len(m) \in Nat
    BY Shape
  <2> QED
    BY <2>1 DEF Stack
<1>2. /\ Len(t) = Len(s)
      /\ t[Len(s)] = f
      /\ \A i \in 1..(Len(s) - 1) : t[i] = s[i]
  <2>1. /\ Len(Front(s)) = Len(s) - 1 /\ Front(s) \in Seq(Frame)
        /\ \A i \in 1..(Len(s) - 1) : Front(s)[i] = s[i]
    BY Removed DEF Stack
  <2> DEFINE u == Front(s)
  <2> HIDE DEF u
  <2>2. /\ Len(Append(u, f)) = Len(u) + 1
        /\ Append(u, f)[Len(u) + 1] = f
        /\ \A i \in 1..Len(u) : Append(u, f)[i] = u[i]
    BY <2>1, AppendProperties DEF u
  <2> QED
    BY <1>1, <2>1, <2>2 DEF u
<1> HIDE DEF t
<1>3. ASSUME NEW i \in 1..Len(t)
      PROVE  /\ t[i].pushed <=> \E j \in 1..k : i = 2 * j
             /\ t[i].pushed => t[i].at \in {"system", "line"}
  <2>1. CASE i = Len(s)
    BY <1>1, <1>2, <2>1
  <2>2. CASE i # Len(s)
    <3>1. i \in 1..(Len(s) - 1) /\ t[i] = s[i] /\ i \in 1..Len(s)
      <4>1. i \in 1..(Len(s) - 1) /\ i \in 1..Len(s)
        BY <1>0, <1>2, <2>2
      <4> QED
        BY <1>2, <4>1
    <3>2. ASSUME NEW j \in 1..Len(m), i = 2 * j PROVE j \in 1..k
      BY <1>1, <3>1, <3>2
    <3>3. (\E j \in 1..Len(m) : i = 2 * j) <=> \E j \in 1..k : i = 2 * j
      <4>1. 1..k \subseteq 1..Len(m)
        BY <1>1
      <4> QED
        BY <3>2, <4>1
    <3> QED
      BY <3>1, <3>3 DEF Pushes
  <2> QED
    BY <2>1, <2>2
<1>4. ASSUME NEW i \in 1..(Len(t) - 1) PROVE OnCall(t[i], t[i + 1])
  <2>1. i \in 1..(Len(s) - 1) /\ t[i] = s[i] /\ OnCall(s[i], s[i + 1])
    BY <1>1, <1>2 DEF Pushes
  <2>2. t[i + 1].at = s[i + 1].at
    <3>1. CASE i = Len(s) - 1
      BY <1>1, <1>2, <3>1 DEF Top
    <3>2. CASE i # Len(s) - 1
      <4>1. i + 1 \in 1..(Len(s) - 1)
        BY <1>0, <1>2, <3>2
      <4> QED
        BY <1>2, <4>1
    <3> QED
      BY <3>1, <3>2
  <2> QED
    BY <2>1, <2>2 DEF OnCall
<1>5. ASSUME NEW j \in 1..k, t[2 * j - 1].at = "direct"
      PROVE  n[j] = Mark(n, j - 1) + 2
  <2>1. j \in Nat /\ 2 * j - 1 \in 1..(Len(s) - 1) /\ j \in 1..Len(m)
    BY <1>1
  <2>2. m[j] = Mark(m, j - 1) + 2
    BY <1>2, <1>5, <2>1 DEF Pushes
  <2>3. n[j] = m[j] /\ (j - 1 # 0 => n[j - 1] = m[j - 1])
    <3>1. j \in 1..(Len(m) - 1) /\ (j - 1 # 0 => j - 1 \in 1..(Len(m) - 1))
      BY <1>1, <2>1
    <3> QED
      BY <3>1
  <2>4. Mark(n, j - 1) = Mark(m, j - 1)
    BY <2>3 DEF Mark
  <2> QED
    BY <2>2, <2>3, <2>4
<1>6. Pushes(t, n)
  BY <1>1, <1>2, <1>3, <1>4, <1>5 DEF Pushes
<1>7. /\ s[Len(s) - 1].at \in {"next", "direct"}
      /\ t[2 * k + 1] = s[Len(s) - 1]
  <2>1. /\ Len(s) \in 1..Len(s) /\ Len(s) - 1 \in 1..(Len(s) - 1) /\ (Len(s) - 1) + 1 = Len(s)
        /\ Len(s) - 1 = 2 * k + 1
    BY <1>1
  <2>2. Top(s).at \in {"system", "line"} /\ OnCall(s[Len(s) - 1], Top(s))
    BY <2>1 DEF Pushes, Top
  <2> QED
    BY <1>2, <2>1, <2>2 DEF OnCall
<1>8. Place(t, n) = s[Len(s) - 1].at
  <2>1. Len(t) > 2 * Len(n)
    BY <1>1, <1>2
  <2> QED
    BY <1>7, <2>1 DEF Place, Steps
<1>9. ASSUME s[Len(s) - 1].at = "direct" PROVE Highest(m) = Highest(n) + 2
  <2> DEFINE j == k + 1
  <2>1. j \in 1..Len(m) /\ 2 * j - 1 = Len(s) - 1 /\ j - 1 = k
    BY <1>1
  <2> HIDE DEF j
  <2>2. m[j] = Mark(m, j - 1) + 2
    BY <1>9, <2>1 DEF Pushes
  <2>3. k # 0 => n[k] = m[k]
    <3>1. k # 0 => k \in 1..(Len(m) - 1)
      BY <1>1
    <3> QED
      BY <3>1
  <2>4. Mark(m, k) = Highest(n) /\ Highest(m) = m[j]
    BY <1>1, <2>3 DEF Highest, Mark, j
  <2> QED
    BY <2>1, <2>2, <2>4
<1> QED
  BY <1>6, <1>7, <1>8, <1>9 DEF t

-----------------------------------------------------------------------------
\* The levels of nested executions

\* Where an Execute is, and what it has to go on with: e is its place, h the topmost
\* marker and n the height of the call stack.  The program pointer is set where script
\* runs; where it is not, or where there is nothing to clean up, the call stack ends at
\* the marker.
Goes(e, h, n, st, f, pp) ==
  /\ st \in Statuses
  /\ f \in {"none", "plain", "try"}
  /\ f = "none" => st = "uninitialized" /\ e = "none"
  /\ st \in {"uninitialized", "finished"} \/ ~pp => n = h
  /\ e \in {"next", "returned"} => pp
  /\ e = "direct" => ~pp

LevelsAt(m) ==
  /\ Marked(callStack, m)
  /\ Pushes(native, m)
  /\ Goes(Place(native, m), Highest(m), Len(callStack), status, currentFunction,
          programPointer)

Levels == \E m \in Seq(Nat) : LevelsAt(m)

LEMMA InitialLevels == Init => Levels
<1> SUFFICES ASSUME Init PROVE Levels
  OBVIOUS
<1>1. Len(<<>>) = 0 /\ <<>> \in Seq(Nat) /\ <<>> \in Seq(Entries)
  OBVIOUS
<1>2. Marked(callStack, <<>>)
  BY <1>1 DEF Marked, Init
<1>3. Pushes(native, <<>>)
  BY <1>1 DEF Pushes, Init
<1>4. Place(native, <<>>) = "none" /\ Highest(<<>>) = 0
  BY <1>1 DEF Place, Highest, Mark, Init
<1>5. LevelsAt(<<>>)
  BY <1>1, <1>2, <1>3, <1>4 DEF LevelsAt, Goes, Statuses, Init
<1> QED
  BY <1>1, <1>5 DEF Levels

\* There are as many markers as there are pushed states.
LEMMA ImpliedTypes ==
  ASSUME Stack(native), Levels
  PROVE  TypeOK
<1>1. PICK m \in Seq(Nat) : LevelsAt(m)
  BY DEF Levels
<1> DEFINE k == Len(m)
           pushed == {i \in 1..Len(native) : native[i].pushed}
<1>2. k \in Nat /\ Len(native) \in Nat /\ 2 * k <= Len(native)
  BY <1>1 DEF LevelsAt, Pushes, Stack
<1>3. IsFiniteSet(1..k) /\ Cardinality(1..k) = k
  <2> HIDE DEF k
  <2>1. Cardinality(1..k) = IF 1 > k THEN 0 ELSE k - 1 + 1
    BY <1>2, FS_Interval
  <2>2. IsFiniteSet(1..k)
    BY <1>2, FS_Interval
  <2> QED
    BY <1>2, <2>1, <2>2
<1>4. Cardinality(Markers) = k
  <2> DEFINE b == [j \in 1..k |-> m[j]]
  <2>1. Markers = {m[j] : j \in 1..k}
    BY <1>1 DEF LevelsAt, Marked, Markers
  <2>2. \A i, j \in 1..k : i # j => m[i] # m[j]
    <3>1. \A i \in 1..k : m[i] \in Nat
      BY <1>2
    <3>2. \A i, j \in 1..k : i < j => m[i] + 2 <= m[j]
      BY <1>1 DEF LevelsAt, Marked
    <3> HIDE DEF k
    <3>3. ASSUME NEW i \in 1..k, NEW j \in 1..k, i # j PROVE m[i] # m[j]
      <4>1. i < j \/ j < i
        BY <1>2, <3>3
      <4>2. m[i] + 2 <= m[j] \/ m[j] + 2 <= m[i]
        BY <3>2, <4>1
      <4> QED
        BY <3>1, <4>2
    <3> QED
      BY <3>3
  <2>3. b \in Bijection(1..k, Markers)
    BY <2>1, <2>2 DEF Bijection, Injection, Surjection, IsInjective
  <2>4. ExistsBijection(1..k, Markers)
    BY <2>3 DEF ExistsBijection
  <2> QED
    BY <1>3, <2>4, FS_Bijection
<1>5. Cardinality(pushed) = k
  <2> DEFINE b == [j \in 1..k |-> 2 * j]
  <2>1. pushed = {2 * j : j \in 1..k}
    <3>1. \A i \in 1..Len(native) : native[i].pushed <=> \E j \in 1..k : i = 2 * j
      BY <1>1 DEF LevelsAt, Pushes
    <3>2. \A j \in 1..k : 2 * j \in 1..Len(native)
      BY <1>2
    <3> QED
      BY <3>1, <3>2
  <2>2. \A i, j \in 1..k : i # j => 2 * i # 2 * j
    OBVIOUS
  <2> HIDE DEF pushed
  <2>3. b \in Bijection(1..k, pushed)
    BY <2>1, <2>2 DEF Bijection, Injection, Surjection, IsInjective
  <2>4. ExistsBijection(1..k, pushed)
    BY <2>3 DEF ExistsBijection
  <2> QED
    BY <1>3, <2>4, FS_Bijection
<1> QED
  BY <1>1, <1>4, <1>5 DEF TypeOK, LevelsAt, Goes, Marked, Entries, Depth

\* What is known of a level.
LEMMA Known ==
  ASSUME NEW m \in Seq(Nat), LevelsAt(m)
  PROVE  /\ Marked(callStack, m) /\ Pushes(native, m)
         /\ TopMarker = Highest(m)
         /\ Len(callStack) \in Nat
         /\ Highest(m) \in 0..Len(callStack)
         /\ SameUpTo(Highest(m), callStack, callStack)
         /\ SameUpTo(Highest(m), callStack, UpToMarker)
         /\ Len(UpToMarker) = Highest(m)
         /\ status \in Statuses
         /\ currentFunction \in {"none", "plain", "try"}
         /\ currentFunction = "none" => status = "uninitialized" /\ Place(native, m) = "none"
         /\ status \in {"uninitialized", "finished"} => Len(callStack) = Highest(m)
         /\ ~programPointer => Len(callStack) = Highest(m)
         /\ Place(native, m) \in {"next", "returned"} => programPointer
         /\ Place(native, m) = "direct" => ~programPointer
<1>1. Marked(callStack, m) /\ Pushes(native, m)
  BY DEF LevelsAt
<1>2. /\ TopMarker = Highest(m)
      /\ Highest(m) \in 0..Len(callStack)
      /\ SameUpTo(Highest(m), callStack, callStack)
  BY <1>1, TopIsHighest, HighestMark
<1>3. Len(callStack) \in Nat
  BY <1>1 DEF Marked
<1>4. Highest(m) \in Highest(m)..Len(callStack)
  BY <1>2, <1>3
<1>5. SameUpTo(Highest(m), callStack, UpToMarker) /\ Len(UpToMarker) = Highest(m)
  BY <1>1, <1>2, <1>4, Cut DEF UpToMarker
<1> QED
  BY <1>1, <1>2, <1>3, <1>5 DEF LevelsAt, Goes

\* What is to be shown of a step that pushes or pops nothing.
LEMMA LevelsKept ==
  ASSUME NEW m \in Seq(Nat), LevelsAt(m),
         SameUpTo(Highest(m), callStack, callStack'),
         Pushes(native', m),
         Goes(Place(native', m), Highest(m), Len(callStack'), status', currentFunction',
              programPointer')
  PROVE  LevelsAt(m)'
<1>1. Marked(callStack', m)
  BY MarkedAgain DEF LevelsAt
<1> QED
  BY <1>1 DEF LevelsAt

\* Where the topmost frame is.
LEMMA Placed ==
  ASSUME IInv, NEW m \in Seq(Nat), LevelsAt(m)
  PROVE  /\ Stack(native)
         /\ Len(native) \in Nat /\ 2 * Len(m) \in Nat
         /\ Len(native) = 2 * Len(m) => Place(native, m) = "none"
         /\ native = <<>> => Len(native) = 2 * Len(m)
         /\ native # <<>> =>
              /\ Top(native).pushed => Len(native) = 2 * Len(m) /\ m # <<>>
              /\ Top(native).at \in Steps =>
                   Len(native) = 2 * Len(m) + 1 /\ Place(native, m) = Top(native).at
              /\ Top(native).at \in Callees /\ ~Top(native).pushed =>
                   /\ Len(native) = 2 * Len(m) + 2
                   /\ Place(native, m) \in Steps
                   /\ Place(native, m) = native[Len(native) - 1].at
                   /\ Top(native).at = "system" => Place(native, m) \in {"next", "direct"}
                   /\ Top(native).at = "line" => Place(native, m) = "next"
              /\ Top(native).at \in Flags =>
                   /\ Len(native) > 2 * Len(m)
                   /\ Len(native) = 2 * Len(m) + 1 => Place(native, m) = "none"
<1> DEFINE k == 2 * Len(m)
<1>1. Stack(native) /\ Pushes(native, m)
  BY DEF IInv, Holds, LevelsAt
<1>2. /\ k \in Nat
      /\ Len(native) \in k..(k + 3)
      /\ native = <<>> => k = 0
      /\ Len(native) > k + 1 => native[k + 1].at \in Steps
      /\ native # <<>> =>
           /\ Top(native).pushed => Len(native) = k /\ m # <<>>
           /\ Top(native).at \in Callees /\ ~Top(native).pushed => Len(native) = k + 2
           /\ Top(native).at \in Steps => Len(native) = k + 1
           /\ Top(native).at \in Flags => Len(native) > k
  BY <1>1, Shape
<1>3. Len(native) \in Nat
  BY <1>1 DEF Stack
<1>4. Len(native) > k /\ native[k + 1].at \in Steps => Place(native, m) = native[k + 1].at
  BY DEF Place
<1>5. ~(Len(native) > k /\ native[k + 1].at \in Steps) => Place(native, m) = "none"
  BY DEF Place
<1> HIDE DEF k
<1>6. ASSUME native # <<>>, Top(native).at \in Steps
      PROVE  Place(native, m) = Top(native).at
  BY <1>2, <1>3, <1>4, <1>6 DEF Top
<1>7. ASSUME native # <<>>, Top(native).at \in Callees, ~Top(native).pushed
      PROVE  /\ Place(native, m) \in Steps
             /\ Place(native, m) = native[Len(native) - 1].at
             /\ Top(native).at = "system" => Place(native, m) \in {"next", "direct"}
             /\ Top(native).at = "line" => Place(native, m) = "next"
  <2>1. /\ Len(native) = k + 2 /\ Len(native) - 1 = k + 1 /\ Len(native) > k
        /\ k + 1 \in 1..(Len(native) - 1) /\ (k + 1) + 1 = Len(native)
    BY <1>2, <1>3, <1>7
  <2>2. Place(native, m) = native[k + 1].at /\ native[k + 1].at \in Steps
    BY <1>2, <1>3, <1>4, <2>1
  <2>3. OnCall(native[k + 1], native[Len(native)])
    BY <1>1, <2>1 DEF Pushes
  <2> QED
    BY <2>1, <2>2, <2>3 DEF OnCall, Top
<1>8. ASSUME native # <<>>, Top(native).at \in Flags, Len(native) = k + 1
      PROVE  Place(native, m) = "none"
  <2>1. native[k + 1].at \notin Steps
    BY <1>8, Kinds DEF Top
  <2> QED
    BY <1>5, <2>1
<1>9. Len(native) = k => Place(native, m) = "none"
  BY <1>2, <1>3, <1>5
<1>10. native = <<>> => Len(native) = k
  BY <1>2
<1> QED
  BY <1>1, <1>2, <1>3, <1>6, <1>7, <1>8, <1>9, <1>10 DEF k

\* The C++ stack after each thing a step may do to it.
LEMMA PlaceMoved ==
  ASSUME IInv, NEW m \in Seq(Nat), LevelsAt(m), Executing, NEW p \in Steps
  PROVE  /\ Pushes(MoveTo(p), m)
         /\ Place(MoveTo(p), m) = p
         /\ \A q \in Callees :
              /\ q = "system" => p \in {"next", "direct"}
              /\ q = "line" => p = "next"
              => LET t == Append(MoveTo(p), [at |-> q, pushed |-> FALSE])
                 IN  Pushes(t, m) /\ Place(t, m) = p
<1> DEFINE f == [at |-> p, pushed |-> FALSE]
           s == Front(native)
           t == Append(s, f)
<1>1. f \in Frame /\ f.at = p /\ ~f.pushed /\ f.at \notin Callees
  BY Kinds DEF Frame
<1>2. /\ Stack(native) /\ native # <<>> /\ Top(native).at \in Steps
      /\ Len(native) = 2 * Len(m) + 1 /\ 2 * Len(m) \in Nat
      /\ Pushes(native, m)
  BY Placed, Known DEF Executing
<1>3. Pushes(s, m) /\ Stack(s) /\ Len(s) = 2 * Len(m)
  <2>1. Len(native) > 2 * Len(m) /\ Len(native) - 1 = 2 * Len(m)
    BY <1>2
  <2> QED
    BY <1>2, <2>1, LeaveKeeps
<1>4. /\ Stack(t) /\ Len(t) = 2 * Len(m) + 1 /\ t[2 * Len(m) + 1] = f
  <2>1. SameKind(native[Len(native)], f)
    BY <1>1, <1>2 DEF SameKind, Top
  <2>2. Stack(t) /\ Len(t) = Len(native) /\ t[Len(native)] = f
    BY <1>1, <1>2, <2>1, Replaced
  <2> QED
    BY <1>2, <2>2
<1> HIDE DEF s, f
<1>5. ~(Len(s) > 2 * Len(m))
  BY <1>2, <1>3
<1>6. Pushes(t, m) /\ Place(t, m) = p
  BY <1>1, <1>3, <1>5, EnterKeeps
<1> HIDE DEF t
<1>7. ASSUME NEW q \in Callees,
             q = "system" => p \in {"next", "direct"},
             q = "line" => p = "next"
      PROVE  LET u == Append(t, [at |-> q, pushed |-> FALSE])
             IN  Pushes(u, m) /\ Place(u, m) = p
  <2> DEFINE g == [at |-> q, pushed |-> FALSE]
  <2>1. g \in Frame /\ g.at = q /\ ~g.pushed
    BY DEF Frame
  <2> HIDE DEF g
  <2>2. Top(t) = f /\ Len(t) > 2 * Len(m) /\ Len(t) # 2 * Len(m)
    BY <1>2, <1>4 DEF Top
  <2>3. OnCall(Top(t), g)
    BY <1>1, <1>7, <2>1, <2>2 DEF OnCall
  <2>4. Pushes(Append(t, g), m) /\ Place(Append(t, g), m) = p
    BY <1>4, <1>6, <2>1, <2>2, <2>3, EnterKeeps
  <2> QED
    BY <2>4 DEF g
<1>8. MoveTo(p) = t
  BY DEF MoveTo, t, s, f
<1> QED
  BY <1>6, <1>7, <1>8

LEMMA PlaceReturned ==
  ASSUME IInv, NEW m \in Seq(Nat), LevelsAt(m), native # <<>>,
         Top(native).at \in Callees, ~Top(native).pushed, NEW p \in Steps
  PROVE  Pushes(Back(p), m) /\ Place(Back(p), m) = p
<1> DEFINE f == [at |-> p, pushed |-> FALSE]
           s == Front(native)
           t == Front(s)
<1>1. f \in Frame /\ f.at = p /\ ~f.pushed /\ f.at \notin Callees
  BY Kinds DEF Frame
<1>2. /\ Stack(native) /\ Pushes(native, m)
      /\ Len(native) = 2 * Len(m) + 2 /\ 2 * Len(m) \in Nat
  BY Placed, Known
<1>3. Pushes(s, m) /\ Stack(s) /\ Len(s) = 2 * Len(m) + 1
  <2>1. Len(native) > 2 * Len(m) /\ Len(native) - 1 = 2 * Len(m) + 1
    BY <1>2
  <2> QED
    BY <1>2, <2>1, LeaveKeeps
<1>4. Pushes(t, m) /\ Stack(t) /\ Len(t) = 2 * Len(m)
  <2> HIDE DEF s
  <2>1. Len(s) > 2 * Len(m) /\ Len(s) - 1 = 2 * Len(m)
    BY <1>2, <1>3
  <2> QED
    BY <1>3, <2>1, LeaveKeeps
<1>5. Back(p) = Append(t, f)
  <2>1. Len(native) >= 2 /\ native \in Seq(Frame)
    BY <1>2 DEF Stack
  <2> QED
    BY <2>1, FrontTwice DEF Back
<1> HIDE DEF t, f
<1>6. ~(Len(t) > 2 * Len(m))
  BY <1>2, <1>4
<1> QED
  BY <1>1, <1>4, <1>5, <1>6, EnterKeeps

-----------------------------------------------------------------------------
\* Prefixes

LEMMA LargestOf ==
  ASSUME NEW n \in Nat, NEW T \in SUBSET (0..n), T # {}
  PROVE  \E x \in T : \A y \in T : y <= x
<1> DEFINE D == {i \in Nat : \E x \in T : i = n - x}
           R == OpToRel(<, Nat)
<1>1. \A x \in T : n - x \in D
  OBVIOUS
<1>2. D \in SUBSET Nat /\ D # {}
  BY <1>1
<1>3. \E d \in D : \A e \in D : <<e, d>> \notin R
  <2>1. IsWellFoundedOn(R, Nat)
    BY NatLessThanWellFounded
  <2> HIDE DEF R, D
  <2> QED
    BY <1>2, <2>1, WFMin, Zenon
<1>4. PICK d \in D : \A e \in D : <<e, d>> \notin R
  BY <1>3
<1>5. PICK x \in T : d = n - x
  OBVIOUS
<1>6. \A a, b \in Nat : a < b => <<a, b>> \in R
  BY DEF OpToRel
<1> HIDE DEF R
<1>7. ASSUME NEW y \in T PROVE y <= x
  <2>1. n - y \in D /\ n - y \in Nat /\ d \in Nat
    BY <1>1
  <2>2. ~(n - y < d)
    BY <1>4, <1>6, <2>1
  <2> QED
    BY <1>5, <2>1, <2>2
<1> QED
  BY <1>7

LEMMA PrefixUpTo ==
  ASSUME NEW S, NEW s \in Seq(S), NEW t \in Seq(S), NEW h \in Nat, h <= Len(s), h <= Len(t),
         \A i \in 1..h : t[i] = s[i]
  PROVE  IsPrefix(SubSeq(s, 1, h), t)
<1> DEFINE p == SubSeq(s, 1, h)
           q == SubSeq(t, 1, h)
<1>1. (\A i \in 1..h : s[i] \in S) /\ (\A i \in 1..h : t[i] \in S)
  OBVIOUS
<1>2. /\ p \in Seq(S) /\ q \in Seq(S)
      /\ Len(p) = IF 1 <= h THEN h - 1 + 1 ELSE 0
      /\ Len(q) = IF 1 <= h THEN h - 1 + 1 ELSE 0
      /\ \A i \in 1..(h - 1 + 1) : p[i] = s[1 + i - 1]
      /\ \A i \in 1..(h - 1 + 1) : q[i] = t[1 + i - 1]
  BY <1>1, SubSeqProperties
<1> HIDE DEF p, q
<1>3. Len(p) = h /\ Len(q) = h /\ \A i \in 1..h : p[i] = q[i]
  BY <1>2
<1>4. p = q
  BY <1>2, <1>3, SeqEqual
<1>5. SubSeq(p, 1, Len(p)) = p
  BY <1>2, SubSeqFull
<1>6. SubSeq(t, 1, Len(p)) = q
  BY <1>3 DEF q
<1> QED
  BY <1>3, <1>4, <1>5, <1>6 DEF IsPrefix, p

LEMMA PrefixOfPrefix ==
  ASSUME NEW S, NEW s \in Seq(S), NEW h \in Nat, h <= Len(s), h - 2 \in Nat
  PROVE  /\ SubSeq(SubSeq(s, 1, h), 1, h - 2) = SubSeq(s, 1, h - 2)
         /\ SubSeq(s, 1, h)[h - 1] = s[h - 1]
<1> DEFINE p == SubSeq(s, 1, h)
           a == SubSeq(p, 1, h - 2)
           b == SubSeq(s, 1, h - 2)
<1>1. \A i \in 1..h : s[i] \in S
  OBVIOUS
<1>2. /\ p \in Seq(S)
      /\ Len(p) = IF 1 <= h THEN h - 1 + 1 ELSE 0
      /\ \A i \in 1..(h - 1 + 1) : p[i] = s[1 + i - 1]
  BY <1>1, SubSeqProperties
<1> HIDE DEF p
<1>3. \A i \in 1..h : p[i] = s[i]
  BY <1>2
<1>4. (\A i \in 1..(h - 2) : p[i] \in S) /\ (\A i \in 1..(h - 2) : s[i] \in S)
  BY <1>1, <1>3
<1>5. /\ a \in Seq(S) /\ b \in Seq(S)
      /\ Len(a) = IF 1 <= h - 2 THEN h - 2 - 1 + 1 ELSE 0
      /\ Len(b) = IF 1 <= h - 2 THEN h - 2 - 1 + 1 ELSE 0
      /\ \A i \in 1..(h - 2 - 1 + 1) : a[i] = p[1 + i - 1]
      /\ \A i \in 1..(h - 2 - 1 + 1) : b[i] = s[1 + i - 1]
  BY <1>4, SubSeqProperties
<1> HIDE DEF a, b
<1>6. Len(a) = Len(b) /\ \A i \in 1..Len(a) : a[i] = b[i]
  BY <1>3, <1>5
<1>7. a = b
  BY <1>5, <1>6, SeqEqual
<1>8. p[h - 1] = s[h - 1]
  BY <1>3
<1> QED
  BY <1>7, <1>8 DEF a, b, p

-----------------------------------------------------------------------------
\* The steps, and the levels

\* A step that pushes and pops nothing: it leaves alone what is below the topmost
\* marker.
KeepsLevels(m) ==
  /\ SameUpTo(Highest(m), callStack, callStack')
  /\ LevelsAt(m)'

\* The application at work: the topmost frame has pushed, and no Execute is above the
\* marker, or it has not, and the Execute below it is.
LEMMA AtWork ==
  ASSUME IInv, NEW m \in Seq(Nat), LevelsAt(m), Application
  PROVE  /\ Owns => Len(native) = 2 * Len(m) /\ Place(native, m) = "none"
         /\ Len(native) \in {2 * Len(m), 2 * Len(m) + 2}
         /\ native # <<>> => Top(native).at \in Callees
<1>1. /\ Stack(native)
      /\ native # <<>> => Top(native).at \in Callees
      /\ native # <<>> /\ Owns => Top(native).pushed
  BY ApplicationRuns
<1> QED
  BY <1>1, Placed

LEMMA LevelsWriter ==
  ASSUME IInv, NEW m \in Seq(Nat), LevelsAt(m), Application, NEW flag,
         native' = AboutToWrite(flag)
  PROVE  Pushes(native', m) /\ Place(native', m) = Place(native, m)
<1> DEFINE f == Writer(flag)
<1>1. /\ native' = Append(native, f)
      /\ f \in Frame /\ f.at \in Flags /\ ~f.pushed
  BY WriterFrame
<1> HIDE DEF f
<1>2. f.at \notin Callees /\ f.at \notin Steps /\ f.at # "system" /\ f.at # "line"
  BY <1>1, Kinds DEF Flags
<1>3. OnCall(Top(native), f)
  BY <1>2 DEF OnCall
<1>4. /\ Pushes(native', m)
      /\ Place(native', m) = IF Len(native) > 2 * Len(m) THEN Place(native, m)
                             ELSE IF f.at \in Steps THEN f.at ELSE "none"
  BY <1>1, <1>2, <1>3, Known, Placed, EnterKeeps
<1> QED
  BY <1>2, <1>4, AtWork, Placed

LEMMA LevelsPrepare ==
  ASSUME IInv, NEW m \in Seq(Nat), LevelsAt(m), Prepare \/ Unprepare
  PROVE  KeepsLevels(m)
<1>1. /\ Application /\ Owns
      /\ native' = native \/ native' = AboutToWrite(lineCallback)
      /\ status' \in {"prepared", "uninitialized"}
      /\ currentFunction' \in {"none", "plain"}
      /\ currentFunction' = "none" => status' = "uninitialized"
      /\ \/ callStack' = callStack /\ status \in {"finished", "uninitialized"}
         \/ callStack' = UpToMarker
  BY DEF Prepare, Unprepare
<1>2. SameUpTo(Highest(m), callStack, callStack') /\ Len(callStack') = Highest(m)
  BY <1>1, Known
<1>3. Place(native', m) = "none" /\ Pushes(native', m)
  BY <1>1, AtWork, Known, LevelsWriter
<1>4. Goes(Place(native', m), Highest(m), Len(callStack'), status', currentFunction',
           programPointer')
  BY <1>1, <1>2, <1>3 DEF Goes, Statuses
<1> QED
  BY <1>1, <1>2, <1>3, <1>4, Known, LevelsKept DEF KeepsLevels

LEMMA LevelsRequest ==
  ASSUME IInv, NEW m \in Seq(Nat), LevelsAt(m), Suspend \/ Abort
  PROVE  KeepsLevels(m)
<1>1. /\ UNCHANGED <<native, callStack, currentFunction, programPointer>>
      /\ status' = status \/ (status = "suspended" /\ status' = "aborted")
  BY DEF Suspend, Abort
<1>2. Goes(Place(native', m), Highest(m), Len(callStack'), status', currentFunction',
           programPointer')
  BY <1>1, Known DEF Goes, Statuses
<1> QED
  BY <1>1, <1>2, Known, LevelsKept DEF KeepsLevels

LEMMA LevelsException ==
  ASSUME IInv, NEW m \in Seq(Nat), LevelsAt(m), NEW b \in BOOLEAN, SetException(b)
  PROVE  KeepsLevels(m)
<1>1. /\ native # <<>> /\ Top(native).at = "system" /\ ~Top(native).pushed
      /\ status' = "exception"
      /\ UNCHANGED <<native, callStack, currentFunction, programPointer>>
  BY Now DEF SetException, CallingSystemFunction, At, RaisesException
<1>2. Place(native, m) \in {"next", "direct"}
  BY <1>1, Placed DEF Callees
<1>3. Goes(Place(native', m), Highest(m), Len(callStack'), status', currentFunction',
           programPointer')
  BY <1>1, <1>2, Known DEF Goes, Statuses
<1> QED
  BY <1>1, <1>3, Known, LevelsKept DEF KeepsLevels

LEMMA LevelsSetLineCallback ==
  ASSUME IInv, NEW m \in Seq(Nat), LevelsAt(m), NEW set \in BOOLEAN, SetLineCallback(set)
  PROVE  KeepsLevels(m)
<1>1. /\ Application
      /\ native' = AboutToWrite(doSuspend \/ set)
      /\ UNCHANGED <<callStack, currentFunction, programPointer, status>>
  BY DEF SetLineCallback
<1>2. Pushes(native', m) /\ Place(native', m) = Place(native, m)
  BY <1>1, LevelsWriter
<1>3. Goes(Place(native', m), Highest(m), Len(callStack'), status', currentFunction',
           programPointer')
  BY <1>1, <1>2, Known DEF Goes
<1> QED
  BY <1>1, <1>2, <1>3, Known, LevelsKept DEF KeepsLevels

LEMMA LevelsWriteFlag ==
  ASSUME IInv, NEW m \in Seq(Nat), LevelsAt(m), WriteFlag
  PROVE  KeepsLevels(m)
<1>1. /\ native # <<>> /\ Top(native).at \in Flags
      /\ native' = Front(native)
      /\ UNCHANGED <<callStack, currentFunction, programPointer, status>>
  BY Now DEF WriteFlag, SettingFlag, At, Flags
<1>2. /\ Len(native) > 2 * Len(m)
      /\ Len(native) = 2 * Len(m) + 1 => Place(native, m) = "none"
  BY <1>1, Placed
<1>3. Pushes(native', m) /\ Place(native', m) = Place(native, m)
  BY <1>1, <1>2, Known, Placed, LeaveKeeps
<1>4. Goes(Place(native', m), Highest(m), Len(callStack'), status', currentFunction',
           programPointer')
  BY <1>1, <1>3, Known DEF Goes
<1> QED
  BY <1>1, <1>3, <1>4, Known, LevelsKept DEF KeepsLevels

LEMMA LevelsExecute ==
  ASSUME IInv, NEW m \in Seq(Nat), LevelsAt(m), Execute
  PROVE  KeepsLevels(m)
<1> DEFINE f == [at |-> "begin", pushed |-> FALSE]
<1>1. /\ Application /\ Owns
      /\ native' = Append(native, f)
      /\ status \in {"prepared", "suspended"} /\ status' = "active"
      /\ UNCHANGED <<callStack, currentFunction, programPointer>>
  BY DEF Execute, Enter
<1>2. f \in Frame /\ f.at = "begin" /\ ~f.pushed
  BY DEF Frame, Steps
<1> HIDE DEF f
<1>3. f.at \notin Callees /\ f.at \in Steps
  BY <1>2 DEF Callees, Steps
<1>4. Len(native) = 2 * Len(m) /\ ~(Len(native) > 2 * Len(m))
  BY <1>1, AtWork, Placed
<1>5. Pushes(native', m) /\ Place(native', m) = "begin"
  BY <1>1, <1>2, <1>3, <1>4, Known, Placed, EnterKeeps
<1>6. Goes(Place(native', m), Highest(m), Len(callStack'), status', currentFunction',
           programPointer')
  BY <1>1, <1>5, Known DEF Goes, Statuses
<1> QED
  BY <1>1, <1>5, <1>6, Known, LevelsKept DEF KeepsLevels

LEMMA LevelsLineCue ==
  ASSUME IInv, NEW m \in Seq(Nat), LevelsAt(m), LineCue, At("begin") \/ At("next")
  PROVE  /\ Pushes(native', m)
         /\ Place(native', m) \in {"next", "returned"}
         /\ status' \in {"active", "suspended"}
<1>1. Executing
  BY AtStep DEF Steps
<1>2. "next" \in Steps /\ "returned" \in Steps /\ "line" \in Callees
  BY DEF Steps, Callees
<1>3. CASE native' = Append(MoveTo("next"), [at |-> "line", pushed |-> FALSE])
           /\ status' = "active"
  BY <1>1, <1>2, <1>3, PlaceMoved
<1>4. CASE native' = MoveTo("returned") /\ status' = "suspended"
  BY <1>1, <1>2, <1>4, PlaceMoved
<1>5. CASE native' = MoveTo("next") /\ status' = "active"
  BY <1>1, <1>2, <1>5, PlaceMoved
<1> QED
  BY <1>3, <1>4, <1>5 DEF LineCue

LEMMA LevelsBegin ==
  ASSUME IInv, NEW m \in Seq(Nat), LevelsAt(m), Begin
  PROVE  KeepsLevels(m)
<1>1. /\ At("begin") /\ Executing /\ Top(native).at = "begin" /\ status = "active"
      /\ UNCHANGED <<callStack, currentFunction>>
  BY AtStep DEF Begin, Steps
<1>2. "next" \in Steps /\ "left" \in Steps /\ "direct" \in Steps /\ "system" \in Callees
  BY DEF Steps, Callees
<1>3. currentFunction # "none"
  BY <1>1, Known
<1>4. CASE RaisesException(TRUE) /\ native' = MoveTo("left") /\ UNCHANGED programPointer
  <2>1. Pushes(native', m) /\ Place(native', m) = "left" /\ status' = "exception"
    BY <1>1, <1>2, <1>4, PlaceMoved DEF RaisesException
  <2>2. Goes(Place(native', m), Highest(m), Len(callStack'), status', currentFunction',
             programPointer')
    BY <1>1, <1>3, <1>4, <2>1, Known DEF Goes, Statuses
  <2> QED
    BY <1>1, <2>1, <2>2, Known, LevelsKept DEF KeepsLevels
<1>5. CASE programPointer /\ native' = MoveTo("next") /\ UNCHANGED <<status, programPointer>>
  <2>1. Pushes(native', m) /\ Place(native', m) = "next"
    BY <1>1, <1>2, <1>5, PlaceMoved
  <2>2. Goes(Place(native', m), Highest(m), Len(callStack'), status', currentFunction',
             programPointer')
    BY <1>1, <1>3, <1>5, <2>1, Known DEF Goes, Statuses
  <2> QED
    BY <1>1, <2>1, <2>2, Known, LevelsKept DEF KeepsLevels
<1>6. CASE LineCue /\ programPointer' = TRUE
  <2>1. /\ Pushes(native', m)
        /\ Place(native', m) \in {"next", "returned"}
        /\ status' \in {"active", "suspended"}
    BY <1>1, <1>6, LevelsLineCue
  <2>2. Goes(Place(native', m), Highest(m), Len(callStack'), status', currentFunction',
             programPointer')
    BY <1>1, <1>3, <1>6, <2>1, Known DEF Goes, Statuses
  <2> QED
    BY <1>1, <2>1, <2>2, Known, LevelsKept DEF KeepsLevels
<1>7. CASE /\ ~programPointer
           /\ native' = Append(MoveTo("direct"), [at |-> "system", pushed |-> FALSE])
           /\ UNCHANGED <<status, programPointer>>
  <2>1. Pushes(native', m) /\ Place(native', m) = "direct"
    BY <1>1, <1>2, <1>7, PlaceMoved
  <2>2. Goes(Place(native', m), Highest(m), Len(callStack'), status', currentFunction',
             programPointer')
    BY <1>1, <1>3, <1>7, <2>1, Known DEF Goes, Statuses
  <2> QED
    BY <1>1, <2>1, <2>2, Known, LevelsKept DEF KeepsLevels
<1> QED
  BY <1>4, <1>5, <1>6, <1>7 DEF Begin

\* What is known where script runs.
LEMMA Running ==
  ASSUME IInv, NEW m \in Seq(Nat), LevelsAt(m), At("next")
  PROVE  /\ Executing
         /\ Place(native, m) = "next"
         /\ native # <<>>
         /\ Top(native).at = "next"
         /\ programPointer
         /\ currentFunction \in {"plain", "try"}
         /\ status = "active"
<1>1. Executing /\ Top(native).at = "next" /\ status = "active"
  BY AtStep DEF Steps
<1>2. native # <<>> /\ Place(native, m) = "next"
  BY <1>1, Placed DEF Executing
<1> QED
  BY <1>1, <1>2, Known

\* An instruction that calls nothing and ends nothing but goes on to a place p.
LEMMA LevelsGoOn ==
  ASSUME NEW m \in Seq(Nat), LevelsAt(m),
         SameUpTo(Highest(m), callStack, callStack'),
         programPointer', currentFunction' \in {"plain", "try"},
         status' \in Statuses \ {"uninitialized"},
         status' = "finished" => Len(callStack') = Highest(m),
         Pushes(native', m), Place(native', m) # "direct"
  PROVE  KeepsLevels(m)
<1>1. Goes(Place(native', m), Highest(m), Len(callStack'), status', currentFunction',
           programPointer')
  BY DEF Goes
<1> QED
  BY <1>1, LevelsKept DEF KeepsLevels

LEMMA LevelsCall ==
  ASSUME IInv, NEW m \in Seq(Nat), LevelsAt(m),
         Line \/ CallScriptFunction \/ CallSystemFunction \/ Throw
  PROVE  KeepsLevels(m)
<1>1. At("next") /\ UNCHANGED programPointer
  BY DEF Line, CallScriptFunction, CallSystemFunction, Throw, Instruction
<1>2. /\ Executing /\ programPointer' /\ status = "active"
      /\ currentFunction \in {"plain", "try"}
      /\ native # <<>> /\ Top(native).at = "next"
      /\ Place(native, m) = "next"
  <2>1. programPointer' = programPointer
    BY <1>1
  <2>2. programPointer
    BY <1>1, Running, Zenon
  <2>3. programPointer'
    BY <2>1, <2>2, Zenon
  <2> QED
    BY <1>1, <2>3, Running
<1>3. "returned" \in Steps /\ "system" \in Callees
  BY DEF Steps, Callees
<1>4. CASE LineCue /\ currentFunction' \in {"plain", "try"}
           /\ SameUpTo(Highest(m), callStack, callStack')
  <2>1. /\ Pushes(native', m)
        /\ Place(native', m) \in {"next", "returned"}
        /\ status' \in {"active", "suspended"}
    BY <1>1, <1>4, LevelsLineCue
  <2>2. status' \in Statuses \ {"uninitialized"} /\ status' # "finished"
        /\ Place(native', m) # "direct"
    BY <2>1 DEF Statuses
  <2> QED
    BY <1>2, <1>4, <2>1, <2>2, LevelsGoOn
<1>5. CASE RaisesException(TRUE) /\ native' = MoveTo("returned")
           /\ UNCHANGED <<currentFunction, callStack>>
  <2>1. Pushes(native', m) /\ Place(native', m) = "returned" /\ status' = "exception"
    BY <1>2, <1>3, <1>5, PlaceMoved DEF RaisesException
  <2>2. status' \in Statuses \ {"uninitialized"} /\ status' # "finished"
        /\ Place(native', m) # "direct"
    BY <2>1 DEF Statuses
  <2>3. SameUpTo(Highest(m), callStack, callStack') /\ currentFunction' \in {"plain", "try"}
    BY <1>2, <1>5, Known
  <2> QED
    BY <1>2, <2>1, <2>2, <2>3, LevelsGoOn
<1>6. CASE CallSystemFunction
  <2> DEFINE f == [at |-> "system", pushed |-> FALSE]
  <2>1. f \in Frame /\ f.at = "system" /\ ~f.pushed
    BY <1>3 DEF Frame
  <2>2. native' = Append(native, f) /\ UNCHANGED <<status, currentFunction, callStack>>
    BY <1>6 DEF CallSystemFunction, Enter
  <2> HIDE DEF f
  <2>3. OnCall(Top(native), f)
    BY <1>2, <2>1 DEF OnCall
  <2>4. Len(native) = 2 * Len(m) + 1 /\ Len(native) > 2 * Len(m)
        /\ Len(native) # 2 * Len(m)
    BY <1>2, Placed DEF Executing
  <2>5. Pushes(native', m) /\ Place(native', m) = "next"
    BY <1>2, <2>1, <2>2, <2>3, <2>4, Known, Placed, EnterKeeps
  <2>6. status' \in Statuses \ {"uninitialized"} /\ status' # "finished"
        /\ Place(native', m) # "direct"
    BY <1>2, <2>2, <2>5 DEF Statuses
  <2>7. SameUpTo(Highest(m), callStack, callStack') /\ currentFunction' \in {"plain", "try"}
    BY <1>2, <2>2, Known
  <2> QED
    BY <1>2, <2>5, <2>6, <2>7, LevelsGoOn
<1>7. CASE Line
  BY <1>2, <1>4, <1>7, Known DEF Line
<1>8. CASE CallScriptFunction
  <2>1. SameUpTo(Highest(m), callStack, Append(callStack, currentFunction))
    BY <1>2, Known, Called
  <2> QED
    BY <1>4, <1>5, <1>8, <2>1 DEF CallScriptFunction
<1>9. CASE Throw
  BY <1>5, <1>9 DEF Throw
<1> QED
  BY <1>6, <1>7, <1>8, <1>9

LEMMA LevelsRet ==
  ASSUME IInv, NEW m \in Seq(Nat), LevelsAt(m), Try \/ Ret
  PROVE  KeepsLevels(m)
<1>1. At("next") /\ UNCHANGED programPointer
  BY DEF Try, Ret, Instruction
<1>2. /\ Executing /\ programPointer' /\ status = "active"
      /\ currentFunction \in {"plain", "try"}
      /\ Place(native, m) = "next"
  <2>1. programPointer' = programPointer
    BY <1>1
  <2>2. programPointer
    BY <1>1, Running, Zenon
  <2>3. programPointer'
    BY <2>1, <2>2, Zenon
  <2> QED
    BY <1>1, <2>3, Running
<1>3. "returned" \in Steps
  BY DEF Steps
<1>4. /\ "active" \in Statuses \ {"uninitialized"} /\ "active" # "finished"
      /\ "finished" \in Statuses \ {"uninitialized"}
  BY DEF Statuses
<1>5. CASE Try
  <2>1. UNCHANGED <<status, callStack, native>> /\ currentFunction' \in {"plain", "try"}
    BY <1>5 DEF Try
  <2> QED
    BY <1>2, <1>4, <2>1, Known, LevelsGoOn
<1>6. CASE /\ Ret /\ Len(callStack) = TopMarker
  <2>1. /\ status' = "finished" /\ native' = MoveTo("returned")
        /\ UNCHANGED <<currentFunction, callStack>>
    BY <1>6 DEF Ret
  <2>2. Pushes(native', m) /\ Place(native', m) = "returned"
    BY <1>2, <1>3, <2>1, PlaceMoved
  <2>3. Len(callStack') = Highest(m)
    BY <1>6, <2>1, Known
  <2> QED
    BY <1>2, <1>4, <2>1, <2>2, <2>3, Known, LevelsGoOn
<1>7. CASE /\ Ret /\ Len(callStack) # TopMarker
  <2>1. /\ currentFunction' = callStack[Len(callStack)]
        /\ callStack' = SubSeq(callStack, 1, Len(callStack) - 1)
        /\ UNCHANGED <<status, native>>
    BY <1>7 DEF Ret, Last, Front
  <2>2. /\ Marked(callStack, m)
        /\ Len(callStack) \in Nat /\ Highest(m) \in 0..Len(callStack)
        /\ Len(callStack) # Highest(m)
    BY <1>7, Known
  <2>3. Len(callStack) - 1 \in Highest(m)..Len(callStack) /\ Len(callStack) \in 1..Len(callStack)
        /\ ~(Len(callStack) <= Highest(m))
    BY <2>2
  <2>4. SameUpTo(Highest(m), callStack, callStack')
    BY <2>1, <2>2, <2>3, Cut
  <2>5. callStack[Len(callStack)] # "marker"
    BY <2>2, <2>3, HighestMark
  <2>6. currentFunction' \in {"plain", "try"}
    BY <2>1, <2>2, <2>3, <2>5 DEF Marked, Entries
  <2> QED
    BY <1>2, <1>4, <2>1, <2>4, <2>6, Known, LevelsGoOn
<1> QED
  BY <1>5, <1>6, <1>7

\* What the script has called returns.
LEMMA LevelsReturn ==
  ASSUME IInv, NEW m \in Seq(Nat), LevelsAt(m),
         SystemFunctionReturns \/ LineCallbackReturns \/ LastLineCallbackReturns
  PROVE  KeepsLevels(m)
<1>1. /\ native # <<>> /\ ~Top(native).pushed
      /\ Top(native).at \in Callees
      /\ UNCHANGED <<callStack, currentFunction, programPointer>>
  BY Now DEF SystemFunctionReturns, LineCallbackReturns, LastLineCallbackReturns,
             Returns, At, Callees
<1>2. Place(native, m) \in Steps /\ Place(native, m) = native[Len(native) - 1].at
  BY <1>1, Placed
<1>3. currentFunction # "none"
  BY <1>2, Known DEF Steps
<1>4. \A p \in Steps : native' = Back(p) => Pushes(native', m) /\ Place(native', m) = p
  BY <1>1, PlaceReturned
<1>5. /\ "left" \in Steps /\ "next" \in Steps /\ "returned" \in Steps /\ "end" \in Steps
  BY DEF Steps
<1>6. CASE SystemFunctionReturns
  <2>1. /\ Top(native).at = "system"
        /\ status = "active" \/ status = "exception"
    BY <1>1, <1>6, Now DEF SystemFunctionReturns, Returns, At, ActiveAt
  <2>2. Place(native, m) \in {"next", "direct"}
    BY <1>1, <2>1, Placed DEF Callees
  <2>3. CASE Place(native, m) = "direct"
    <3>1. /\ native' = Back("left")
          /\ status' = IF status = "active" THEN "finished" ELSE status
      BY <1>2, <1>6, <2>3 DEF SystemFunctionReturns
    <3>2. Len(callStack) = Highest(m)
      BY <2>3, Known
    <3>3. Pushes(native', m) /\ Place(native', m) = "left"
      BY <1>4, <1>5, <3>1
    <3>4. status' \in {"finished", "exception"}
      BY <2>1, <3>1
    <3>5. Goes(Place(native', m), Highest(m), Len(callStack'), status', currentFunction',
               programPointer')
      BY <1>1, <1>3, <3>2, <3>3, <3>4, Known DEF Goes, Statuses
    <3> QED
      BY <1>1, <3>3, <3>5, Known, LevelsKept DEF KeepsLevels
  <2>4. CASE Place(native, m) = "next"
    <3>1. /\ native' = Back("returned") \/ native' = Back("next")
          /\ status' \in {"suspended", status}
      BY <1>2, <1>6, <2>4 DEF SystemFunctionReturns
    <3>2. Pushes(native', m) /\ Place(native', m) \in {"next", "returned"}
      BY <1>4, <1>5, <3>1
    <3>3. programPointer
      BY <2>4, Known
    <3>4. Goes(Place(native', m), Highest(m), Len(callStack'), status', currentFunction',
               programPointer')
      BY <1>1, <1>3, <2>1, <3>1, <3>2, <3>3, Known DEF Goes, Statuses
    <3> QED
      BY <1>1, <3>2, <3>4, Known, LevelsKept DEF KeepsLevels
  <2> QED
    BY <2>2, <2>3, <2>4
<1>7. CASE LineCallbackReturns
  <2>1. Top(native).at = "line" /\ status = "active"
    BY <1>1, <1>7, Now DEF LineCallbackReturns, Returns, At, ActiveAt
  <2>2. Place(native, m) = "next"
    BY <1>1, <2>1, Placed
  <2>3. /\ native' = Back("returned") \/ native' = Back("next")
        /\ status' \in {"suspended", status}
    BY <1>7 DEF LineCallbackReturns
  <2>4. Pushes(native', m) /\ Place(native', m) \in {"next", "returned"}
    BY <1>4, <1>5, <2>3
  <2>5. programPointer
    BY <2>2, Known
  <2>6. Goes(Place(native', m), Highest(m), Len(callStack'), status', currentFunction',
             programPointer')
    BY <1>1, <1>3, <2>1, <2>3, <2>4, <2>5, Known DEF Goes, Statuses
  <2> QED
    BY <1>1, <2>4, <2>6, Known, LevelsKept DEF KeepsLevels
<1>8. CASE LastLineCallbackReturns
  <2>1. native' = Back("end") /\ UNCHANGED status
    BY <1>8 DEF LastLineCallbackReturns
  <2>2. Pushes(native', m) /\ Place(native', m) = "end"
    BY <1>4, <1>5, <2>1
  <2>3. Goes(Place(native', m), Highest(m), Len(callStack'), status', currentFunction',
             programPointer')
    BY <1>1, <1>3, <2>1, <2>2, Known DEF Goes, Statuses
  <2> QED
    BY <1>1, <2>2, <2>3, Known, LevelsKept DEF KeepsLevels
<1> QED
  BY <1>6, <1>7, <1>8

\* The stack is unwound no further than to the marker.
LEMMA LevelsUnwind ==
  ASSUME IInv, NEW m \in Seq(Nat), LevelsAt(m), Unwind
  PROVE  KeepsLevels(m)
<1>1. /\ At("returned") /\ CleanStack(TRUE) /\ status = "exception"
      /\ native' = MoveTo(IF status' = "active" THEN "next" ELSE "left")
      /\ UNCHANGED programPointer
  BY DEF Unwind
<1>2. /\ "returned" \in Steps /\ "next" \in Steps /\ "left" \in Steps
  BY DEF Steps
<1>3. Executing /\ Top(native).at = "returned"
  BY <1>1, <1>2, AtStep
<1>4. Place(native, m) = "returned"
  BY <1>3, Placed DEF Executing
<1>5. currentFunction \in {"plain", "try"} /\ programPointer
  BY <1>4, Known
<1>6. Pushes(native', m) /\ Place(native', m) \in {"next", "left"}
  BY <1>1, <1>2, <1>3, PlaceMoved
<1>7. /\ SameUpTo(Highest(m), callStack, callStack')
      /\ currentFunction' \in {"plain", "try"}
      /\ status' \in {"active", "exception"}
  <2> DEFINE Catchers == {i \in TopMarker + 1..Len(callStack) : callStack[i] = "try"}
             c == CHOOSE i \in Catchers : \A j \in Catchers : j <= i
  <2>1. CASE status' = "active" /\ currentFunction' = "plain" /\ UNCHANGED callStack
    BY <2>1, Known
  <2>2. CASE /\ Catchers # {}
             /\ status' = "active" /\ currentFunction' = "plain"
             /\ callStack' = SubSeq(callStack, 1, c - 1)
    <3>1. /\ Marked(callStack, m) /\ TopMarker = Highest(m)
          /\ Len(callStack) \in Nat /\ Highest(m) \in 0..Len(callStack)
      BY Known
    <3>2. Catchers \in SUBSET Int /\ \A i \in Catchers : i <= Len(callStack)
      BY <3>1
    <3>3. c \in Catchers
      <4>1. Catchers \in SUBSET (0..Len(callStack))
        BY <3>1
      <4> HIDE DEF Catchers
      <4>2. \E l \in Catchers : \A j \in Catchers : j <= l
        BY <2>2, <3>1, <4>1, LargestOf
      <4> QED
        BY <4>2
    <3> HIDE DEF c
    <3>4. c - 1 \in Highest(m)..Len(callStack)
      BY <3>1, <3>3
    <3>5. SameUpTo(Highest(m), callStack, callStack')
      BY <2>2, <3>1, <3>4, Cut
    <3> QED
      BY <2>2, <3>5
  <2>3. CASE status' = "exception" /\ callStack' = UpToMarker /\ UNCHANGED currentFunction
    BY <1>5, <2>3, Known
  <2> QED
    BY <1>1, <2>1, <2>2, <2>3 DEF CleanStack
<1>8. Goes(Place(native', m), Highest(m), Len(callStack'), status', currentFunction',
           programPointer')
  BY <1>1, <1>5, <1>6, <1>7 DEF Goes, Statuses
<1> QED
  BY <1>6, <1>7, <1>8, LevelsKept DEF KeepsLevels

LEMMA LevelsLeave ==
  ASSUME IInv, NEW m \in Seq(Nat), LevelsAt(m), Leave
  PROVE  KeepsLevels(m)
<1>1. /\ At("left") \/ At("returned")
      /\ UNCHANGED <<callStack, currentFunction, programPointer, status>>
      /\ \/ native' = Append(MoveTo("end"), [at |-> "lastLine", pushed |-> FALSE])
         \/ native' = MoveTo("end")
  BY DEF Leave
<1>2. /\ "returned" \in Steps /\ "left" \in Steps /\ "end" \in Steps /\ "lastLine" \in Callees
  BY DEF Steps, Callees
<1>3. Executing
  BY <1>1, <1>2, AtStep
<1>4. Place(native, m) = Top(native).at /\ Top(native).at \in Steps
  BY <1>3, Placed DEF Executing
<1>5. currentFunction # "none"
  BY <1>4, Known DEF Steps
<1>6. Pushes(native', m) /\ Place(native', m) = "end"
  <2>1. CASE native' = MoveTo("end")
    BY <1>2, <1>3, <2>1, PlaceMoved
  <2>2. CASE native' = Append(MoveTo("end"), [at |-> "lastLine", pushed |-> FALSE])
    <3>1. \A q \in Callees :
            /\ q = "system" => "end" \in {"next", "direct"}
            /\ q = "line" => "end" = "next"
            => LET t == Append(MoveTo("end"), [at |-> q, pushed |-> FALSE])
               IN  Pushes(t, m) /\ Place(t, m) = "end"
      BY <1>2, <1>3, PlaceMoved
    <3> QED
      BY <1>2, <2>2, <3>1
  <2> QED
    BY <1>1, <2>1, <2>2
<1>7. Goes(Place(native', m), Highest(m), Len(callStack'), status', currentFunction',
           programPointer')
  BY <1>1, <1>5, <1>6, Known DEF Goes
<1> QED
  BY <1>1, <1>6, <1>7, Known, LevelsKept DEF KeepsLevels

LEMMA LevelsExecuteReturns ==
  ASSUME IInv, NEW m \in Seq(Nat), LevelsAt(m), ExecuteReturns
  PROVE  KeepsLevels(m)
<1>1. /\ At("end") /\ native' = Front(native)
      /\ UNCHANGED <<callStack, currentFunction, programPointer>>
      /\ status' \in {"aborted", status}
  BY DEF ExecuteReturns
<1>2. Executing /\ Top(native).at = "end"
  BY <1>1, AtStep DEF Steps
<1>3. /\ Place(native, m) = "end" /\ Len(native) = 2 * Len(m) + 1
      /\ Len(native) > 2 * Len(m)
  BY <1>2, Placed DEF Executing
<1>4. currentFunction # "none"
  BY <1>3, Known
<1>5. Pushes(native', m) /\ Place(native', m) = "none"
  BY <1>1, <1>3, Known, Placed, LeaveKeeps
<1>6. Goes(Place(native', m), Highest(m), Len(callStack'), status', currentFunction',
           programPointer')
  BY <1>1, <1>4, <1>5, Known DEF Goes, Statuses
<1> QED
  BY <1>1, <1>5, <1>6, Known, LevelsKept DEF KeepsLevels

\* A state is pushed upon the functions that are there.
LEMMA LevelsPush ==
  ASSUME IInv, NEW m \in Seq(Nat), LevelsAt(m), PushState
  PROVE  /\ Levels'
         /\ IsPrefix(UpToMarker, callStack')
<1> DEFINE f == [Top(native) EXCEPT !.pushed = TRUE]
           t == callStack \o <<currentFunction, "marker">>
           l == Len(callStack)
<1>1. /\ native # <<>> /\ Top(native).at \in {"system", "line"} /\ ~Top(native).pushed
      /\ Top(native) \in Frame
      /\ status = "active" /\ status' = "uninitialized"
      /\ callStack' = t
      /\ native' = Append(Front(native), f)
      /\ UNCHANGED <<currentFunction, programPointer>>
  BY Now DEF PushState, At
<1>2. f \in Frame /\ f.pushed /\ f.at = Top(native).at
  BY <1>1 DEF Frame
<1>3. currentFunction \in {"plain", "try"}
  BY <1>1, Known
<1>4. PICK n \in Seq(Nat) :
        /\ Marked(t, n)
        /\ Len(n) = Len(m) + 1
        /\ \A j \in 1..Len(m) : n[j] = m[j]
        /\ n[Len(m) + 1] = l + 2
        /\ Highest(n) = l + 2
        /\ Len(t) = l + 2
        /\ \A i \in 1..l : t[i] = callStack[i]
  <2> DEFINE n == Append(m, l + 2)
  <2>1. /\ Marked(t, n) /\ n \in Seq(Nat)
        /\ Len(n) = Len(m) + 1
        /\ \A j \in 1..Len(m) : n[j] = m[j]
        /\ n[Len(m) + 1] = l + 2
        /\ Highest(n) = l + 2
        /\ Len(t) = l + 2
        /\ \A i \in 1..l : t[i] = callStack[i]
    BY <1>3, Known, MarkPushed, ZenonT(30)
  <2> HIDE DEF n, t
  <2> QED
    BY <2>1
<1>5. Place(native, m) = "direct" => n[Len(m) + 1] = Highest(m) + 2
  <2>1. Place(native, m) = "direct" => l = Highest(m)
    BY Known
  <2> QED
    BY <1>4, <2>1
<1> HIDE DEF f, t
<1>6. Pushes(native', n) /\ Place(native', n) = "none"
  BY <1>1, <1>2, <1>4, <1>5, Known, Placed, PushKeeps
<1>7. Goes(Place(native', n), Highest(n), Len(callStack'), status', currentFunction',
           programPointer')
  BY <1>1, <1>3, <1>4, <1>6 DEF Goes, Statuses
<1>8. LevelsAt(n)'
  BY <1>1, <1>4, <1>6, <1>7 DEF LevelsAt
<1>9. IsPrefix(UpToMarker, callStack')
  <2> DEFINE h == Highest(m)
  <2>1. h \in 0..l /\ l \in Nat /\ h <= Len(callStack) /\ TopMarker = h
    BY Known
  <2>2. t \in Seq(Entries) /\ callStack \in Seq(Entries)
    BY <1>4, Known DEF Marked
  <2> HIDE DEF h
  <2>3. h <= Len(t) /\ h \in Nat /\ \A i \in 1..h : t[i] = callStack[i]
    BY <1>4, <2>1
  <2>4. UpToMarker = SubSeq(callStack, 1, h)
    BY <2>1 DEF UpToMarker
  <2> HIDE DEF l
  <2> QED
    BY <1>1, <2>1, <2>2, <2>3, <2>4, PrefixUpTo
<1> QED
  BY <1>4, <1>8, <1>9 DEF Levels

\* A state is popped: the call stack is what it was when the state was pushed, as is
\* the function that had called.
LEMMA LevelsPop ==
  ASSUME IInv, Careful, NEW m \in Seq(Nat), LevelsAt(m), PopState
  PROVE  /\ Levels'
         /\ callStack' = SubSeq(callStack, 1, TopMarker - 2)
         /\ currentFunction' = callStack[TopMarker - 1]
<1> DEFINE f == [Top(native) EXCEPT !.pushed = FALSE]
           stack == IF status \in {"finished", "uninitialized", "suspended"}
                      THEN callStack ELSE UpToMarker
           t == SubSeq(stack, 1, Len(stack) - 2)
           n == Front(m)
<1>1. /\ native # <<>> /\ Top(native).pushed
      /\ Top(native) \in Frame
      /\ status # "suspended" /\ status' = "active"
      /\ callStack' = t
      /\ currentFunction' = stack[Len(stack) - 1]
      /\ programPointer' = (native[Len(native) - 1].at # "direct")
      /\ native' = Append(Front(native), f)
  BY Now DEF PopState
<1>2. f \in Frame /\ ~f.pushed /\ f.at = Top(native).at
  BY <1>1 DEF Frame
<1>3. m # <<>>
  BY <1>1, Placed
<1>4. stack = UpToMarker
  <2>1. CASE status \in {"finished", "uninitialized"}
    <3>1. Len(callStack) = TopMarker /\ callStack \in Seq(Entries)
      BY <2>1, Known DEF Marked
    <3>2. SubSeq(callStack, 1, Len(callStack)) = callStack
      BY <3>1, SubSeqFull
    <3> QED
      BY <2>1, <3>1, <3>2 DEF UpToMarker
  <2>2. CASE status \notin {"finished", "uninitialized"}
    BY <1>1, <2>2
  <2> QED
    BY <2>1, <2>2
<1> HIDE DEF stack
<1>5. /\ Marked(stack, m) /\ Len(stack) = Highest(m)
      /\ stack \in Seq(Entries)
      /\ Highest(m) \in Nat /\ TopMarker = Highest(m)
  <2>1. /\ Marked(callStack, m) /\ SameUpTo(Highest(m), callStack, UpToMarker)
        /\ Len(UpToMarker) = Highest(m)
        /\ Highest(m) \in Nat /\ TopMarker = Highest(m)
    BY Known
  <2>2. Marked(UpToMarker, m)
    BY <2>1, MarkedAgain
  <2> QED
    BY <1>4, <2>1, <2>2 DEF Marked
<1>6. /\ Marked(t, n)
      /\ n \in Seq(Nat)
      /\ Len(n) = Len(m) - 1
      /\ \A j \in 1..(Len(m) - 1) : n[j] = m[j]
      /\ Len(t) = Len(stack) - 2
      /\ Len(stack) - 2 \in Nat
      /\ stack[Len(stack) - 1] \in {"plain", "try"}
  BY <1>3, <1>5, MarkPopped
<1> HIDE DEF f, t, n
<1>7. /\ Pushes(native', n)
      /\ Place(native', n) = native[Len(native) - 1].at
      /\ native[Len(native) - 1].at \in {"next", "direct"}
      /\ native[Len(native) - 1].at = "direct" => Highest(m) = Highest(n) + 2
  BY <1>1, <1>2, <1>6, Known, Placed, PopKeeps
<1>8. Highest(n) \in Nat
  <2>1. Highest(n) \in 0..Len(t)
    BY <1>6, HighestMark
  <2> QED
    BY <2>1
<1>9. Goes(Place(native', n), Highest(n), Len(callStack'), status', currentFunction',
           programPointer')
  <2>1. CASE native[Len(native) - 1].at = "direct"
    <3>1. Len(callStack') = Highest(n)
      BY <1>1, <1>5, <1>6, <1>7, <1>8, <2>1
    <3> QED
      BY <1>1, <1>6, <1>7, <2>1, <3>1 DEF Goes, Statuses
  <2>2. CASE native[Len(native) - 1].at = "next"
    BY <1>1, <1>6, <1>7, <2>2 DEF Goes, Statuses
  <2> QED
    BY <1>7, <2>1, <2>2
<1>10. LevelsAt(n)'
  BY <1>1, <1>6, <1>7, <1>9 DEF LevelsAt
<1>11. /\ callStack' = SubSeq(callStack, 1, TopMarker - 2)
       /\ currentFunction' = callStack[TopMarker - 1]
  <2> DEFINE h == TopMarker
  <2>1. /\ stack = SubSeq(callStack, 1, h) /\ Len(stack) = h /\ h \in Nat /\ h - 2 \in Nat
        /\ h \in 0..Len(callStack) /\ callStack \in Seq(Entries)
    BY <1>4, <1>5, <1>6, Known DEF UpToMarker, Marked
  <2> HIDE DEF h
  <2>2. t = SubSeq(callStack, 1, h - 2) /\ stack[h - 1] = callStack[h - 1]
    BY <2>1, PrefixOfPrefix DEF t
  <2> QED
    BY <1>1, <2>1, <2>2 DEF h
<1> QED
  BY <1>6, <1>10, <1>11 DEF Levels

-----------------------------------------------------------------------------
\* What is below the topmost marker is a prefix of the call stack after every step but
\* the one that pops the state.
LEMMA PrefixKept ==
  ASSUME NEW m \in Seq(Nat), LevelsAt(m), SameUpTo(Highest(m), callStack, callStack')
  PROVE  IsPrefix(UpToMarker, callStack')
<1> DEFINE h == Highest(m)
<1>1. /\ h \in 0..Len(callStack) /\ Len(callStack) \in Nat /\ TopMarker = h
      /\ callStack \in Seq(Entries)
  BY Known DEF Marked
<1>2. /\ callStack' \in Seq(Entries) /\ h <= Len(callStack')
      /\ \A i \in 1..h : callStack'[i] = callStack[i]
  BY DEF SameUpTo
<1>3. UpToMarker = SubSeq(callStack, 1, h)
  BY <1>1 DEF UpToMarker
<1> HIDE DEF h
<1>4. h \in Nat /\ h <= Len(callStack)
  BY <1>1
<1> QED
  BY <1>1, <1>2, <1>3, <1>4, PrefixUpTo

\* The step of OuterKept.
OuterStep ==
  TopMarker > 0 =>
    \/ IsPrefix(UpToMarker, callStack')
    \/ /\ PopState
       /\ callStack' = SubSeq(callStack, 1, TopMarker - 2)
       /\ currentFunction' = callStack[TopMarker - 1]

LEMMA LevelsInductive ==
  ASSUME IInv, Careful, Levels, [Next]_vars
  PROVE  Levels' /\ (OuterStep \/ UNCHANGED vars)
<1>1. PICK m \in Seq(Nat) : LevelsAt(m)
  BY DEF Levels
<1>2. ASSUME KeepsLevels(m) PROVE Levels' /\ OuterStep
  <2>1. LevelsAt(m)' /\ IsPrefix(UpToMarker, callStack')
    BY <1>1, <1>2, PrefixKept DEF KeepsLevels
  <2> QED
    BY <2>1 DEF Levels, OuterStep
<1>3. CASE Prepare \/ Unprepare
  BY <1>1, <1>2, <1>3, LevelsPrepare
<1>4. CASE PushState
  BY <1>1, <1>4, LevelsPush DEF OuterStep
<1>5. CASE PopState
  BY <1>1, <1>5, LevelsPop DEF OuterStep
<1>6. CASE Suspend \/ Abort
  BY <1>1, <1>2, <1>6, LevelsRequest
<1>7. ASSUME NEW b \in BOOLEAN, SetException(b) \/ SetLineCallback(b)
      PROVE  Levels' /\ OuterStep
  BY <1>1, <1>2, <1>7, LevelsException, LevelsSetLineCallback
<1>8. CASE WriteFlag
  BY <1>1, <1>2, <1>8, LevelsWriteFlag
<1>9. CASE Execute \/ Begin
  BY <1>1, <1>2, <1>9, LevelsExecute, LevelsBegin
<1>10. CASE Line \/ CallScriptFunction \/ CallSystemFunction \/ Throw
  BY <1>1, <1>2, <1>10, LevelsCall
<1>11. CASE Try \/ Ret
  BY <1>1, <1>2, <1>11, LevelsRet
<1>12. CASE SystemFunctionReturns \/ LineCallbackReturns \/ LastLineCallbackReturns
  BY <1>1, <1>2, <1>12, LevelsReturn
<1>13. CASE Unwind \/ Leave \/ ExecuteReturns
  BY <1>1, <1>2, <1>13, LevelsUnwind, LevelsLeave, LevelsExecuteReturns
<1>14. CASE UNCHANGED vars
  <2>1. UNCHANGED <<callStack, native, status, currentFunction, programPointer>>
    BY <1>14 DEF vars
  <2>2. LevelsAt(m)'
    BY <1>1, <2>1 DEF LevelsAt
  <2> QED
    BY <1>14, <2>2 DEF Levels
<1> QED
  BY <1>3, <1>4, <1>5, <1>6, <1>7, <1>8, <1>9, <1>10, <1>11, <1>12, <1>13, <1>14 DEF Next

LEMMA LevelsInvariance ==
  ASSUME Careful PROVE Spec => [](IInv /\ Levels)
<1>1. Init => IInv /\ Levels
  BY Initially, InitialLevels
<1>2. IInv /\ Levels /\ [Next]_vars => (IInv /\ Levels)'
  BY Inductive, LevelsInductive
<1> QED
  BY <1>1, <1>2, PTL DEF Spec

\* The values of the variables, and a marker in the call stack for every pushed state,
\* for any depth of calls and of nested executions.
THEOREM TypesKept ==
  ASSUME Careful PROVE Spec => []TypeOK
<1>1. IInv /\ Levels => TypeOK
  BY ImpliedTypes DEF IInv, Holds
<1> QED
  BY <1>1, LevelsInvariance, PTL

\* No nested execution, however deep, touches what is below its marker, and PopState
\* restores the function that had called.
THEOREM OuterFunctionsKept ==
  ASSUME Careful PROVE Spec => OuterKept
<1>1. IInv /\ Levels /\ [Next]_vars => [OuterStep]_vars
  BY LevelsInductive
<1>2. Spec => [][OuterStep]_vars
  BY <1>1, LevelsInvariance, PTL DEF Spec
<1> QED
  BY <1>2 DEF OuterKept, OuterStep
=============================================================================
