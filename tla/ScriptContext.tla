---------------------------- MODULE ScriptContext ----------------------------
(***************************************************************************)
(* asCContext (as_context.cpp): a context prepares, executes, suspends and *)
(* aborts a script function.  What the script calls may use the context    *)
(* for a nested execution, between PushState and PopState.                 *)
(*                                                                         *)
(* A script function is abstracted to whether it is inside a try block.    *)
(* `native` is the C++ stack: the Execute calls under way and what they    *)
(* have called.                                                            *)
(***************************************************************************)
EXTENDS Naturals, Sequences, FiniteSets, SequencesExt

CONSTANTS
  MaxCallStack,     \* where the call stack cannot grow any more
  MaxNestedCalls,   \* ep.maxNestedCalls
  Threads,          \* may another thread call Suspend at any time
  Careful           \* the application keeps the rules below; without them not all of
                    \* the properties hold

\* The rules: a state is not popped while it is suspended (CallDestructor keeps that
\* one, opEquals of the array add-on does not); the line callback is not set by what has
\* raised an exception; Suspend of another thread does not come while SetLineCallback or
\* Prepare is about to write the flag.

ASSUME ContextAssumption ==
  /\ MaxCallStack \in Nat
  /\ MaxNestedCalls \in Nat \ {0}
  /\ Threads \in BOOLEAN
  /\ Careful \in BOOLEAN

VARIABLES
  status,
  currentFunction,   \* "none", "plain" or "try"
  programPointer,    \* whether it is set
  callStack,         \* functions that have called, and markers of pushed states
  doSuspend, doProcessSuspend, doAbort,
  lineCallback,      \* whether one is set
  willBeCaught,      \* m_exceptionWillBeCaught
  native,            \* [at, pushed], pushed if it has called PushState
  result             \* what the last Execute returned

vars == <<status, currentFunction, programPointer, callStack, doSuspend,
          doProcessSuspend, doAbort, lineCallback, willBeCaught, native, result>>

Init ==
  /\ status = "uninitialized"
  /\ currentFunction = "none"
  /\ programPointer = FALSE
  /\ callStack = <<>>
  /\ doSuspend = FALSE /\ doProcessSuspend = FALSE /\ doAbort = FALSE
  /\ lineCallback = FALSE
  /\ willBeCaught = FALSE
  /\ native = <<>>
  /\ result = "none"

-----------------------------------------------------------------------------
\* The stacks

At(place) == native # <<>> /\ Last(native).at = place
Enter(place) == Append(native, [at |-> place, pushed |-> FALSE])
MoveTo(place) == Append(Front(native), [at |-> place, pushed |-> FALSE])

Markers == {i \in 1..Len(callStack) : callStack[i] = "marker"}
TopMarker == IF Markers = {} THEN 0 ELSE CHOOSE i \in Markers : \A j \in Markers : j <= i
UpToMarker == SubSeq(callStack, 1, TopMarker)

\* FindExceptionTryCatch: the functions of the whole call stack.
FindExceptionTryCatch == currentFunction = "try" \/ "try" \in Range(callStack)

\* SetInternalException
RaisesException(allowCatch) ==
  /\ status' = "exception"
  /\ doProcessSuspend' = TRUE
  /\ willBeCaught' = (allowCatch /\ FindExceptionTryCatch)

\* CleanStack: down to the function that catches, if there is one above the
\* topmost marker, else down to the marker.
CleanStack(catch) ==
  LET Catchers == {i \in TopMarker + 1..Len(callStack) : callStack[i] = "try"}
      c == CHOOSE i \in Catchers : \A j \in Catchers : j <= i
  IN  IF catch /\ currentFunction = "try"
        THEN status' = "active" /\ currentFunction' = "plain" /\ UNCHANGED callStack
      ELSE IF catch /\ Catchers # {}
        THEN /\ status' = "active" /\ currentFunction' = "plain"
             /\ callStack' = SubSeq(callStack, 1, c - 1)
      ELSE status' = "exception" /\ callStack' = UpToMarker /\ UNCHANGED currentFunction

-----------------------------------------------------------------------------
\* The application: it runs when no Execute does, and in what the script calls

Application == native # <<>> => Last(native).at \in {"system", "line", "lastLine"}

\* Who may prepare and execute: the owner of the context, or of a pushed state.
Owns == native # <<>> => Last(native).pushed

\* m_callingSystemFunction: PushState hides it.
CallingSystemFunction == At("system") /\ ~Last(native).pushed

\* What is about to write into doProcessSuspend what it has computed.
AboutToWrite(flag) == Enter(IF flag THEN "flagOn" ELSE "flagOff")

\* After a finished execution nothing is reset.  Else the requests are forgotten, and
\* the flag is written in a step of its own (WriteFlag): of the other writes another
\* thread sees nothing.
Prepare ==
  /\ Application /\ Owns
  /\ status \notin {"active", "suspended"}
  /\ callStack' = IF status \in {"finished", "uninitialized"} THEN callStack ELSE UpToMarker
  /\ IF status = "finished"
       THEN UNCHANGED <<doAbort, doSuspend, native>>
       ELSE doAbort' = FALSE /\ doSuspend' = FALSE /\ native' = AboutToWrite(lineCallback)
  /\ status' = "prepared"
  /\ currentFunction' = "plain"
  /\ programPointer' = FALSE
  /\ UNCHANGED <<doProcessSuspend, lineCallback, willBeCaught, result>>

Unprepare ==
  /\ Application /\ Owns
  /\ status \notin {"active", "suspended"}
  /\ callStack' = IF status \in {"finished", "uninitialized"} THEN callStack ELSE UpToMarker
  /\ status' = "uninitialized"
  /\ currentFunction' = "none"
  /\ programPointer' = FALSE
  /\ UNCHANGED <<doSuspend, doProcessSuspend, doAbort, lineCallback, willBeCaught, native,
                 result>>

PushState ==
  /\ At("system") \/ At("line")
  /\ ~Last(native).pushed
  /\ status = "active"
  /\ Len(callStack) < MaxCallStack
  /\ callStack' = callStack \o <<currentFunction, "marker">>
  /\ status' = "uninitialized"
  /\ native' = Append(Front(native), [Last(native) EXCEPT !.pushed = TRUE])
  /\ UNCHANGED <<currentFunction, programPointer, doSuspend, doProcessSuspend, doAbort,
                 lineCallback, willBeCaught, result>>

\* Mutant: the marker stays.
PopState_keepsMarker ==
  /\ Application /\ native # <<>> /\ Last(native).pushed
  /\ currentFunction # "none"
  /\ Careful => status # "suspended"
  /\ callStack' = UpToMarker
  /\ status' = "active"
  /\ programPointer' = (native[Len(native) - 1].at # "direct")
  /\ native' = Append(Front(native), [Last(native) EXCEPT !.pushed = FALSE])
  /\ UNCHANGED <<currentFunction, doSuspend, doProcessSuspend, doAbort, lineCallback,
                 willBeCaught, result>>

\* Mutant: the function that has called is not restored.
PopState_keepsFunction ==
  /\ Application /\ native # <<>> /\ Last(native).pushed
  /\ currentFunction # "none"
  /\ Careful => status # "suspended"
  /\ LET stack == IF status \in {"finished", "uninitialized", "suspended"}
                    THEN callStack ELSE UpToMarker
     IN  callStack' = SubSeq(stack, 1, Len(stack) - 2)
  /\ status' = "active"
  /\ programPointer' = (native[Len(native) - 1].at # "direct")
  /\ native' = Append(Front(native), [Last(native) EXCEPT !.pushed = FALSE])
  /\ UNCHANGED <<currentFunction, doSuspend, doProcessSuspend, doAbort, lineCallback,
                 willBeCaught, result>>

\* It does nothing in a state that is unprepared: without a function IsNested finds no
\* marker.  It cleans up with Unprepare, which refuses a suspended state, and takes the
\* two topmost frames for the marker and the function under it.
PopState ==
  /\ Application /\ native # <<>> /\ Last(native).pushed
  /\ currentFunction # "none"
  /\ Careful => status # "suspended"
  /\ LET stack == IF status \in {"finished", "uninitialized", "suspended"}
                    THEN callStack ELSE UpToMarker
     IN  /\ callStack' = SubSeq(stack, 1, Len(stack) - 2)
         /\ currentFunction' = stack[Len(stack) - 1]
  /\ status' = "active"
  /\ programPointer' = (native[Len(native) - 1].at # "direct")
  /\ native' = Append(Front(native), [Last(native) EXCEPT !.pushed = FALSE])
  /\ UNCHANGED <<doSuspend, doProcessSuspend, doAbort, lineCallback, willBeCaught, result>>

SettingFlag == At("flagOn") \/ At("flagOff")

\* The request and the flag are written one after the other; it is made with the second.
Suspend ==
  /\ Application \/ (Threads /\ (Careful => ~SettingFlag))
  /\ doSuspend' = TRUE
  /\ doProcessSuspend' = TRUE
  /\ UNCHANGED <<status, currentFunction, programPointer, callStack, doAbort, lineCallback,
                 willBeCaught, native, result>>

Abort ==
  /\ Application
  /\ status' = IF status = "suspended" THEN "aborted" ELSE status
  /\ doSuspend' = TRUE
  /\ doProcessSuspend' = TRUE
  /\ doAbort' = TRUE
  /\ UNCHANGED <<currentFunction, programPointer, callStack, lineCallback, willBeCaught,
                 native, result>>

\* Only a function the script has called may raise one.
SetException(allowCatch) ==
  /\ Application /\ CallingSystemFunction
  /\ RaisesException(allowCatch)
  /\ UNCHANGED <<currentFunction, programPointer, callStack, doSuspend, doAbort, lineCallback,
                 native, result>>

\* SetLineCallback and ClearLineCallback, which read doSuspend and then write what
\* they have computed of it.
SetLineCallback(set) ==
  /\ Application
  /\ Careful => status # "exception" \/ Owns
  /\ lineCallback' = set
  /\ native' = AboutToWrite(doSuspend \/ set)
  /\ UNCHANGED <<status, currentFunction, programPointer, callStack, doSuspend,
                 doProcessSuspend, doAbort, willBeCaught, result>>

WriteFlag ==
  /\ SettingFlag
  /\ doProcessSuspend' = At("flagOn")
  /\ native' = Front(native)
  /\ UNCHANGED <<status, currentFunction, programPointer, callStack, doSuspend, doAbort,
                 lineCallback, willBeCaught, result>>

-----------------------------------------------------------------------------
\* Execute

\* Where a script function begins, and at each line: the line callback is called
\* if there is one, and then suspension looked for.
LineCue ==
  \/ /\ doProcessSuspend /\ lineCallback
     /\ native' = Append(MoveTo("next"), [at |-> "line", pushed |-> FALSE])
     /\ status' = "active"
  \/ /\ doProcessSuspend /\ ~lineCallback /\ doSuspend
     /\ status' = "suspended"
     /\ native' = MoveTo("returned")
  \/ /\ ~(doProcessSuspend /\ (lineCallback \/ doSuspend))
     /\ native' = MoveTo("next")
     /\ status' = "active"

Depth == Cardinality({i \in 1..Len(native) : native[i].pushed})

Execute ==
  /\ Application /\ Owns
  /\ status \in {"prepared", "suspended"}
  /\ status' = "active"
  /\ native' = Enter("begin")
  /\ UNCHANGED <<currentFunction, programPointer, callStack, doSuspend, doProcessSuspend,
                 doAbort, lineCallback, willBeCaught, result>>

\* SetProgramPointer; an exception at this point finds no loop to unwind the stack.
Begin ==
  /\ At("begin")
  /\ \/ /\ Depth + 1 > MaxNestedCalls
        /\ RaisesException(TRUE)
        /\ native' = MoveTo("left")
        /\ UNCHANGED programPointer
     \/ /\ Depth + 1 <= MaxNestedCalls /\ programPointer
        /\ native' = MoveTo("next")
        /\ UNCHANGED <<status, doProcessSuspend, willBeCaught, programPointer>>
     \/ /\ Depth + 1 <= MaxNestedCalls /\ ~programPointer
        /\ programPointer' = TRUE
        /\ LineCue
        /\ UNCHANGED <<doProcessSuspend, willBeCaught>>
     \/ /\ Depth + 1 <= MaxNestedCalls /\ ~programPointer
        /\ native' = Append(MoveTo("direct"), [at |-> "system", pushed |-> FALSE])
        /\ UNCHANGED <<status, doProcessSuspend, willBeCaught, programPointer>>
  /\ UNCHANGED <<currentFunction, callStack, doSuspend, doAbort, lineCallback, result>>

\* ExecuteNext: the instructions of the script.
Instruction ==
  /\ At("next")
  /\ UNCHANGED <<programPointer, doSuspend, doAbort, lineCallback, result>>

Line ==
  /\ Instruction
  /\ LineCue
  /\ UNCHANGED <<currentFunction, callStack, doProcessSuspend, willBeCaught>>

\* The script enters or leaves a try block.
Try ==
  /\ Instruction
  /\ currentFunction' = IF currentFunction = "try" THEN "plain" ELSE "try"
  /\ UNCHANGED <<status, callStack, doProcessSuspend, willBeCaught, native>>

CallScriptFunction ==
  /\ Instruction
  /\ \/ /\ Len(callStack) >= MaxCallStack
        /\ RaisesException(TRUE)
        /\ native' = MoveTo("returned")
        /\ UNCHANGED <<currentFunction, callStack>>
     \/ /\ Len(callStack) < MaxCallStack
        /\ callStack' = Append(callStack, currentFunction)
        /\ currentFunction' = "plain"
        /\ LineCue
        /\ UNCHANGED <<doProcessSuspend, willBeCaught>>

CallSystemFunction ==
  /\ Instruction
  /\ native' = Enter("system")
  /\ UNCHANGED <<status, currentFunction, callStack, doProcessSuspend, willBeCaught>>

\* A null pointer, a division by zero: the instruction returns.
Throw ==
  /\ Instruction
  /\ RaisesException(TRUE)
  /\ native' = MoveTo("returned")
  /\ UNCHANGED <<currentFunction, callStack>>

Ret ==
  /\ Instruction
  /\ IF Len(callStack) = TopMarker
       THEN /\ status' = "finished"
            /\ native' = MoveTo("returned")
            /\ UNCHANGED <<currentFunction, callStack>>
       ELSE /\ currentFunction' = Last(callStack)
            /\ callStack' = Front(callStack)
            /\ UNCHANGED <<status, native>>
  /\ UNCHANGED <<doProcessSuspend, willBeCaught>>

\* What the script has called returns.
Returns(place) ==
  /\ At(place) /\ ~Last(native).pushed
  /\ UNCHANGED <<currentFunction, programPointer, callStack, doSuspend, doAbort, lineCallback,
                 willBeCaught, result>>
Back(place) == Append(SubSeq(native, 1, Len(native) - 2), [at |-> place, pushed |-> FALSE])

\* Mutant: an exception raised by the function is not looked for.
SystemFunctionReturns_goesOn ==
  /\ Returns("system")
  /\ IF native[Len(native) - 1].at = "direct"
       THEN /\ status' = IF status = "active" THEN "finished" ELSE status
            /\ native' = Back("left")
       ELSE IF doProcessSuspend /\ doSuspend
         THEN status' = "suspended" /\ native' = Back("returned")
         ELSE native' = Back("next") /\ UNCHANGED status
  /\ UNCHANGED doProcessSuspend

SystemFunctionReturns ==
  /\ Returns("system")
  /\ IF native[Len(native) - 1].at = "direct"
       THEN /\ status' = IF status = "active" THEN "finished" ELSE status
            /\ native' = Back("left")
     ELSE IF doProcessSuspend /\ doSuspend
       THEN status' = "suspended" /\ native' = Back("returned")
     ELSE IF doProcessSuspend /\ status # "active"
       THEN native' = Back("returned") /\ UNCHANGED status
     ELSE native' = Back("next") /\ UNCHANGED status
  /\ UNCHANGED doProcessSuspend

LineCallbackReturns ==
  /\ Returns("line")
  /\ IF doSuspend
       THEN status' = "suspended" /\ native' = Back("returned")
       ELSE native' = Back("next") /\ UNCHANGED status
  /\ UNCHANGED doProcessSuspend

\* The loop of Execute: an exception that will be caught is, and the script goes on.
Unwind ==
  /\ At("returned")
  /\ status = "exception" /\ willBeCaught
  /\ CleanStack(TRUE)
  /\ native' = MoveTo(IF status' = "active" THEN "next" ELSE "left")
  /\ UNCHANGED <<programPointer, doSuspend, doProcessSuspend, doAbort, lineCallback,
                 willBeCaught, result>>

\* One last call of the line callback.
Leave ==
  /\ \/ At("left")
     \/ At("returned") /\ ~(status = "exception" /\ willBeCaught)
  /\ IF lineCallback
       THEN /\ native' = Append(MoveTo("end"), [at |-> "lastLine", pushed |-> FALSE])
            /\ UNCHANGED doProcessSuspend
       ELSE /\ native' = MoveTo("end")
            /\ doProcessSuspend' = FALSE
  /\ UNCHANGED <<status, currentFunction, programPointer, callStack, doSuspend, doAbort,
                 lineCallback, willBeCaught, result>>

\* Mutant: lines are no longer processed after the last call.
LastLineCallbackReturns_clears ==
  /\ Returns("lastLine")
  /\ doProcessSuspend' = FALSE
  /\ native' = Back("end")
  /\ UNCHANGED status

LastLineCallbackReturns ==
  /\ Returns("lastLine")
  /\ doProcessSuspend' = TRUE
  /\ native' = Back("end")
  /\ UNCHANGED status

\* Requests to suspend are over, and one to abort unless the script has finished.
ExecuteReturns ==
  /\ At("end")
  /\ doSuspend' = FALSE
  /\ native' = Front(native)
  /\ IF status # "finished" /\ doAbort
       THEN doAbort' = FALSE /\ status' = "aborted" /\ result' = "aborted"
       ELSE /\ result' = status
            /\ UNCHANGED <<status, doAbort>>
  /\ UNCHANGED <<currentFunction, programPointer, callStack, doProcessSuspend, lineCallback,
                 willBeCaught>>

-----------------------------------------------------------------------------
Next ==
  \/ Prepare \/ Unprepare \/ PushState \/ PopState \/ Suspend \/ Abort
  \/ \E b \in BOOLEAN : SetException(b) \/ SetLineCallback(b)
  \/ WriteFlag
  \/ Execute \/ Begin
  \/ Line \/ Try \/ CallScriptFunction \/ CallSystemFunction \/ Throw \/ Ret
  \/ SystemFunctionReturns \/ LineCallbackReturns
  \/ Unwind \/ Leave \/ LastLineCallbackReturns \/ ExecuteReturns

Spec == Init /\ [][Next]_vars

-----------------------------------------------------------------------------
Statuses == {"uninitialized", "prepared", "active", "suspended", "finished", "aborted",
             "exception"}

\* The values of the variables, and a pushed state for every marker.
TypeOK ==
  /\ status \in Statuses
  /\ currentFunction \in {"none", "plain", "try"}
  /\ callStack \in Seq({"plain", "try", "marker"})
  /\ Cardinality(Markers) = Depth

\* Instructions run only in an active context: nothing that raises an exception,
\* suspends or finishes lets the script go on to another instruction, nested or not.
RunsOnlyActive == At("next") => status = "active"

\* A running script sees a line callback that is set and a request to suspend that is
\* still recorded, whatever nested executions, exceptions and callbacks did to the one
\* flag it looks at.  A nested Prepare and the end of a nested Execute erase the record of
\* an outer request: that one is not seen, and nothing is said of it here.
RequestsSeen == At("next") => (lineCallback \/ doSuspend => doProcessSuspend)

\* No nested execution touches what is below its marker: the callers of the outer
\* execution are as they were when the state is popped, whatever was raised, caught,
\* prepared again or aborted in between.
OuterKept ==
  [][TopMarker > 0 =>
       \/ IsPrefix(UpToMarker, callStack')
       \/ /\ PopState
          /\ callStack' = SubSeq(callStack, 1, TopMarker - 2)
          /\ currentFunction' = callStack[TopMarker - 1]]_vars
=============================================================================
