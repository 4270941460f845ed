--------------------------- MODULE ContextManager ----------------------------
(***************************************************************************)
(* CContextMgr (add_on/contextmgr): runs scripts side by side.  A thread   *)
(* is a group of co-routines of which one is the current; ExecuteScripts   *)
(* goes over the threads once and executes the current co-routine of each  *)
(* that does not sleep until it yields, sleeps or ends.                    *)
(*                                                                         *)
(* Contexts come from the engine's pool and go back to it, except that the *)
(* application may ask to keep the one it adds.                            *)
(***************************************************************************)
EXTENDS Naturals, Sequences, FiniteSets, SequencesExt

CONSTANTS
  Contexts,      \* those of the engine
  None,          \* the null context
  MaxTime,       \* the greatest value of the clock
  Careful        \* scripts and the application keep the rules below; without them
                 \* contexts are lost

\* The rules: the sum of the time and a nap does not wrap; a script does not yield in
\* a nested execution, whose caller would go on; a kept context is not given back
\* before its thread is over.

ASSUME ManagerAssumption ==
  /\ None \notin Contexts
  /\ MaxTime \in Nat
  /\ Careful \in BOOLEAN

VARIABLES
  threads,        \* m_threads: [coRoutines, currentCoRoutine, sleepUntil, keep] and,
                  \* as history, whether this call of ExecuteScripts executed it (ran)
  currentThread,  \* the thread ExecuteScripts is at, 0 outside it
  executing,      \* the co-routine it executes, 0 if none
  free,           \* contexts in the pool
  kept,           \* contexts the application has asked to keep
  time

vars == <<threads, currentThread, executing, free, kept, time>>

Init ==
  /\ threads = <<>>
  /\ currentThread = 0
  /\ executing = 0
  /\ free = Contexts
  /\ kept = {}
  /\ time = 1

Managed == (UNION {Range(threads[t].coRoutines) : t \in 1..Len(threads)}) \ {None}
Current(thread) == thread.coRoutines[thread.currentCoRoutine]

-----------------------------------------------------------------------------
\* The application, between two calls of ExecuteScripts

AddContext(keep) ==
  /\ currentThread = 0
  /\ \E ctx \in free :
       /\ free' = free \ {ctx}
       /\ kept' = IF keep THEN kept \cup {ctx} ELSE kept
       /\ threads' = Append(threads, [coRoutines |-> <<ctx>>, currentCoRoutine |-> 1,
                                      sleepUntil |-> 0, keep |-> IF keep THEN ctx ELSE None,
                                      ran |-> FALSE])
  /\ UNCHANGED <<currentThread, executing, time>>

DoneWithContext ==
  /\ currentThread = 0
  /\ \E ctx \in kept \ Managed :
       /\ Careful => \A t \in 1..Len(threads) : threads[t].keep # ctx
       /\ kept' = kept \ {ctx}
       /\ free' = free \cup {ctx}
  /\ UNCHANGED <<threads, currentThread, executing, time>>

\* All contexts go back, the ones to be kept too: the application forgets those, which
\* it must not give back again.
AbortAll ==
  /\ currentThread = 0 /\ threads # <<>>
  /\ free' = free \cup Managed
  /\ kept' = kept \ Managed
  /\ threads' = <<>>
  /\ UNCHANGED <<currentThread, executing, time>>

Tick ==
  /\ currentThread = 0
  /\ time < MaxTime
  /\ time' = time + 1
  /\ UNCHANGED <<threads, currentThread, executing, free, kept>>

-----------------------------------------------------------------------------
\* ExecuteScripts

ExecuteScripts ==
  /\ currentThread = 0 /\ threads # <<>>
  /\ currentThread' = 1
  /\ threads' = [t \in 1..Len(threads) |-> [threads[t] EXCEPT !.ran = FALSE]]
  /\ UNCHANGED <<executing, free, kept, time>>

ExecuteOrSkip ==
  /\ currentThread \in 1..Len(threads) /\ executing = 0
  /\ IF threads[currentThread].sleepUntil < time
       THEN /\ executing' = threads[currentThread].currentCoRoutine
            /\ threads' = [threads EXCEPT ![currentThread].ran = TRUE]
            /\ UNCHANGED currentThread
       ELSE /\ currentThread' = currentThread + 1
            /\ UNCHANGED <<threads, executing>>
  /\ UNCHANGED <<free, kept, time>>

AllExecuted ==
  /\ currentThread > Len(threads)
  /\ currentThread' = 0
  /\ UNCHANGED <<threads, executing, free, kept, time>>

\* The context that is executed, whatever the current co-routine has become.
Executed == threads[currentThread].coRoutines[executing]
Executes(ctx) == executing # 0 /\ Executed = ctx

\* Execute returns asEXECUTION_SUSPENDED.
Suspended ==
  /\ executing' = 0
  /\ currentThread' = currentThread + 1

\* Mutant: the last co-routine is followed by itself.
NextCoRoutine_stays(thread) ==
  [thread EXCEPT !.currentCoRoutine = IF @ = Len(thread.coRoutines) THEN @ ELSE @ + 1]

NextCoRoutine(thread) ==
  [thread EXCEPT !.currentCoRoutine = IF @ = Len(thread.coRoutines) THEN 1 ELSE @ + 1]

\* The context is suspended, unless it has been a nested execution of it.
ScriptYield ==
  /\ executing # 0
  /\ threads' = [threads EXCEPT ![currentThread] = NextCoRoutine(@)]
  /\ \E nested \in {FALSE, ~Careful} :
       IF nested THEN UNCHANGED <<executing, currentThread>> ELSE Suspended
  /\ UNCHANGED <<free, kept, time>>

\* The thread sleeps for some time; the sum is a 32-bit one.  It is taken of a later
\* reading of the clock than that of ExecuteScripts: the clock stands still in a call, and
\* milliSeconds stands for the time between the two readings as well.
ScriptSleep ==
  /\ executing # 0
  /\ \E milliSeconds \in 1..MaxTime :
       /\ Careful => time + milliSeconds < MaxTime
       /\ threads' = [t \in 1..Len(threads) |->
                        IF Current(threads[t]) = Executed
                          THEN [threads[t] EXCEPT !.sleepUntil =
                                  (time + milliSeconds) % (MaxTime + 1)]
                          ELSE threads[t]]
  /\ Suspended
  /\ UNCHANGED <<free, kept, time>>

ScriptCreateCoRoutine ==
  /\ executing # 0
  /\ \E ctx \in free :
       /\ free' = free \ {ctx}
       /\ threads' = [t \in 1..Len(threads) |->
                        IF Current(threads[t]) = Executed
                          THEN [threads[t] EXCEPT !.coRoutines = Append(@, ctx)]
                          ELSE threads[t]]
  /\ UNCHANGED <<currentThread, executing, kept, time>>

\* Mutant: the context is returned whether it is to be kept or not.
Returned_always(thread) == {Executed}

\* What goes back to the pool: the context, unless it is the one to be kept.
Returned(thread) == {Executed} \ {thread.keep}

\* Mutant: the index may be left behind the last co-routine.
IndexAfterErase_same(i, routines) == i

IndexAfterErase(i, routines) == IF i > Len(routines) THEN 1 ELSE i

\* Mutant: the loop goes on as if no thread had been erased.
ThreadAfterErase_skips == currentThread + 1

ThreadAfterErase == currentThread

\* The execution is over: the current co-routine is erased, and the thread with its
\* last one.
Terminated ==
  /\ executing # 0
  /\ LET thread == threads[currentThread]
         routines == RemoveAt(ReplaceAt(thread.coRoutines, executing, None),
                              thread.currentCoRoutine)
     IN  /\ free' = free \cup Returned(thread)
         /\ IF routines = <<>>
              THEN /\ threads' = RemoveAt(threads, currentThread)
                   /\ currentThread' = ThreadAfterErase
              ELSE /\ threads' = [threads EXCEPT
                        ![currentThread].coRoutines = routines,
                        ![currentThread].currentCoRoutine = IndexAfterErase(@, routines)]
                   /\ currentThread' = currentThread + 1
  /\ executing' = 0
  /\ UNCHANGED <<kept, time>>

-----------------------------------------------------------------------------
Manager == ExecuteScripts \/ ExecuteOrSkip \/ AllExecuted
Script == ScriptYield \/ ScriptSleep \/ ScriptCreateCoRoutine \/ Terminated

Next ==
  \/ \E keep \in BOOLEAN : AddContext(keep)
  \/ DoneWithContext \/ AbortAll \/ Tick
  \/ Manager \/ Script

Spec == Init /\ [][Next]_vars

\* The application keeps calling ExecuteScripts, its clock goes on, and a script that
\* is executed again and again yields or ends at times rather than only sleep.
FairSpec ==
  /\ Spec
  /\ WF_vars(Manager) /\ WF_vars(Script) /\ SF_vars(Tick)
  /\ \A ctx \in Contexts : SF_vars(Executes(ctx) /\ (ScriptYield \/ Terminated))

-----------------------------------------------------------------------------
\* The values of the variables; no thread is without a co-routine, and none of its
\* co-routines is a context that has gone.
TypeOK ==
  /\ \A t \in 1..Len(threads) :
       /\ threads[t].coRoutines \in Seq(Contexts) \ {<<>>}
       /\ threads[t].currentCoRoutine \in 1..Len(threads[t].coRoutines)
       /\ threads[t].keep \in Contexts \cup {None}
  /\ currentThread \in Nat
  /\ free \subseteq Contexts /\ kept \subseteq Contexts

\* "Unless the application has requested to keep the context we'll return it to the
\* pool now": a context is in the pool, in one place of one thread, or kept, and
\* what is in the pool nobody else has.
NoContextLost ==
  /\ Contexts = free \cup Managed \cup kept
  /\ free \cap (Managed \cup kept) = {}
  /\ \A s, t \in 1..Len(threads) :
       \A i \in 1..Len(threads[s].coRoutines), j \in 1..Len(threads[t].coRoutines) :
         threads[s].coRoutines[i] = threads[t].coRoutines[j] => s = t /\ i = j

\* One call of ExecuteScripts executes one co-routine of every thread that was not
\* asleep, though threads are erased under its index.
EveryThreadRan ==
  [][AllExecuted => \A t \in 1..Len(threads) :
       threads[t].sleepUntil < time => threads[t].ran]_vars

\* Every co-routine has its turn, whatever the others of its thread and of the other
\* threads do (they yield, sleep, end), unless new ones are created for ever: a
\* co-routine that ends as the last of its thread is followed by the one it created.
EveryCoRoutineRuns ==
  <>[][~ScriptCreateCoRoutine]_vars =>
    \A ctx \in Contexts : ctx \in Managed ~> (ctx \notin Managed \/ Executes(ctx))
=============================================================================
