# Verification of the AngelScript debugger for VS Code

`asdbg-vscode` is a VS Code extension with a debug adapter in it, and a small
C++ library that an engine embedding AngelScript links to be debugged. The two
talk over TCP. The repository also holds the script engine it is written for,
AngelScript. This directory holds TLA+ models of the debugger and of the parts
of AngelScript whose state many callers share, the TLC runs that check them and
the TLAPS proofs about them. Paths below are relative to
the repository, which the tooling calls `src/`.

## The system

| Part | Source | State | Operations |
|---|---|---|---|
| Debug adapter `AsdbgSession` | `src/asdbgSession.ts` | `breakpoints` per file, `_clients`, `_currentBreakpoint`, `_variables` | `initializeRequest` (starts the server), socket callbacks (connection, data, end), `setBreakPointsRequest`, `nextRequest`, `stepInRequest`, `continueRequest`; `stackTraceRequest` and `variablesRequest` only read |
| Backend library `AsdbgBackend` | `mock_game/asdbg_backend.hpp` | socket, `m_breankpointList` under a mutex, atomic `m_debugCommand` | `Start`, `Shutdown`, `FindBreakpoint`, `GetAbsolutePath`, `TriggerBreakpoint`, and a detached receiver thread |
| Mock engine | `mock_game/mock_engine.cpp` | `running`, `g_previousCommand` | `main`, `LineCallback` for every script line |
| Name comparison | `AreSameFiles`, `EndWith` in `asdbg_backend.hpp`; `endsWith('.as')` in the adapter | none | pure |
| Line protocol | `SplitLines`, `MessageQueue`, `ParseBeakpoints`, `ParseCommand`; `handleSocketData`, `sendBreakpoints` | none | pure, on one received chunk |
| Extension activation | `src/activateDebugger.ts`, `src/extension.ts`, `src/web-extension.ts` | one shared session object | registers providers, starts a session, inline values |
| Garbage collector | `as_gc.cpp`, `as_scriptobject.cpp` | lists of new and old objects, the map of counters, the positions of three state machines | `AddScriptObjectToGC`, `GarbageCollect`, and their steps; `AddRef`, `Release`, destructors, handle assignment |
| Script context | `as_context.cpp` | status, call stack, the flags for suspension, abort and line callback | `Prepare`, `Execute`, `Suspend`, `Abort`, `PushState`, `PopState`, `SetException`, line callbacks |
| Context manager | `add_on/contextmgr/` | threads of co-routines, sleep times, free contexts | `AddContext`, `ExecuteScripts`, `ScriptYield`, `ScriptSleep`, `ScriptCreateCoRoutine`, `AbortAll` |
| Rest of AngelScript | `mock_game/angelscript/` | | vendored, not modelled |

How they interact. An engine connects, starts its receiver thread, asks for the
breakpoints (`GET_BREAKPOINTS`) and runs its script without waiting for the
answer. The adapter answers with the whole list, and broadcasts the whole list
to every client when VS Code changes the breakpoints of a file. The script
thread looks every line up; when it stops it sends `STOP` and `VARIABLES` and
polls an atomic variable. The receiver thread replaces the list and stores
commands in that variable. The adapter tells VS Code to stop as soon as it reads
`STOP`, and broadcasts the user's command to every client.

VS Code runs one debug session after the other on the one session object of the
extension. Inside an engine a context calls the line callback before every line;
the context manager executes many contexts in turn; the objects they create are
collected a step at a time, between any two things the application does.

What is hard in it: two threads of an engine share a list and a command slot;
the adapter and each engine run apart, with a FIFO in each direction; a
connection exists for the engine before the adapter has run its callback; recv
returns any part of the stream; engines end, crash and are reset; the extension
host may go away; commands are not addressed to a stop. The hazards, line by
line, are in `PROJECT.json`.

What makes each part correct:

- adapter: every engine that stays connected ends up with the breakpoints the
  adapter holds, and the stop VS Code shows is one an engine stands at;
- backend: the list is the last one received; a command is taken once, by the
  stop it was given for; a stop is reported where it is;
- engine: it stops at every line with a breakpoint and goes on with the command
  it was given;
- name comparison: case-insensitive equality of base names; a suffix test;
- line protocol: what is read is what the other modules say is read;
- debug sessions: what the editor shows as a breakpoint is what engines have, a
  request is answered, a session shows no stop but its own;
- garbage collector: counts are exact, only garbage is broken up, garbage goes;
- context: only an active context runs, requests are seen, a nested execution
  leaves its caller as it was;
- context manager: no context is lost, every co-routine has its turn.

## Modules

Up to `DebugSystem` each module extends the one before it in this list, except
that `ScriptPaths` and `DebugMessages` stand alone.

| Module | Models | Correspondence |
|---|---|---|
| `ScriptPaths` | name comparison | A name is a sequence of characters; the backward loop of `AreSameFiles` is stated as equality of what follows the last separator. |
| `DebugMessages` | the messages, and what a cut one reads as | `CutReadings` says what the receiver makes of the part of a message in front of a cut, `Rests` what the next recv finds of it, `BehindHeader` what it makes of that when it is the line `BREAKPOINTS`. |
| `DebugWire` | the TCP connections | `toSession[e]` and `toEngine[e]` are FIFOs of messages; `link[e]` is the adapter's view of the connection (`pending` until its connection callback ran, `reset` when no `end` event will come). A socket closed with unread data may reset the connection. |
| `AsdbgBackend` | receiver thread and shared state of the backend | `rx` is the thread's position; clear and each push of `ParseBeakpoints` are separate actions because they are separate critical sections. `Receive` returns any number of messages that fit, `ReceiveCut` fills the buffer and cuts a message; what is left of it stays in the stream, takes room in the next recv and is read there (`UnknownMessage`, `StrayHeader`). `misread` records that the list read last was cut or came behind such a header. `loan` records that the script thread uses list memory without the mutex. |
| `MockEngine` | the script thread: `main`, `LineCallback`, `TriggerBreakpoint` | `pc` is the thread's position, `site` the test of `LineCallback` being made (step over, step in, breakpoint). `LoadCommand` and `StoreNothing` are the two atomic accesses of the polling loop. `Crash` and `Readable` are the outcomes of reading changed list memory. |
| `AsdbgSession` | the debug adapter | One action per event-loop callback. |
| `DebugSystem` | composition with VS Code, its user and the extension host | `Next`, `Spec`, `FairSpec` and all properties. |
| `OneEngine` | refinement of `StopAndGo` | Refinement mapping for one engine. |
| `StopAndGo` | abstract specification (extends nothing) | Stop, show, command, resume, with no threads or messages. |
| `DebugSessions` | `activateDebugger.ts` around `DebugSystem` | Adds the editor's breakpoints and the life of a debug session: `initialize`, the requests of its configuration, `configurationDone`, its end. `DebugSystem`'s requests happen only inside a configured session. |
| `MessageText` | the text of numbers and locations: `std::to_string` and template strings, `find`, `split`, `std::stoi`, `parseInt` | A text is a sequence of characters and half keywords. |
| `LineProtocol` | the texts to the engine, `SplitLines`, `MessageQueue`, the backend's parser | recv takes any part of the stream, character by character. It shares `DebugMessages` with the others. |
| `DataEvents` | the texts to the adapter, the `data` callback and `handleSocketData` | A data event has any number of whole writes. A line is a sequence of characters, and a call of `handleSocketData` takes lines from the front. |
| `NameScan` | the loop of `AreSameFiles` | Its two indices and one action per turn of the loop. |
| `GarbageCollector` | `asCGarbageCollector` and `asCScriptObject` | One action per arm of the switches of `DestroyNewGarbage`, `DestroyOldGarbage` and `IdentifyGarbageWithCyclicRefs`; `calls` is the rest of what the call under way is to do. The application's handles are counted in `held`. |
| `ScriptContext` | `asCContext` | `native` is the C++ stack of `Execute` calls and of what they have called; `callStack` that of the script, with the markers `PushState` leaves. |
| `ContextManager` | `CContextMgr` | `currentThread` and `executing` are the position of `ExecuteScripts`. |
| `DebugSystem_proofs`, `OneEngine_proofs`, `DebugSessions_proofs` | theorems about the debugger; each module extends the one before it | see below |
| `NameScan_proofs`, `DataEvents_proofs`, `GarbageCollector_proofs`, `ScriptContext_proofs`, `ContextManager_proofs` | theorems about the other parts | see below |
| `MC...` | names and sets for TLC | |

Definitions whose name ends in `_something` after the name of an action
(`HandleStop_silent`) are plausible wrong versions of it; `Next` does not
use them. They show that the properties can fail.

## Properties

- `TypeOK`: types.
- `Converged`: once nothing is under way on a connection, the engine has exactly
  the breakpoints the adapter holds, unless the list it has read last was cut by a
  recv or came behind the stray header such a cut has left.
- `NoUpdateLost`: the inductive invariant behind it. What the adapter holds is
  still to be requested, or is the last list in the socket, or the last list in
  the chunk being parsed, or what the list will be when it is filled. Its part
  `Reachable` is the reason a broadcast to `_clients` is enough: an engine that
  is not a client yet must still have its `GET_BREAKPOINTS` unanswered.
- `EventuallyConverged`: the same as a liveness property.
- `CommandOnlyAtStop`: with one engine and one unanswered request, a command is
  under way only while the engine stands at the stop it was given for. So the
  store of `Nothing` erases no newer command and none is left over.
- `ShowsTheStop`: with one engine, what VS Code shows as stopped is where the
  engine stands.
- `NeverBothWaiting`: with one engine, VS Code never shows a running session
  while the engine polls for a command that nobody is going to send.
- `StepStopsEnd`: however the user answers, one executed line makes at most two
  stops for step commands, and the second answers a step in.
- `UserViewImplemented`: the system with one engine implements `StopAndGo`,
  with its fairness: each stop is shown where it is, gets one command and is
  left with that command.
- `EngineHasMarks`: across two debug sessions and edits between them, an engine
  that is connected and has nothing under way has, in a script with breakpoints,
  exactly those the editor shows.
- `ShowsTheStopOfSession`: a session shows a stop only where the engine stands.
- `ResponsesUnderWay`: no request for a script is without a response or one that is
  still to come, so the configuration of a session does not wait in vain.
- `ReadsAsModelled`: what the backend's parser makes of any part of the text is one
  of the readings the other modules assume.
- `StopsReadBack`: however writes are merged into data events, no stop is lost, told
  twice or out of order, the location held is that of the stop told last, and when
  all is read nothing is missing.
- `ScanDecides`: the loop of `AreSameFiles` ends with equality of base names.
- `CountsExact`: a reference count is the number of handles to the object, those
  of the collector and of its map included.
- `OnlyGarbageBroken`: handles are cleared only in objects nobody can reach.
- `FullCycleLeavesNoGarbage`: when a full cycle that detects and destroys ends, the
  application can reach every object there is, however far an incremental search had
  come when the cycle began. Destructors may take a handle to their object.
- `GarbageIsFreed`: with incremental calls alone, garbage is freed in the end.
- `RunsOnlyActive`: no instruction runs after an exception or a suspension.
- `RequestsSeen`: at every instruction, `doProcessSuspend` is set if there is a
  line callback or a request to suspend is recorded. It is one flag for both, which
  nested executions, callbacks and exceptions all write. It does not say that every
  request is seen: a nested `Prepare` and the end of a nested `Execute` erase the
  record of one that was made for the outer execution.
- `OuterKept`: nothing but `PopState` changes the call stack below a marker, and
  that restores the function that has called.
- `NoContextLost`: a context is in the pool, in one place of one thread, or kept.
- `EveryThreadRan`: one call of `ExecuteScripts` runs every thread that does not
  sleep, though threads are erased under its index.
- `EveryCoRoutineRuns`: every co-routine has its turn.

## Runs

| Run | Instance | Shows |
|---|---|---|
| `one_engine` | one engine, two scripts, a recv of three or four lines, line 23, which a cut may turn into 2; two edits, host may exit | `Converged` after cut messages and stray headers, `CommandOnlyAtStop`, `ShowsTheStop`, `StepStopsEnd` |
| `two_engines` | two engines (symmetric), a script and another file, no commands | `Converged`, `NoUpdateLost` when connections and edits race |
| `user_view` | one engine, one file, one line, a recv that cuts nothing, fairness | `NeverBothWaiting`, `UserViewImplemented`, `EventuallyConverged` |
| `line_protocol` | a recv of 12 characters, two entries, numbers of two digits, four messages | `ReadsAsModelled` |
| `data_events` | two names, one of them with a dot, numbers of one and three digits, four requests and stops | `StopsReadBack` |
| `name_scan` | all pairs of names of up to three characters | `ScanDecides` |
| `sessions` | one engine, a script and another file, two sessions | `EngineHasMarks`, `ShowsTheStopOfSession`, `ResponsesUnderWay` |
| `collect` | two objects, destructors that keep their object | `CountsExact`, `FullCycleLeavesNoGarbage` |
| `collect_live` | two objects, incremental calls only, fairness | `OnlyGarbageBroken`, `GarbageIsFreed` |
| `context` | call stack of 5, two nested executions, a second thread | `RunsOnlyActive`, `RequestsSeen`, `OuterKept` |
| `co_routines` | three contexts, a clock of four values, fairness | the manager's invariants, `EveryThreadRan`, `EveryCoRoutineRuns` |

One run finds a behaviour that a document excludes. `missed_breakpoint`: the readme
says "hit breakpoints set in script files", and a line is executed between the
clear of the list and the push of the line's own, unchanged breakpoint.

### What the properties assume

Some properties hold only where the code is used in a certain way. The bounds and
the Boolean constants of the modules state it; without it this is what happens:

- Messages that fit a recv. The entries of a list behind the end of one recv are
  lost until the next list. If recv ends between `END_` and `BREAKPOINTS`, the next
  one begins with a line that is taken for the header of a list: the list is cleared,
  and everything up to the next `END_BREAKPOINTS` is read as entries. The next list
  then gets one entry too many, whose path is its own header, and the lines before it,
  in front of a path; a command before it is lost. `Converged` excludes both, the list
  that was cut and the one behind a stray header, and says that the next list after
  them is right again. A command is also lost by a recv that ends between `COMMAND`
  and its argument: VS Code shows a running session and the engine waits. A stop at
  the entry too many is sent over several lines, and the adapter drops it as invalid.
  `one_engine`, where recv is small, therefore does not check `NeverBothWaiting`;
  `user_view` does.
- An adapter that stays. The polling loop of `TriggerBreakpoint` does not look at
  `running`: an engine at a stop whose adapter goes away waits until it is killed.
- One engine, for what is said of commands and stops. With two, a command given for
  the stop of one is stored in the other as well and ends its next stop at once,
  and the stop shown is the last one sent.
- One unanswered request (`MaxPending`), as VS Code's buttons allow.
- `EngineHasMarks` speaks of files with breakpoints: VS Code sends nothing for one
  whose breakpoints were all removed between two sessions, and the session object
  still has them. `ShowsTheStopOfSession` does not say that every stop is shown: one
  between two sessions is not, and its engine waits. `ResponsesUnderWay` speaks of
  scripts: a request for any other file gets no response.
- No comma in a path. The backend splits an entry at its first comma, so the breakpoint
  would be dropped, and the adapter a location, so the stop would be shown in another
  file, at no line. The paths of `LineProtocol` and `DataEvents` have none, and the
  theorem about `StopsReadBack` says so (`NoCommas`).
- The collector's runs have `Threads = FALSE`: buildMap reads a count and sets the
  flag in two steps, and another thread that moves handles in between can make
  `OnlyGarbageBroken` fail. `collect_live` has no destructor that takes its object.
- `Careful` in `ScriptContext`: PopState of a suspended nested execution takes one of
  its frames for the marker, and `CScriptArray::operator==` pops one if a script's
  `opEquals` is suspended (`scriptarray.cpp:1130`, `1192-1197`), so an engine that
  registers the array add-on and suspends such a comparison, from the line callback
  for instance, is outside the properties; a line callback set behind a raised
  exception clears the flag that makes the script stop; a Suspend of a second thread
  leaves a request without the flag if it comes while SetLineCallback or
  ClearLineCallback computes the flag, or in `Prepare` between the writes of
  `m_doSuspend` and `doProcessSuspend` (`as_context.cpp:751-752`), though the comment
  in `Suspend` calls it safe from a secondary thread. Also, and with no property
  that says otherwise: a request to abort can outlive its execution, since Prepare
  does not reset it behind a finished one; an exception in a nested execution counts
  as one that will be caught when a try block of the outer one surrounds the call; a
  suspension replaces the status of an exception raised by the same call.
- `Careful` in `ContextManager`: a kept context that is given back early and comes
  back into its thread as a co-routine is not returned at its end; a yield in a nested
  execution moves the current co-routine while the outer execution goes on, so that
  another one is erased at its end; the sum of the time and a long sleep wraps, and
  the thread does not sleep. `AbortAll` gives back kept contexts as well: the
  application is taken to forget them then, as it must.

### Bounds

`MaxEdits` bounds the edits of the user: two are enough for a newer list to
overtake, replace or follow an older one in the socket, in a chunk and in the
list. `MaxQueue` makes the user pause while that many messages wait for an
engine; three leave room for two lists and a command. `MaxPending` is the number
of unanswered control requests: with 1 the user interface is the one of VS Code,
which shows the session as running after a press; more would let the user give
a command for a stop not yet seen. `two_engines` sets it to 0 because commands
of two engines mix, and its question is about breakpoints.
It allows one edit, which races both connections; `UpdatesSurvive` and
`Convergence` are proved for any number of edits and engines.
One line is enough because the code compares lines for equality only;
the number of files matters in `two_engines`, where one of two is not a script, and in
`one_engine`, where two make a list of two entries. `RecvLines` is a set, since recv has room for characters and lines differ in their
length. With `{20}` no message is cut; with `{3, 4}` a list of one entry fits, a list
of two entries only if it comes first into a recv of four lines, and a command behind a
list, or a message behind what a cut has left, is cut as well. Everything else is finite by
itself: an engine that executes its script forever returns to the same states.
Deadlock is not checked: the user may stop acting and all engines may have
ended, or wait at a stop.

`line_protocol` has keywords as one or two characters each, so that a recv of 12
ends in every place of a list of two entries; four messages are enough for one
to be cut, for its rest to come alone or in front of the next, and for a whole
one after that. In `data_events` four requests and stops are enough for a stop to be
merged with the requests and stops on both sides of it; the theorem has any number. Names of three characters hold a separator with something on
both sides of it; the theorem has all lengths. Two sessions are enough because
the second finds what one has left. Two objects of one handle make a circle, a
chain and a self reference; `MaxHeld` bounds the handles of the application to
one object, which are alike; `sweeps` counts up to three, what `seqAtSweepStart`
tells apart. The call stack of 5 holds two markers with a function on both sides
of each, and with two nested executions there is one inside another and one too
many. Three contexts are a thread with two co-routines and another thread, and
`MaxTime` is when the clock stops: it leaves room for a sleep, for calls
that skip the sleeping thread, and for one that wakes it. `Parts` are the iterations of
the collector that are called for: `collect` has those that only destroy as well,
`collect_live` those that do both, which is what an engine asks for by itself.

### Fairness

Weak fairness of each script thread after its start, each receiver thread, each
socket's callbacks, the adapter's request handling and VS Code's reading: the
operating system runs threads and the event loop runs callbacks that are ready.
Nothing is assumed of the user, of the start of an engine, of the host's exit or
of its start. Fairness of the script thread does not choose between the lines it
may execute.

`collect_live` assumes that the application calls `GarbageCollect`
again and again, and that a call goes on to its end; nothing of what else the
application does. `co_routines` assumes that `ExecuteScripts` is called
again and again, that the clock goes on, and that a co-routine that is executed
infinitely often yields or ends infinitely often rather than only sleep: one that
always sleeps takes its whole thread with it, since threads sleep and not
co-routines. It excludes co-routines created for ever. The clock is
bounded and stops in the end, so that in each behaviour threads sleep finitely often:
what follows from sleeping again and again is not shown.

## Proofs

The proofs about `DebugSystem` and `DebugSessions` hold for every set of engines, paths
and sections, every set of line numbers, and every value of `RecvLines` and the user's
bounds; those about `NameScan` for names of any length and characters; those about
`DataEvents` for any names, line numbers and numbers of writes; those about
`GarbageCollector` for any number of objects, any finite number of handles in each, with
and without threads; those about `ScriptContext` and `ContextManager` for every value of
their constants with which `Careful` is true. The assumptions on constants only say what
they range over. Where a theorem assumes more, its statement says so:

- `OneAtATime`: one engine and at most one unanswered control request. With two of
  either the statement is false (see "What the properties assume").
- `[][KeepsToken]_vars`: a recv that ends inside a message, and the stray header one
  leaves, lose no command under way, and the adapter can take apart the location of
  every `STOP` it handles. `RecvLines` cannot say it, since it depends on what is in the
  stream. It holds where nothing is cut and no path or section has a line feed in it.
- `MayExit = FALSE`, in the refinement only: the extension host stays, since a user
  whose host has gone is not a user `StopAndGo` speaks of. Engines may exit, crash and be
  reset.
- `[][Undisturbed]_vars`, in `NothingReachableBroken` only: see there.
- `NoCommas`, in `StopsReadBackHolds` and `WholeMessagesHolds` only: no name has a comma.

### The debugger

- `TypeCorrect`: `Spec => []TypeOK`. One lemma per component says what its steps
  keep. The only step that needs thought is the cut of a message: a cut list
  is again a set of breakpoints.
- `UpdatesSurvive`: `Spec => []NoUpdateLost`. The argument follows the last list
  through the two queues. Lemmas about sequences (`LastOfAppend`, `LastOfTail`,
  `LastOfSplit`, `LastOfCut`) say where the last list of a queue is after a
  write, a parse, a recv and a cut; behind a stray header the last list of the chunk
  is either still in it or `misread` is set. `KeepsSafe` covers every step that leaves the
  data of an engine alone; then there is one lemma per actor.
- `Convergence`: `Spec => []Converged`, from the two above. `Converged` is not
  inductive: it says nothing while messages are under way, which is when they
  could be lost. `NoUpdateLost` says it at every moment.
- `LineStopsEnd`: `Spec => []StepStopsEnd`. `StepCount` says how many stops a line has
  made at each of the three tests, and that the test for a step in is made only for
  one: a step over is tested for once, so what comes behind it counts on from one.
- `NoCommandLeftOver`, `StopShown`: `Spec => []CommandOnlyAtStop` and
  `Spec => []ShowsTheStop`, under `OneAtATime`. The invariant `OneToken` is a token: the
  `STOP` in the socket (`Sent`), the event that waits for VS Code (`Told`), what it
  shows (`Shown`), the user's request (`Ordered`), and the command in the stream, in the
  chunk or in the slot (`UnderWay`) are the places of one thing, which is in at most
  one of them (`AtOnePlace`), once (`OnlyOnce`), only while the engine stands
  (`WhileStanding`) and with that engine's location (`SamePlace`). `Answers` is what
  makes it inductive at VS Code: a response reaches it before the next stop does, so a
  press is never counted as unanswered when a new stop is shown. Lemmas about the
  messages of a kind in a queue (`InAppend`, `InTail`, `InParts`, `InCut`, `InBehind`) say where
  the token is after a write, a read, a recv, a cut and a stray header. Neither exits nor
  cuts are excluded: they may lose the token, not double it.
- `SomeoneActs`: `Spec /\ [][KeepsToken]_vars => []NeverBothWaiting`, under
  `OneAtATime`. The other half of the token: an engine that stands and is connected has
  it in one of its places (`TokenInPlay`).
- `SafelyImplementsUserView`: under `OneAtATime` and `MayExit = FALSE`,
  `Spec /\ [][KeepsToken]_vars` implies the initial condition and the next-state
  relation of `StopAndGo` under the refinement mapping of `OneEngine`. `ViewRight` reads
  the mapping off the place of the token; `StandingPasses` and `StopBegins` say that a
  step either keeps the token, shows the stop, answers it or resumes, which are the
  actions of `StopAndGo`.
- `ResponsesCome`: `SessionsSpec => []ResponsesUnderWay`. The invariant is the balance
  itself, with the types and with what is so between sessions (`Sound`); the work is in
  lemmas that count the elements of a kind in a queue after an append, a tail and the
  removal of an element in the middle, which is what a response removes
  (`NumberWithout`), and in the existence of a first unanswered request for a script.
- `MarksReachEngines`: `SessionsSpec => []EngineHasMarks`. `MarksUnderWay` says that what
  the editor shows of a script is still to be sent by the session, or is the last request
  for it that waits, or is what the adapter has; `NoUpdateLost`, which the steps of a
  session keep too, takes it from there to the engine.
- `StopShownInSession`: `SessionsSpec => []ShowsTheStopOfSession`, under `OneAtATime`.
  `OneToken` once more: the end of a session, and the next one's beginning, drop the
  token if it is an event or shown (`Dropped`), and nothing is ordered at either moment,
  since a disconnect waits for the requests before it. That is why the stop of a
  session cannot come up in the next.

### The other parts
- `ComparesFileNames`: `Spec => []ScanDecides`. The invariant `Walked` says that
  the characters behind both indices are equal but for case and hold no
  separator, which is what the loop has found out at any turn.
- `NumberReadsBack`: `LeadingNumber(NumberText[n]) = n` for every natural number, what
  makes a line number survive its way through text. Both directions are recursive
  functions; their values are reached by an induction over a set of naturals
  (`AllNaturals`, `AllFromBelow`), which needs no operator as a parameter.
- `WholeMessagesHolds`, `StopsReadBackHolds`: `Spec => []WholeMessages` and
  `Spec => []StopsReadBack` of `DataEvents`, under `NoCommas`. `StopsReadBack` says
  little while lines are under way. The invariant names three places in all that was
  ever written: where the adapter stands, where the data event ends, and where the
  writes end. Between two places the lines are those of whole messages, each with the
  stop it was written for (`Between`), so that a call of `handleSocketData` finds
  exactly one message in front (`TakeOne`), and what the adapter has counted is what is
  in front of its place. A write adds one message (`OneMore`) and leaves those before it
  alone (`StopsGrow`); the text of a location read back is the location
  (`LocationReadsBack`).
- `CountsStayExact`, `TypesKept` of `GarbageCollector`: `Spec => []CountsExact` and
  `Spec => []TypeOK`. The invariant `IInv` says of each call what the lists, the map and
  the positions in them are while it is under way (`CallsInOrder`, `Search`), that an
  object is in the lists and calls exactly once while it lives (`OnceListed`), and the
  equation of `CountsExact` (`Counts`). An assignment of handles, the clearing of an
  object and its destructor each change one side of that equation at several
  objects; lemmas about the handles to an object (`HandlesTo`, a set of places, so that
  no sum over objects is needed) say by how much.
- `NothingReachableBroken`: `Spec /\ [][Undisturbed]_vars => []OnlyGarbageBroken`. The
  invariant `Garbage` follows the search through its states: a flag that is still set
  means that the references counted are all there are; then that what is not accounted
  for yet comes from objects the loop has not passed; then that all that refers to the
  object is in the map. A set of objects that all references to come from is closed, so
  the application cannot reach it. `Undisturbed` is what the code relies on without
  saying so: nobody changes a count between the reading and the setting of
  the flag, and a destructor that is called to break a circle takes no handle to its
  object. `OneThreadBreaksGarbage` shows that both are so in an application without
  threads whose destructors keep nothing, with no hypothesis on behaviours.
- `FullCycleIsThorough`: `Spec => FullCycleLeavesNoGarbage` in an application without
  threads, with destructors that may keep their object. Where the theorem before says
  that what the search takes for garbage is, this one says that it misses none. `Kept`
  is what no search may miss to mark: the objects in every set that has those held by
  the application, those nothing refers to (the lists release them by themselves), and
  what an object of the set refers to. As nobody works on the objects during the cycle,
  all flags stay set, a counter is at any time the number of references not accounted for
  yet, and what is outside the map or in `liveObjects` is in `Kept`
  (`KnowsWhatIsKept`). So a search that breaks no circle leaves only `Kept`. The cycle
  ends after a sweep that has destroyed nothing: then no object is without references
  that the application does not hold, and `Kept` is what it can reach.
- `OnlyActiveRuns`, `SeesRequests`: `Spec => []RunsOnlyActive` and
  `Spec => []RequestsSeen`, for every `MaxCallStack` and `MaxNestedCalls`, with and
  without a second thread, assuming `Careful`. Neither is inductive: they speak of
  the frame on top of the C++ stack, and a step may bring the one below to light.
  The invariant has three parts. `Stack` says what may stand upon what (Execute upon
  a frame that has pushed the state, a callee upon Execute); `Active` what is known
  of the status where a call is to return to a script; `Seen` what the flag is at
  each place, which differs at the end of Execute and while the flag is written. `Careful`
  keeps the Suspend of another thread out of the latter. Five
  lemmas (`Entering`, `Replacing`, `Calling`, `Returning`, `Removing`) reduce every
  action to what it knows of the frame it leaves on top.
- `OuterFunctionsKept`, `TypesKept` of `ScriptContext`: `Spec => OuterKept` and
  `Spec => []TypeOK`, assuming `Careful`. The code takes whatever frame it finds where it
  expects a marker. `Levels` says that it finds one: the markers in the call stack and
  the frames of the C++ stack that have pushed a state are the same in number and order
  (`Marked`, `Pushes`), and where no script runs above the topmost marker nothing is
  above it (`Goes`). Types need it as well: without it `PopState` would take a frame of
  a function for a marker, and the function that runs next would be one.
- `NothingLost`, `TypesKept`: `Spec => []NoContextLost` and `Spec => []TypeOK` of
  `ContextManager`, for any number of contexts, assuming `Careful`. `NoContextLost` is
  not inductive: whether a context that ends may go back to the pool depends on what
  its thread knows it has to keep (`KnowsKept`), and that the context that ends is the
  one that is erased depends on the executed co-routine being the current one of the
  current thread (`Executing`), which a nested yield would break. Lemmas about any
  threads, pool and kept contexts (`ThreadAdded`, `CoRoutineAdded`,
  `CoRoutineErased`, `ThreadErased`, `SameCoRoutines`) carry the argument; the
  lemmas of the actions show which of them a step is.
- `NoThreadPassedOver`: `Spec => EveryThreadRan`, assuming `Careful`. `TurnsTaken` says
  that every thread below the index has been executed in this call or sleeps. A thread
  that ends is erased and the index stays, so what is below it is as before; a thread put
  to sleep sleeps past this moment because the sum does not wrap; and only the executed
  thread is changed, which needs that no other has the executed context (`Inv`).

### What is only model-checked

Every safety property a run checks is proved but one; the rest is liveness.

- `ReadsAsModelled` of `LineProtocol`: it compares the fold of a parser over the lines of
  a chunk, cut at any character, with the readings of whole and cut messages, and holds
  only for line numbers of at most five digits, which `LeadingDigits` has.
- `GarbageIsFreed`, `EventuallyConverged`, `EveryCoRoutineRuns` and the liveness part of
  `UserViewImplemented`: liveness under fairness, which the prover does not handle. The
  safety part of the last is proved.

## Abstractions and what is not modelled

- Placeholder variables are reduced to whether any have come; the script to any
  sequence of lines, with no call stack (the code reads depth 0 only).
- A message is one write (`LineProtocol` has the text of it). The adapter's `data` events are taken to hold whole
  messages; the code splits each event on its own, so a message of an engine
  split over two events would be misread. Those messages are at most some
  hundred bytes, and each is one `send`. In the other direction a recv ends inside
  a message only when its buffer is full: each message is one write on the
  loopback interface.
- Of a cut message what remains is so many lines of unknown text, or, if the cut falls
  between `END_` and `BREAKPOINTS`, the line `BREAKPOINTS`. The path of the entry too
  many that such a line leads to is abstracted to one line feed in front of the path it
  ends with: it is in no list of the adapter and matches the same sections.
- What the adapter reads of the lines behind a `STOP` it has dropped is unknown text to
  it and left out. `DataEvents` has locations of one line only.
- A `setBreakpoints` request always names a path. Without one the adapter would
  broadcast an unchanged list.
- The order of the entries of a list is left out: `FindBreakpoint` returns the
  first match, the model any.
- Reading list memory without the mutex while the receiver writes is undefined
  in C++. The model's outcomes are the old location, noise, a breakpoint stored
  since, or a crash.
- `send` on a closed connection is lost. On POSIX it would raise SIGPIPE and end
  the engine; the readme builds for Windows, where it returns an error.
- `Shutdown`'s second close by the destructor, the destruction of `running`
  under the detached thread, and the socket's and the second server's `error`
  event are hazards no property covers; `PROJECT.json` says why.
- Inline values and evaluatable expressions read the text of an editor and keep
  no state.
- `GarbageCollector` has script objects only: a registered type without the
  collector's behaviours is handled like an object without handles. Weak
  references, statistics and the report at shutdown are left out. An object's
  sequence number is replaced by the number of sweeps begun since it was added.
- `ScriptContext` abstracts an instruction to what it does to the status, the
  call stack and the flags, and a function to whether it is inside a try block.
  Arguments, variables, the stack memory and serialization are left out. The two
  writes of `Suspend` are one step, made with the second: a script that runs sees at
  worst a line later what it was to see, and a request that `Prepare` or the end of
  `Execute` erases between them is lost as one that comes before.
- The destructors the collector calls to break a circle at most take a handle to their
  own object. A script's destructor may do anything, create objects for instance, which
  join the list of new ones in the middle of a cycle (`as_gc.cpp:126-131`): what
  `FullCycleLeavesNoGarbage` says is not shown for such a script.
- `ContextManager` leaves out the statistics of the collector. The clock stands still
  while `ExecuteScripts` runs; `SetSleeping` reads it again (`contextmgr.cpp:360`), and
  the time that has gone by is taken to be part of `milliSeconds`.

### Not modelled

The rest of AngelScript, which is nine tenths of the lines of the repository: the
compiler, builder, parser, bytecode, `asCRestore`, the engine's registration of
types and functions, the native calling conventions, containers, string and
array add-ons. It is third-party code, sequential, without state that a second
actor changes: what it does is a function of its input, script text in and
bytecode out, and a model of it would be the code once more. The debugger talks
to it only through line callbacks and call-stack queries. For this reason most
lines of the repository are not mapped, though every part of the debugger is.

## Plan

Done: the debugger (`DebugSystem` and its parts), its refinement of `StopAndGo`,
the line protocol, name comparison, debug sessions, and of AngelScript the
garbage collector, the context and the context manager.

All safety properties that a run checks are proved, except `ReadsAsModelled`.

Left: step over, into and out of the AngelScript add-on `CDebugger`, once the engine
uses it in place of the placeholder of `LineCallback`.
