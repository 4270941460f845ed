--------------------------- MODULE GarbageCollector --------------------------
(***************************************************************************)
(* asCGarbageCollector (as_gc.cpp) and the script objects it collects      *)
(* (asCScriptObject): reference counting, with a list of new and a list of *)
(* old objects that are released when nobody else holds them, and an       *)
(* incremental search for cycles among the old ones.  Between two calls of *)
(* the collector the application works on.                                 *)
(*                                                                         *)
(* A call runs through the arms of its switch, one action each, until one  *)
(* of them returns.                                                        *)
(***************************************************************************)
EXTENDS Integers, Sequences, FiniteSets

CONSTANTS
  N,             \* object addresses
  Props,         \* the handles an object has
  MaxHeld,       \* bound: handles the application holds to one object
  MayResurrect,  \* may a destructor take a handle to its object
  Threads,       \* may another thread of the application run during a call
  Parts          \* the parts an iteration may be asked for: [detect, destroy]

ASSUME CollectorAssumption ==
  /\ N \in Nat
  /\ IsFiniteSet(Props)
  /\ MaxHeld \in Nat
  /\ MayResurrect \in BOOLEAN
  /\ Threads \in BOOLEAN
  /\ Parts \subseteq [detect : BOOLEAN, destroy : BOOLEAN]

Objects == 1..N
Null == 0

VARIABLES
  alive,            \* the objects that exist
  props,            \* their handles
  held,             \* handles of the application: variables, globals, the stack
  refCount, gcFlag, isDestructCalled,
  gcNewObjects,     \* with how many sweeps have begun since each was added
  gcOldObjects,
  destroyNewState, destroyNewIdx, destroyOldState, destroyOldIdx,
  detectState, detectIdx,
  gcMap,            \* the counter of every object in the map
  gcMapCursor,      \* the next object of the map, or Null
  liveObjects,
  counted,          \* the reference count buildMap has read, 0 before
  calls,            \* the calls to make: "new", "old", "detect", then "add"
  adding,           \* the object "add" is for, or Null
  cycle             \* the full cycle under way: what it does, what it counted

objectVars == <<alive, props, held, refCount, gcFlag, isDestructCalled>>
listVars == <<gcNewObjects, gcOldObjects>>
destroyVars == <<destroyNewState, destroyNewIdx, destroyOldState, destroyOldIdx>>
detectVars == <<detectState, detectIdx, gcMap, gcMapCursor, liveObjects, counted>>
vars == <<objectVars, listVars, destroyVars, detectVars, calls, adding, cycle>>

NoCycle == [on |-> FALSE, detect |-> FALSE, destroy |-> FALSE, count |-> 0]

Init ==
  /\ alive = {}
  /\ props = [o \in Objects |-> [p \in Props |-> Null]]
  /\ held = [o \in Objects |-> 0]
  /\ refCount = [o \in Objects |-> 0]
  /\ gcFlag = [o \in Objects |-> FALSE]
  /\ isDestructCalled = [o \in Objects |-> FALSE]
  /\ gcNewObjects = <<>>
  /\ gcOldObjects = <<>>
  /\ destroyNewState = "init" /\ destroyNewIdx = 0
  /\ destroyOldState = "init" /\ destroyOldIdx = 0
  /\ detectState = "clearCounters"
  /\ detectIdx = 1
  /\ gcMap = <<>>
  /\ gcMapCursor = Null
  /\ liveObjects = {}
  /\ counted = 0
  /\ calls = <<>>
  /\ adding = Null
  /\ cycle = NoCycle

-----------------------------------------------------------------------------
\* Objects

\* AddRef and Release, which both clear the flag; Null has no counter.
AddRefs(targets) ==
  refCount' = [o \in Objects |-> refCount[o] + targets[o]]
Touch(S) == gcFlag' = [o \in Objects |-> gcFlag[o] /\ o \notin S]
One(x) == [o \in Objects |-> IF o = x THEN 1 ELSE 0]

\* How many handles of o refer to each object, and to which objects they do.
Targets(o) == {props[o][p] : p \in Props} \ {Null}
Handles(o) == [x \in Objects |-> Cardinality({p \in Props : props[o][p] = x})]
NoHandles == [p \in Props |-> Null]

\* What the application can get at: what it holds, and what the handles of that
\* refer to.
Closed(S) ==
  /\ {o \in alive : held[o] > 0} \subseteq S
  /\ \A o \in S : Targets(o) \cap alive \subseteq S
Reachable == {o \in alive : \A S \in SUBSET alive : Closed(S) => o \in S}

-----------------------------------------------------------------------------
\* The application

Works ==
  /\ Threads \/ calls = <<>>
  /\ UNCHANGED <<destroyVars, detectVars, cycle>>

Under(kind) == calls # <<>> /\ Head(calls) = kind
Iterations == IF Len(gcNewObjects) > 10 THEN 10 ELSE Len(gcNewObjects)

AddNew(o) ==
  /\ gcNewObjects' = Append(gcNewObjects, [obj |-> o, sweeps |-> 0])
  /\ UNCHANGED gcOldObjects

\* asCScriptObject(), with the reference its creator holds, and
\* AddScriptObjectToGC, which unless a collection is under way makes one call for
\* the old objects and a few for the new before it adds the object.
Create ==
  /\ Works
  /\ \E o \in Objects \ alive :
       /\ alive' = alive \cup {o}
       /\ held' = [held EXCEPT ![o] = 1]
       /\ refCount' = [refCount EXCEPT ![o] = 2]
       /\ gcFlag' = [gcFlag EXCEPT ![o] = FALSE]
       /\ isDestructCalled' = [isDestructCalled EXCEPT ![o] = FALSE]
       /\ IF gcNewObjects # <<>> /\ calls = <<>>
            THEN /\ calls' = (IF gcOldObjects # <<>> THEN <<"detect", "old">> ELSE <<>>)
                              \o [i \in 1..Iterations |-> "new"] \o <<"add">>
                 /\ adding' = o
                 /\ UNCHANGED listVars
            ELSE AddNew(o) /\ UNCHANGED <<calls, adding>>
  /\ UNCHANGED props

Add ==
  /\ Under("add")
  /\ AddNew(adding)
  /\ calls' = <<>>
  /\ adding' = Null
  /\ UNCHANGED <<objectVars, destroyVars, detectVars, cycle>>

\* A handle to a reachable object is copied to a variable, or a variable cleared.
Take ==
  /\ Works
  /\ \E o \in Reachable :
       /\ held[o] < MaxHeld
       /\ held' = [held EXCEPT ![o] = @ + 1]
       /\ AddRefs(One(o)) /\ Touch({o})
  /\ UNCHANGED <<alive, props, isDestructCalled, listVars, calls, adding>>

Drop ==
  /\ Works
  /\ \E o \in alive :
       /\ held[o] > 0
       /\ held' = [held EXCEPT ![o] = @ - 1]
       /\ AddRefs([x \in Objects |-> -One(o)[x]]) /\ Touch({o})
  /\ UNCHANGED <<alive, props, isDestructCalled, listVars, calls, adding>>

\* A handle of a reachable object is assigned.
Assign ==
  /\ Works
  /\ \E o \in Reachable, p \in Props, x \in Reachable \cup {Null} :
       /\ props[o][p] # x
       /\ props' = [props EXCEPT ![o][p] = x]
       /\ AddRefs([y \in Objects |-> One(x)[y] - One(props[o][p])[y]])
       /\ Touch({x, props[o][p]})
  /\ UNCHANGED <<alive, held, isDestructCalled, listVars, calls, adding>>

-----------------------------------------------------------------------------
\* Calls

\* One iteration of GarbageCollect: to destroy, to detect or both.
Collect(detect, destroy) ==
  /\ calls = <<>>
  /\ detect => destroy \/ gcOldObjects # <<>>
  /\ calls' = (IF destroy THEN <<"new", "old">> ELSE <<>>)
                \o (IF detect THEN <<"detect">> ELSE <<>>)
  /\ UNCHANGED <<objectVars, listVars, destroyVars, detectVars, adding, cycle>>

\* GarbageCollect with asGC_FULL_CYCLE, to detect, to destroy or both.
FullCycle ==
  /\ calls = <<>>
  /\ \E detect, destroy \in BOOLEAN :
       /\ detect \/ destroy
       /\ IF detect
            THEN /\ gcOldObjects' = gcOldObjects \o
                                      [i \in 1..Len(gcNewObjects) |-> gcNewObjects[i].obj]
                 /\ gcNewObjects' = <<>>
                 /\ detectState' = "clearCounters"
                 /\ detectIdx' = 1 /\ gcMapCursor' = Null /\ liveObjects' = {}
            ELSE UNCHANGED <<gcOldObjects, gcNewObjects, detectState, detectIdx, gcMapCursor,
                             liveObjects>>
       /\ IF destroy
            THEN /\ destroyNewState' = "init" /\ destroyNewIdx' = 0
                 /\ destroyOldState' = "init" /\ destroyOldIdx' = 0
            ELSE UNCHANGED <<destroyNewState, destroyOldState, destroyNewIdx, destroyOldIdx>>
       /\ cycle' = [on |-> TRUE, detect |-> detect, destroy |-> destroy,
                    count |-> Len(gcOldObjects')]
       /\ calls' = IF detect THEN <<"detect">> ELSE <<"new">>
  /\ UNCHANGED <<objectVars, gcMap, counted, adding>>

Continue == UNCHANGED <<calls, adding, cycle>>

\* Outside a full cycle what a call returns does not matter.
NextCall ==
  /\ calls' = Tail(calls)
  /\ UNCHANGED <<adding, cycle>>

\* The call returns 1, "let the application work a little": a full cycle calls
\* again at once.
MoreToDo ==
  \/ cycle.on /\ Continue
  \/ ~cycle.on /\ NextCall

\* The call returns 0.  A full cycle goes on to destroy what it has detected, and
\* over again as long as that leaves fewer objects.
NothingToDo ==
  IF ~cycle.on
    THEN NextCall
  ELSE IF ~Under("old") /\ cycle.destroy
    THEN calls' = <<"old">> /\ UNCHANGED <<adding, cycle>>
  ELSE IF cycle.count # Len(gcOldObjects)
    THEN /\ cycle' = [cycle EXCEPT !.count = Len(gcOldObjects)]
         /\ calls' = IF cycle.detect THEN <<"detect">> ELSE <<"new">>
         /\ UNCHANGED adding
  ELSE calls' = <<>> /\ cycle' = NoCycle /\ UNCHANGED adding

-----------------------------------------------------------------------------
\* Release of the reference the lists hold, which is the last one

WithoutAt(list, i) ==
  [k \in 1..Len(list) - 1 |-> IF k = i THEN list[Len(list)] ELSE list[k]]

\* Mutant: the reference of the list is not added again.
Resurrected_noAddRef(o) ==
  /\ MayResurrect /\ ~isDestructCalled[o]
  /\ held' = [held EXCEPT ![o] = @ + 1]
  /\ Touch({o})
  /\ isDestructCalled' = [isDestructCalled EXCEPT ![o] = TRUE]
  /\ UNCHANGED <<alive, props, refCount>>

\* Release with the count at 1: the destructor may have taken a handle, and the
\* collector adds its reference again; otherwise the object and its handles go.
Resurrected(o) ==
  /\ MayResurrect /\ ~isDestructCalled[o]
  /\ held' = [held EXCEPT ![o] = @ + 1]
  /\ AddRefs(One(o)) /\ Touch({o})
  /\ isDestructCalled' = [isDestructCalled EXCEPT ![o] = TRUE]
  /\ UNCHANGED <<alive, props>>

Destroyed(o) ==
  /\ alive' = alive \ {o}
  /\ props' = [props EXCEPT ![o] = NoHandles]
  /\ AddRefs([x \in Objects |-> -Handles(o)[x] - One(o)[x]])
  /\ gcFlag' = [x \in Objects |-> gcFlag[x] /\ x \notin {o} \cup Targets(o)]
  /\ isDestructCalled' = [isDestructCalled EXCEPT ![o] = FALSE]
  /\ UNCHANGED held

-----------------------------------------------------------------------------
\* DestroyNewGarbage

StartNew ==
  /\ Under("new") /\ destroyNewState = "init"
  /\ IF gcNewObjects = <<>>
       THEN NothingToDo /\ UNCHANGED <<gcNewObjects, destroyVars>>
       ELSE /\ gcNewObjects' = [i \in 1..Len(gcNewObjects) |->
                                 [gcNewObjects[i] EXCEPT !.sweeps = IF @ = 3 THEN 3 ELSE @ + 1]]
            /\ destroyNewIdx' = 0
            /\ destroyNewState' = "loop"
            /\ Continue
            /\ UNCHANGED <<destroyOldState, destroyOldIdx>>
  /\ UNCHANGED <<objectVars, gcOldObjects, detectVars>>

NextNew(i) ==
  /\ Under("new") /\ destroyNewState # "init"
  /\ i = destroyNewIdx + 1 /\ i <= Len(gcNewObjects)
  /\ MoreToDo
  /\ UNCHANGED <<destroyOldState, destroyOldIdx, detectVars>>

DestroyNew ==
  \E i \in 1..Len(gcNewObjects) :
    LET o == gcNewObjects[i].obj
    IN  /\ NextNew(i)
        /\ refCount[o] = 1
        /\ \/ /\ Resurrected(o)
              /\ destroyNewIdx' = i
              /\ UNCHANGED gcNewObjects
           \/ /\ Destroyed(o)
              /\ destroyNewIdx' = i - 1
              /\ gcNewObjects' = WithoutAt(gcNewObjects, i)
        /\ destroyNewState' = "haveMore"
        /\ UNCHANGED gcOldObjects

\* Mutant: no object gets old.
KeepNew_staysNew ==
  \E i \in 1..Len(gcNewObjects) :
    /\ NextNew(i)
    /\ refCount[gcNewObjects[i].obj] # 1
    /\ destroyNewIdx' = i
    /\ UNCHANGED <<objectVars, destroyNewState, gcOldObjects, gcNewObjects>>

\* An object that has been looked at three times is old.
KeepNew ==
  \E i \in 1..Len(gcNewObjects) :
    /\ NextNew(i)
    /\ refCount[gcNewObjects[i].obj] # 1
    /\ IF gcNewObjects[i].sweeps = 3
         THEN /\ gcOldObjects' = Append(gcOldObjects, gcNewObjects[i].obj)
              /\ gcNewObjects' = WithoutAt(gcNewObjects, i)
              /\ destroyNewIdx' = i - 1
         ELSE /\ destroyNewIdx' = i
              /\ UNCHANGED <<gcOldObjects, gcNewObjects>>
    /\ UNCHANGED <<objectVars, destroyNewState>>

\* The end of the list: over again in this call if something was destroyed.  The
\* index is set before it is read again, here and in the other loops.
EndNew ==
  /\ Under("new") /\ destroyNewState # "init"
  /\ destroyNewIdx >= Len(gcNewObjects)
  /\ destroyNewState' = "init" /\ destroyNewIdx' = 0
  /\ IF destroyNewState = "haveMore" THEN Continue ELSE NothingToDo
  /\ UNCHANGED <<objectVars, listVars, destroyOldState, destroyOldIdx, detectVars>>

\* DestroyOldGarbage

StartOld ==
  /\ Under("old") /\ destroyOldState = "init"
  /\ IF gcOldObjects = <<>>
       THEN NothingToDo /\ UNCHANGED <<destroyOldIdx, destroyOldState>>
       ELSE /\ destroyOldIdx' = 0
            /\ destroyOldState' = "loop"
            /\ Continue
  /\ UNCHANGED <<objectVars, listVars, destroyNewState, destroyNewIdx, detectVars>>

\* Mutant: the object is destroyed whoever else still refers to it.
NextOld_anyCount ==
  \E i \in 1..Len(gcOldObjects) :
    LET o == gcOldObjects[i]
    IN  /\ Under("old") /\ destroyOldState # "init"
        /\ i = destroyOldIdx + 1
        /\ Destroyed(o)
        /\ destroyOldIdx' = i - 1
        /\ gcOldObjects' = WithoutAt(gcOldObjects, i)
        /\ destroyOldState' = "haveMore"
        /\ MoreToDo
        /\ UNCHANGED <<gcNewObjects, destroyNewState, destroyNewIdx, detectVars>>

NextOld ==
  \E i \in 1..Len(gcOldObjects) :
    LET o == gcOldObjects[i]
    IN  /\ Under("old") /\ destroyOldState # "init"
        /\ i = destroyOldIdx + 1
        /\ \/ /\ refCount[o] = 1
              /\ Resurrected(o)
              /\ destroyOldIdx' = i
              /\ destroyOldState' = "haveMore"
              /\ UNCHANGED gcOldObjects
           \/ /\ refCount[o] = 1
              /\ Destroyed(o)
              /\ destroyOldIdx' = i - 1
              /\ destroyOldState' = "haveMore"
              /\ gcOldObjects' = WithoutAt(gcOldObjects, i)
           \/ /\ refCount[o] # 1
              /\ destroyOldIdx' = i
              /\ UNCHANGED <<objectVars, gcOldObjects, destroyOldState>>
        /\ MoreToDo
        /\ UNCHANGED <<gcNewObjects, destroyNewState, destroyNewIdx, detectVars>>

EndOld ==
  /\ Under("old") /\ destroyOldState # "init"
  /\ destroyOldIdx >= Len(gcOldObjects)
  /\ destroyOldState' = "init" /\ destroyOldIdx' = 0
  /\ IF destroyOldState = "haveMore" THEN Continue ELSE NothingToDo
  /\ UNCHANGED <<objectVars, listVars, destroyNewState, destroyNewIdx, detectVars>>

-----------------------------------------------------------------------------
\* IdentifyGarbageWithCyclicRefs

\* There is a call if there are old objects, or a full cycle.
ToDetect == Under("detect") /\ (cycle.on \/ gcOldObjects # <<>>)

NothingOld ==
  /\ Under("detect") /\ ~cycle.on
  /\ gcOldObjects = <<>>
  /\ NextCall
  /\ UNCHANGED <<objectVars, listVars, destroyVars, detectVars>>

\* An arm of its switch, which leaves everything alone but what it looks for.
Detects(state) ==
  /\ ToDetect /\ detectState = state
  /\ UNCHANGED <<alive, held, listVars, destroyVars>>

\* Keys are in the order of their addresses.
After(k) ==
  LET S == {o \in DOMAIN gcMap : o > k}
  IN  IF S = {} THEN Null ELSE CHOOSE o \in S : \A x \in S : o <= x
Without(o) == [x \in DOMAIN gcMap \ {o} |-> gcMap[x]]

\* The map gives its references back, one object at a call.
ClearCounters ==
  LET first == After(Null)
  IN  /\ Detects("clearCounters")
      /\ IF first = Null
           THEN /\ detectState' = "buildMap"
                /\ detectIdx' = 1
                /\ Continue
                /\ UNCHANGED <<refCount, gcFlag, gcMap>>
           ELSE /\ AddRefs([x \in Objects |-> -One(first)[x]]) /\ Touch({first})
                /\ gcMap' = Without(first)
                /\ MoreToDo
                /\ UNCHANGED <<detectState, detectIdx>>
      /\ UNCHANGED <<props, isDestructCalled, gcMapCursor, liveObjects, counted>>

\* The count is read first, and the flag set when the object is in the map.
BuildMapRead ==
  /\ Detects("buildMap")
  /\ counted = 0 /\ detectIdx <= Len(gcOldObjects)
  /\ LET count == refCount[gcOldObjects[detectIdx]]
     IN  IF count > 1
           THEN counted' = count /\ Continue /\ UNCHANGED detectIdx
           ELSE detectIdx' = detectIdx + 1 /\ MoreToDo /\ UNCHANGED counted
  /\ UNCHANGED <<props, refCount, gcFlag, isDestructCalled, detectState, gcMap,
                 gcMapCursor, liveObjects>>

\* Mutant: the flag is not set.
BuildMapInsert_noFlag ==
  LET o == gcOldObjects[detectIdx]
  IN  /\ Detects("buildMap")
      /\ counted > 0
      /\ gcMap' = [x \in DOMAIN gcMap \cup {o} |-> IF x = o THEN counted - 1 ELSE gcMap[x]]
      /\ AddRefs(One(o))
      /\ counted' = 0
      /\ detectIdx' = detectIdx + 1
      /\ MoreToDo
      /\ UNCHANGED <<props, gcFlag, isDestructCalled, detectState, gcMapCursor, liveObjects>>

BuildMapInsert ==
  LET o == gcOldObjects[detectIdx]
  IN  /\ Detects("buildMap")
      /\ counted > 0
      /\ gcMap' = [x \in DOMAIN gcMap \cup {o} |-> IF x = o THEN counted - 1 ELSE gcMap[x]]
      /\ AddRefs(One(o))
      /\ gcFlag' = [gcFlag EXCEPT ![o] = TRUE]
      /\ counted' = 0
      /\ detectIdx' = detectIdx + 1
      /\ MoreToDo
      /\ UNCHANGED <<props, isDestructCalled, detectState, gcMapCursor, liveObjects>>

\* The step to the next loop over the map.
Restart(state, live) ==
  /\ detectState' = state
  /\ gcMapCursor' = After(Null)
  /\ liveObjects' = live
  /\ detectIdx' = 1
  /\ Continue
  /\ UNCHANGED <<objectVars, listVars, destroyVars, gcMap, counted>>

BuildMapDone ==
  /\ Detects("buildMap")
  /\ counted = 0 /\ detectIdx > Len(gcOldObjects)
  /\ Restart("countReferences", liveObjects)

\* EnumReferences and GCEnumCallback: what is left of a counter is the number of
\* references from elsewhere.
CountReferences ==
  /\ Detects("countReferences")
  /\ gcMapCursor # Null
  /\ gcMap' = IF gcFlag[gcMapCursor]
                THEN [x \in DOMAIN gcMap |-> gcMap[x] - Handles(gcMapCursor)[x]]
                ELSE gcMap
  /\ gcMapCursor' = After(gcMapCursor)
  /\ MoreToDo
  /\ UNCHANGED <<objectVars, detectState, detectIdx, liveObjects, counted>>

CountReferencesDone ==
  /\ Detects("countReferences")
  /\ gcMapCursor = Null
  /\ Restart("findLive", {})

FindLive ==
  /\ Detects("findLive")
  /\ gcMapCursor # Null
  /\ liveObjects' = IF ~gcFlag[gcMapCursor] \/ gcMap[gcMapCursor] > 0
                      THEN liveObjects \cup {gcMapCursor} ELSE liveObjects
  /\ gcMapCursor' = After(gcMapCursor)
  /\ MoreToDo
  /\ UNCHANGED <<objectVars, detectState, detectIdx, gcMap, counted>>

FindLiveDone ==
  /\ Detects("findLive")
  /\ gcMapCursor = Null
  /\ detectState' = "removeLive"
  /\ Continue
  /\ UNCHANGED <<objectVars, listVars, destroyVars, detectIdx, gcMap, gcMapCursor,
                 liveObjects, counted>>

\* What is alive leaves the map, and what it refers to is alive too.
RemoveLive ==
  /\ Detects("removeLive")
  /\ \E o \in liveObjects :
       IF o \in DOMAIN gcMap
         THEN /\ gcMap' = Without(o)
              /\ AddRefs([x \in Objects |-> -One(o)[x]]) /\ Touch({o})
              /\ liveObjects' = (liveObjects \ {o}) \cup (Targets(o) \cap DOMAIN gcMap')
         ELSE /\ liveObjects' = liveObjects \ {o}
              /\ UNCHANGED <<gcMap, refCount, gcFlag>>
  /\ MoreToDo
  /\ UNCHANGED <<props, isDestructCalled, detectState, detectIdx, gcMapCursor, counted>>

RemoveLiveDone ==
  /\ Detects("removeLive")
  /\ liveObjects = {}
  /\ Restart("verifyUnmarked", {})

\* Mutant: what the application has touched meanwhile is not looked for.
VerifyUnmarked_skips ==
  /\ Detects("verifyUnmarked")
  /\ gcMapCursor # Null
  /\ gcMapCursor' = After(gcMapCursor)
  /\ MoreToDo
  /\ UNCHANGED <<objectVars, detectState, liveObjects, detectIdx, gcMap, counted>>

\* An object the application has touched meanwhile sends it back to findLive.
VerifyUnmarked ==
  /\ Detects("verifyUnmarked")
  /\ gcMapCursor # Null
  /\ IF gcFlag[gcMapCursor]
       THEN gcMapCursor' = After(gcMapCursor) /\ UNCHANGED <<detectState, liveObjects>>
       ELSE gcMapCursor' = After(Null) /\ detectState' = "findLive" /\ liveObjects' = {}
  /\ MoreToDo
  /\ UNCHANGED <<objectVars, detectIdx, gcMap, counted>>

VerifyUnmarkedDone ==
  /\ Detects("verifyUnmarked")
  /\ gcMapCursor = Null
  /\ Restart("breakCircles", {})

\* CallDestructor, which may take a handle to the object, and ReleaseAllHandles.  Other
\* things a destructor may do, like creating objects that join the new list, are left out.
BreakCircle ==
  LET o == gcMapCursor
  IN  /\ ToDetect /\ detectState \in {"breakCircles", "haveGarbage"}
      /\ o # Null
      /\ \E taken \in {0, 1} :
           /\ taken = 1 => MayResurrect /\ ~isDestructCalled[o]
           /\ held' = [held EXCEPT ![o] = @ + taken]
           /\ AddRefs([x \in Objects |-> taken * One(o)[x] - Handles(o)[x]])
           /\ Touch(Targets(o) \cup (IF taken = 1 THEN {o} ELSE {}))
      /\ isDestructCalled' = [isDestructCalled EXCEPT ![o] = TRUE]
      /\ props' = [props EXCEPT ![o] = NoHandles]
      /\ gcMapCursor' = After(o)
      /\ detectState' = "haveGarbage"
      /\ MoreToDo
      /\ UNCHANGED <<alive, listVars, destroyVars, detectIdx, gcMap, liveObjects, counted>>

BreakCirclesDone ==
  /\ ToDetect /\ detectState \in {"breakCircles", "haveGarbage"}
  /\ gcMapCursor = Null
  /\ detectState' = "clearCounters"
  /\ IF detectState = "haveGarbage" THEN MoreToDo ELSE NothingToDo
  /\ UNCHANGED <<objectVars, listVars, destroyVars, detectIdx, gcMap, gcMapCursor,
                 liveObjects, counted>>

-----------------------------------------------------------------------------
Application == Create \/ Take \/ Drop \/ Assign

Collector ==
  \/ Add \/ NothingOld
  \/ StartNew \/ DestroyNew \/ KeepNew \/ EndNew
  \/ StartOld \/ NextOld \/ EndOld
  \/ ClearCounters \/ BuildMapRead \/ BuildMapInsert \/ BuildMapDone
  \/ CountReferences \/ CountReferencesDone
  \/ FindLive \/ FindLiveDone \/ RemoveLive \/ RemoveLiveDone
  \/ VerifyUnmarked \/ VerifyUnmarkedDone \/ BreakCircle \/ BreakCirclesDone

Next ==
  \/ Application \/ FullCycle \/ Collector
  \/ \E parts \in Parts : Collect(parts.detect, parts.destroy)

Spec == Init /\ [][Next]_vars

\* An application that never runs a full cycle.  What has been called goes on, and
\* it calls GarbageCollect again and again.
FairSpec ==
  /\ Init /\ [][Next /\ ~FullCycle]_vars
  /\ WF_vars(Collector) /\ SF_vars(Collect(TRUE, TRUE))

-----------------------------------------------------------------------------
\* The values of the variables; the cursor of a loop is a node of the map as it is
\* now, though a full cycle may have emptied the map under a loop's cursor.
TypeOK ==
  /\ alive \subseteq Objects
  /\ props \in [Objects -> [Props -> Objects \cup {Null}]]
  /\ held \in [Objects -> Nat]
  /\ refCount \in [Objects -> Nat]
  /\ gcFlag \in [Objects -> BOOLEAN]
  /\ isDestructCalled \in [Objects -> BOOLEAN]
  /\ gcNewObjects \in Seq([obj : Objects, sweeps : 0..3])
  /\ gcOldObjects \in Seq(Objects)
  /\ DOMAIN gcMap \subseteq Objects
  /\ gcMapCursor \in Objects \cup {Null}
  /\ detectState \notin {"clearCounters", "buildMap"} => gcMapCursor \in DOMAIN gcMap \cup {Null}
  /\ liveObjects \subseteq Objects
  /\ calls \in Seq({"new", "old", "detect", "add"})
  /\ adding \in Objects \cup {Null}

\* How often an object stands in a list or is about to.
Listed(o) ==
  (IF o = adding THEN 1 ELSE 0) +
  Cardinality({i \in 1..Len(gcNewObjects) : gcNewObjects[i].obj = o})
    + Cardinality({i \in 1..Len(gcOldObjects) : gcOldObjects[i] = o})

\* Every count is exact: the handles of the application, those in objects, the
\* lists' one and the map's one.  So no object is freed that something refers to,
\* and none is kept by a reference nobody holds any more, wherever a call of the
\* collector has stopped and whatever another one has done in between.
CountsExact ==
  \A o \in Objects :
    IF o \in alive
      THEN /\ Listed(o) = 1
           /\ refCount[o] = held[o] + Listed(o) + (IF o \in DOMAIN gcMap THEN 1 ELSE 0)
                + Cardinality({h \in alive \X Props : props[h[1]][h[2]] = o})
      ELSE /\ Listed(o) = 0 /\ held[o] = 0 /\ o \notin DOMAIN gcMap
           /\ o \notin liveObjects
           /\ \A x \in alive : o \notin Targets(x)

\* "we can now be sure that objects that have gcCount == 0 really is garbage": what
\* is left in the map when circles are broken cannot be reached by the application,
\* however the application has moved handles between the calls that searched.
OnlyGarbageBroken ==
  detectState \in {"breakCircles", "haveGarbage"} => DOMAIN gcMap \cap Reachable = {}

\* A full cycle that detects and destroys leaves only what the application can
\* reach, however far an incremental search had come when it began.  What destructors
\* would create during the cycle is not modelled, and nothing is said of it.
FullCycleLeavesNoGarbage ==
  [][cycle.on /\ ~cycle'.on /\ cycle.detect /\ cycle.destroy
       => alive' \subseteq Reachable']_vars

\* Garbage is freed by incremental calls alone, though the application works on
\* between them: no object is passed over for ever by lists that change under the
\* search ("the next time the GC cycle starts the object will be verified").
GarbageIsFreed ==
  \A o \in Objects : o \in alive \ Reachable ~> o \notin alive
=============================================================================
