----------------------------- MODULE DataEvents ------------------------------
(***************************************************************************)
(* How the adapter reads what an engine writes.  A data event has all that *)
(* has come in by then, so the texts of several writes may be in one; it   *)
(* is split into lines, and handleSocketData, called until no line is      *)
(* left, takes the lines of one message from the front at each call.       *)
(*                                                                         *)
(* A text written is the sequence of its lines; a line is the sequence of  *)
(* characters in front of its line feed.  The other modules use messages   *)
(* instead, each of them handled once and in order.                        *)
(***************************************************************************)
EXTENDS MessageText

CONSTANTS
  Names,      \* file names stops are reported with
  Lines,      \* line numbers
  MaxWrites   \* bound: requests and stops written

ASSUME DataAssumption ==
  /\ \A name \in Names : name \in Seq(STRING)
  /\ Lines \subseteq Nat
  /\ MaxWrites \in Nat

VARIABLES
  received,   \* lines written to the adapter and not in a data event yet
  owes,       \* whether the engine has written a stop and not its variables
  messages,   \* lines of the data event that are not handled yet
  current,    \* _currentBreakpoint
  variables,  \* _variables
  told,       \* how often VS Code was told to stop
  answered,   \* how often sendBreakpoints has answered a request
  stops,      \* history: the locations of the stops written, in order
  asked       \* history: how many requests were written

adapterVars == <<messages, current, variables, told, answered>>
engineVars == <<owes, stops, asked>>
vars == <<received, adapterVars, engineVars>>

\* The three placeholder variables.
Placeholders ==
  << [name |-> <<"initial_player_life">>, value |-> <<"123">>],
     [name |-> <<"player_damage">>, value |-> <<"0xFFE0">>],
     [name |-> <<"player_life">>, value |-> <<"987">>] >>

VariablesLines ==
  << <<"VARIABLES">>, NumberText[3],
     Placeholders[1].name, Placeholders[1].value,
     Placeholders[2].name, Placeholders[2].value,
     Placeholders[3].name, Placeholders[3].value >>

Init ==
  /\ received = <<>>
  /\ owes = FALSE
  /\ messages = <<>>
  /\ current = <<>>
  /\ variables = <<>>
  /\ told = 0
  /\ answered = 0
  /\ stops = <<>>
  /\ asked = 0

-----------------------------------------------------------------------------
\* The engine

Write(lines) == received' = received \o lines
MayWrite == ~owes /\ Len(stops) + asked < MaxWrites

SendBreakpointsRequest ==
  /\ MayWrite
  /\ Write(<< <<"GET_BREAKPOINTS">> >>)
  /\ asked' = asked + 1
  /\ UNCHANGED <<adapterVars, owes, stops>>

\* TriggerBreakpoint, up to the variables.
SendStop ==
  /\ MayWrite
  /\ \E loc \in [path : Names, line : Lines] :
       /\ Write(<< <<"STOP">>, LocationText(loc) >>)
       /\ stops' = Append(stops, loc)
  /\ owes' = TRUE
  /\ UNCHANGED <<adapterVars, asked>>

SendVariables ==
  /\ owes
  /\ Write(VariablesLines)
  /\ owes' = FALSE
  /\ UNCHANGED <<adapterVars, stops, asked>>

-----------------------------------------------------------------------------
\* The adapter

\* The callback runs to its end before the next one: what comes in meanwhile
\* is in a later event.  split leaves an empty line behind the last line feed.
DataEvent ==
  /\ messages = <<>>
  /\ received # <<>>
  /\ messages' = Append(received, <<>>)
  /\ received' = <<>>
  /\ UNCHANGED <<current, variables, told, answered, engineVars>>

\* Mutant: a data event is taken for one message, what follows it is dropped.
Shift_all(n) == messages' = <<>>

\* handleSocketData: the lines a call takes from the front.
Shift(n) == messages' = SubSeq(messages, n + 1, Len(messages))

Method(method) == messages # <<>> /\ Head(messages) = method
Argument == IF Len(messages) > 1 THEN messages[2] ELSE <<>>

HandleGetBreakpoints ==
  /\ Method(<<"GET_BREAKPOINTS">>)
  /\ Shift(1)
  /\ answered' = answered + 1
  /\ UNCHANGED <<received, current, variables, told, engineVars>>

\* Without a comma there is no line number, and the stop is not reported.
HandleStop ==
  /\ Method(<<"STOP">>)
  /\ Shift(2)
  /\ IF \E i \in DOMAIN Argument : Argument[i] = ","
       THEN /\ current' = [path |-> UpTo(Argument, ","),
                           line |-> LeadingNumber(UpTo(After(Argument, ","), ","))]
            /\ told' = told + 1
       ELSE UNCHANGED <<current, told>>
  /\ UNCHANGED <<received, variables, answered, engineVars>>

\* As many pairs as announced, if there are; what is left of a last one is gone.
HandleVariables ==
  LET count == IF LeadingNumber(Argument) > 0 THEN LeadingNumber(Argument) ELSE 0
      pairs == (Len(messages) - 2) \div 2
  IN  /\ Method(<<"VARIABLES">>)
      /\ Shift(2 + 2 * count)
      /\ variables' = [i \in 1..(IF count <= pairs THEN count ELSE pairs) |->
                         [name |-> messages[2 * i + 1], value |-> messages[2 * i + 2]]]
      /\ UNCHANGED <<received, current, told, answered, engineVars>>

HandleUnknown ==
  /\ messages # <<>>
  /\ Head(messages) \notin {<<"GET_BREAKPOINTS">>, <<"STOP">>, <<"VARIABLES">>}
  /\ Shift(1)
  /\ UNCHANGED <<received, current, variables, told, answered, engineVars>>

Next ==
  \/ SendBreakpointsRequest
  \/ SendStop
  \/ SendVariables
  \/ DataEvent
  \/ HandleGetBreakpoints
  \/ HandleStop
  \/ HandleVariables
  \/ HandleUnknown

Spec == Init /\ [][Next]_vars

-----------------------------------------------------------------------------
\* However writes are merged into data events, no stop is lost, told twice or
\* out of order, and the location held is that of the stop told last.  When all
\* is read, every stop has been told, every request answered, and the variables
\* are all those of the last stop.
StopsReadBack ==
  /\ told <= Len(stops)
  /\ told > 0 => current = stops[told]
  /\ messages = <<>> /\ received = <<>> =>
       /\ told = Len(stops)
       /\ answered = asked
       /\ stops # <<>> /\ ~owes => variables = Placeholders
=============================================================================
