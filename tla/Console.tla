------------------------------ MODULE Console ------------------------------
(***************************************************************************)
(* The user at the simulator: a key is decoded against the App and the     *)
(* resulting UiAction is applied to the cluster, on one thread, while the  *)
(* tasks of Simulator run on the others.                                   *)
(*                                                                         *)
(* Nodes are numbered 1 .. N as main numbers them, so the selected index   *)
(* s is node s + 1.  Typed text counts by its length.  Speed, latency and  *)
(* drop rate move in units of their steps.  Quit ends the whole program    *)
(* and is left out; drawing a frame only reads.                            *)
(***************************************************************************)
EXTENDS Simulator

CONSTANTS
  MaxLatency,  \* bound: latency_ms
  MaxText,     \* bound: typed characters
  MaxKeys      \* bound: keys pressed once the tasks run

ASSUME ConsoleAssumption ==
  /\ IsFiniteSet(Node) /\ Node # {} /\ Node = 1 .. Cardinality(Node)
  /\ MaxLatency \in Nat /\ MaxText \in Nat \ {0} /\ MaxKeys \in Nat

VARIABLES
  app,   \* App: selected, input_mode, input_key, input_val
  keys   \* number of keys pressed

allVars == <<systemVars, app, keys>>

Total == Cardinality(Node)

----------------------------------------------------------------------------
(* App                                                                     *)

AppDefault == [selected |-> 0, input_mode |-> "Normal", input_key |-> 0,
               input_val |-> 0]

select_next(a) == [a EXCEPT !.selected = (@ + 1) % Total]
select_prev(a) == [a EXCEPT !.selected = (@ + Total - 1) % Total]

start_command(a) ==
  [a EXCEPT !.input_mode = "EnteringKey", !.input_key = 0, !.input_val = 0]
cancel_input(a) ==
  [a EXCEPT !.input_mode = "Normal", !.input_key = 0, !.input_val = 0]

----------------------------------------------------------------------------
(* decode: what a key does to the App, and the action it stands for        *)

\* Keys that stand for an action.  "c" begins a command, and "x" is any
\* other character.
CommandKey ==
  [p |-> "TogglePause", k |-> "KillNode", r |-> "RestartNode",
   P |-> "IsolateNode", H |-> "UnisolateNode",
   d |-> "IncDropRate", D |-> "DecDropRate",
   l |-> "IncLatency", L |-> "DecLatency",
   plus |-> "IncSpeed", minus |-> "DecSpeed"]
CursorKey ==
  [Right |-> "StepClock", PageUp |-> "Inc10Speed", PageDown |-> "Dec10Speed",
   Down |-> "SelectNext", Up |-> "SelectPrev"]

Char    == DOMAIN CommandKey \cup {"c", "x"}
KeyCode == Char \cup DOMAIN CursorKey \cup {"Backspace", "Enter", "Tab", "Esc"}

Push(text) == text + 1
Pop(text)  == IF text = 0 THEN 0 ELSE text - 1

Handled(a) == [app |-> a, action |-> "Handled"]

decode_entering_key_AnyKey(code, a) ==
  CASE code \in Char           -> Handled([a EXCEPT !.input_key = Push(@)])
    [] code = "Backspace"      -> Handled([a EXCEPT !.input_key = Pop(@)])
    [] code \in {"Enter", "Tab"} ->
         Handled([a EXCEPT !.input_mode = "EnteringValue"])
    [] code = "Esc"            -> Handled(cancel_input(a))
    [] OTHER                   -> Handled(a)

decode_entering_key(code, a) ==
  CASE code \in Char           -> Handled([a EXCEPT !.input_key = Push(@)])
    [] code = "Backspace"      -> Handled([a EXCEPT !.input_key = Pop(@)])
    [] code \in {"Enter", "Tab"} ->
         Handled(IF a.input_key = 0 THEN a
                 ELSE [a EXCEPT !.input_mode = "EnteringValue"])
    [] code = "Esc"            -> Handled(cancel_input(a))
    [] OTHER                   -> Handled(a)

decode_entering_value_Cursor(code, a) ==
  CASE code \in Char      -> Handled([a EXCEPT !.input_val = Push(@)])
    [] code = "Backspace" -> Handled([a EXCEPT !.input_val = Pop(@)])
    [] code = "Enter"     -> [app |-> cancel_input(a), action |-> "SubmitCommand"]
    [] code = "Esc"       -> Handled(cancel_input(a))
    [] code \in DOMAIN CursorKey -> [app |-> a, action |-> CursorKey[code]]
    [] OTHER              -> Handled(a)

decode_entering_value(code, a) ==
  CASE code \in Char      -> Handled([a EXCEPT !.input_val = Push(@)])
    [] code = "Backspace" -> Handled([a EXCEPT !.input_val = Pop(@)])
    [] code = "Enter"     -> [app |-> cancel_input(a), action |-> "SubmitCommand"]
    [] code = "Esc"       -> Handled(cancel_input(a))
    [] OTHER              -> Handled(a)

\* A key without a meaning is ignored, as if it had been handled.
decode_normal(code, a) ==
  CASE code = "c"                  -> Handled(start_command(a))
    [] code \in DOMAIN CommandKey  -> [app |-> a, action |-> CommandKey[code]]
    [] code \in DOMAIN CursorKey   -> [app |-> a, action |-> CursorKey[code]]
    [] OTHER                       -> Handled(a)

decode(code, a) ==
  CASE a.input_mode = "EnteringKey"   -> decode_entering_key(code, a)
    [] a.input_mode = "EnteringValue" -> decode_entering_value(code, a)
    [] a.input_mode = "Normal"        -> decode_normal(code, a)

----------------------------------------------------------------------------
(* apply                                                                   *)

AtMost(x, max)  == IF x > max THEN max ELSE x
AtLeast(x, min) == IF x < min THEN min ELSE x

Living == {n \in Node : alive[n]}

\* The selected node, or else the first living one.
Target ==
  IF alive[app.selected + 1] THEN app.selected + 1
  ELSE CHOOSE n \in Living : \A m \in Living : n <= m

SubmitCommand ==
  IF Living = {} THEN UNCHANGED simVars
  ELSE Submit(Target, [key |-> app.input_key, value |-> app.input_val])

\* On the nodes and the network.
ApplyToCluster(action) ==
  LET n == app.selected + 1
  IN  /\ \/ action = "KillNode"      /\ KillNode(n)
         \/ action = "RestartNode"   /\ RestartNode(n)
         \/ action = "IsolateNode"   /\ Isolate(n)
         \/ action = "UnisolateNode" /\ Unisolate(n)
         \/ action = "IncDropRate"   /\ SetDropRate(AtMost(drop_rate + 1, MaxDrop))
         \/ action = "DecDropRate"   /\ SetDropRate(AtLeast(drop_rate - 1, 0))
         \/ action = "IncLatency"    /\ latency < MaxLatency
                                     /\ SetLatency(latency + 1)
         \/ action = "DecLatency"    /\ SetLatency(AtLeast(latency - 1, 0))
         \/ action = "SubmitCommand" /\ SubmitCommand
      /\ UNCHANGED clockVars

\* On the clock; ten steps of speed are more than its range here.
ApplyToClock(action) ==
  /\ \/ action = "TogglePause" /\ TogglePause
     \/ action = "StepClock"   /\ StepClock
     \/ action = "IncSpeed"    /\ SetSpeed(AtMost(step + 1, MaxStep))
     \/ action = "DecSpeed"    /\ SetSpeed(AtLeast(step - 1, 1))
     \/ action = "Inc10Speed"  /\ SetSpeed(AtMost(step + 10, MaxStep))
     \/ action = "Dec10Speed"  /\ SetSpeed(AtLeast(step - 10, 1))
  /\ UNCHANGED simVars

\* On the App alone.
ApplyToApp(action, a) ==
  CASE action = "SelectNext" -> select_next(a)
    [] action = "SelectPrev" -> select_prev(a)
    [] OTHER                 -> a

AppOnly == {"SelectNext", "SelectPrev", "Handled"}

\* One turn of event_loop that reads a key.
Press(code) ==
  LET d == decode(code, app)
  IN  /\ UiFree
      /\ app' = ApplyToApp(d.action, d.app)
      /\ app'.input_key <= MaxText /\ app'.input_val <= MaxText
      /\ keys < MaxKeys /\ keys' = keys + 1
      /\ \/ d.action \in AppOnly /\ app' # app /\ UNCHANGED systemVars
         \/ ApplyToCluster(d.action)
         \/ ApplyToClock(d.action)

----------------------------------------------------------------------------
\* What selecting and typing make of AppDefault.  Both leave the cluster
\* alone, so that a run may begin after them.
ReachableApp ==
  {[AppDefault EXCEPT !.selected = s] : s \in 0 .. Total - 1}
    \cup [selected : 0 .. Total - 1, input_mode : {"EnteringKey"},
          input_key : 0 .. MaxText, input_val : {0}]
    \cup [selected : 0 .. Total - 1, input_mode : {"EnteringValue"},
          input_key : 1 .. MaxText, input_val : 0 .. MaxText]

ConsoleInit == SimInit /\ app \in ReachableApp /\ keys = 0

ConsoleNext ==
  \/ Runs /\ UNCHANGED <<app, keys>>
  \/ \E code \in KeyCode : Press(code)

ConsoleSpec == ConsoleInit /\ [][ConsoleNext]_allVars /\ SimFairness

----------------------------------------------------------------------------
(* Properties                                                              *)

(***************************************************************************)
(* No node is ever handed a command without a key, in whatever order text  *)
(* was typed, deleted, confirmed and cancelled (decode_entering_key asks   *)
(* before the value is typed, submit much later).                          *)
(***************************************************************************)
CommandsHaveKeys ==
  \A i \in Incarnation : \A k \in DOMAIN clients[i] : clients[i][k].key > 0

(***************************************************************************)
(* The comment on UiAction::SubmitCommand: "Submit the completed SET       *)
(* command (key + value both filled)".  What a node is handed has both.    *)
(***************************************************************************)
CommandsFilled ==
  \A i \in Incarnation : \A k \in DOMAIN clients[i] :
    clients[i][k].key > 0 /\ clients[i][k].value > 0

(***************************************************************************)
(* Whatever is typed while text is entered, no node, link or clock changes *)
(* by it (decode looks at the mode before it looks at the key).            *)
(***************************************************************************)
TypingIsHarmless ==
  [][app.input_mode # "Normal" /\ keys' # keys
       => UNCHANGED <<clusterVars, networkVars, clockVars>>]_allVars
=============================================================================
