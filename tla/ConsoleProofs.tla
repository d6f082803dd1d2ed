--------------------------- MODULE ConsoleProofs ---------------------------
(***************************************************************************)
(* What Console's invariants say of two nodes and three keys holds for any *)
(* number of nodes, tasks, messages and keys.                              *)
(***************************************************************************)
EXTENDS Console, TLAPS, FiniteSetTheorems

----------------------------------------------------------------------------
(* The inductive invariant                                                 *)

\* The shape of the state that the cluster and the network share.
SimTypes ==
  /\ alive \in [Node -> BOOLEAN]
  /\ incarnation \in [Node -> 1 .. MaxIncarnation]
  /\ senders \in [Node -> 0 .. MaxIncarnation]
  /\ running \subseteq Incarnation
  /\ incoming \in [Incarnation -> Seq([from    : Incarnation,
                                       channel : Incarnation,
                                       meant   : Incarnation])]

\* No task of a number that was not given out yet.
NoneAhead == \A i \in running : i[2] <= incarnation[i[1]]

\* What is in a channel, or on its way to one, was meant for it.
Addressed ==
  /\ \A f \in flights :
       /\ f.message \in [from : Incarnation, channel : Incarnation,
                         meant : Incarnation]
       /\ f.message.meant = f.message.channel
  /\ \A i \in Incarnation :
       \A k \in DOMAIN incoming[i] : incoming[i][k].meant = i

ClusterInv == SimTypes /\ NoneAhead /\ AliveIsReachable /\ Addressed

\* A value is typed only for a key that is there ...
AppOK(a) ==
  /\ a \in [selected : 0 .. Total - 1,
            input_mode : {"Normal", "EnteringKey", "EnteringValue"},
            input_key : Nat, input_val : Nat]
  /\ a.input_mode = "EnteringValue" => a.input_key > 0

\* ... and so every command has one.
CommandInv ==
  /\ AppOK(app)
  /\ clients \in [Incarnation -> Seq([key : Nat \ {0}, value : Nat])]

----------------------------------------------------------------------------
(* The channels                                                            *)

(***************************************************************************)
(* A message that try_send puts into the channel it was meant for leaves   *)
(* every channel with messages that were meant for it.                     *)
(***************************************************************************)
LEMMA TrySendKeeps ==
  ASSUME SimTypes,
         \A i \in Incarnation : \A k \in DOMAIN incoming[i] : incoming[i][k].meant = i,
         NEW m \in [from : Incarnation, channel : Incarnation, meant : Incarnation],
         try_send(m.channel, m), m.meant = m.channel
  PROVE  /\ incoming' \in [Incarnation -> Seq([from    : Incarnation,
                                               channel : Incarnation,
                                               meant   : Incarnation])]
         /\ \A i \in Incarnation :
              \A k \in DOMAIN incoming'[i] : incoming'[i][k].meant = i
<1> DEFINE M == [from : Incarnation, channel : Incarnation, meant : Incarnation]
           c == m.channel
<1>1. c \in Incarnation /\ m.meant = c
  OBVIOUS
<1>2. incoming \in [Incarnation -> Seq(M)]
  BY DEF SimTypes
<1>3. m \in M
  OBVIOUS
<1> HIDE DEF M, c
<1>4. CASE incoming' = incoming
  BY <1>2, <1>4 DEF M
<1>5. CASE incoming' = [incoming EXCEPT ![c] = Append(@, m)]
  <2>1. incoming[c] \in Seq(M)
    BY <1>1, <1>2
  <2>2. /\ Append(incoming[c], m) \in Seq(M)
        /\ DOMAIN Append(incoming[c], m) = 1 .. Len(incoming[c]) + 1
        /\ DOMAIN incoming[c] = 1 .. Len(incoming[c])
        /\ \A k \in 1 .. Len(incoming[c]) :
             Append(incoming[c], m)[k] = incoming[c][k]
        /\ Append(incoming[c], m)[Len(incoming[c]) + 1] = m
    BY <1>3, <2>1
  <2>3. \A k \in DOMAIN Append(incoming[c], m) :
          Append(incoming[c], m)[k].meant = c
    BY <1>1, <2>1, <2>2
  <2>4. /\ incoming' \in [Incarnation -> Seq(M)]
        /\ incoming'[c] = Append(incoming[c], m)
        /\ \A i \in Incarnation : i # c => incoming'[i] = incoming[i]
    BY <1>1, <1>2, <1>5, <2>2
  <2>5. \A i \in Incarnation :
          \A k \in DOMAIN incoming'[i] : incoming'[i][k].meant = i
    BY <2>3, <2>4, ZenonT(60)
  <2> QED BY <2>4, <2>5 DEF M
<1> QED BY <1>4, <1>5 DEF try_send, c

(***************************************************************************)
(* What deliver sends is meant for the channel it has cloned, as long as   *)
(* the registered channel is the one of the running task.                  *)
(***************************************************************************)
LEMMA MessageIsAddressed ==
  ASSUME ClusterInv, NEW from \in running, NEW to \in Node, Reaches(from, to)
  PROVE  /\ MessageFor(from, to) \in [from : Incarnation, channel : Incarnation,
                                      meant : Incarnation]
         /\ MessageFor(from, to).channel = <<to, senders[to]>>
         /\ MessageFor(from, to).meant = MessageFor(from, to).channel
<1>1. from \in Incarnation /\ senders[to] # 0
  BY DEF ClusterInv, SimTypes, Reaches
<1>2. alive[to] \in BOOLEAN /\ incarnation[to] \in 1 .. MaxIncarnation
  BY DEF ClusterInv, SimTypes
<1>3. senders[to] = incarnation[to]
  BY <1>1, <1>2 DEF ClusterInv, AliveIsReachable
<1>4. <<to, senders[to]>> \in Incarnation /\ Latest(to) = <<to, senders[to]>>
  BY <1>2, <1>3 DEF Incarnation, Latest
<1> QED BY <1>1, <1>4 DEF MessageFor

(***************************************************************************)
(* Taking the first message out of a channel.                              *)
(***************************************************************************)
LEMMA TailKeeps ==
  ASSUME NEW M, NEW s \in Seq(M), s # << >>
  PROVE  /\ Tail(s) \in Seq(M)
         /\ \A k \in DOMAIN Tail(s) : k + 1 \in DOMAIN s /\ Tail(s)[k] = s[k + 1]
OBVIOUS

----------------------------------------------------------------------------
(* Keys                                                                    *)

(***************************************************************************)
(* decode keeps the App in order, and submits only from value entry.       *)
(***************************************************************************)
LEMMA DecodeKeeps ==
  ASSUME NEW code \in KeyCode, NEW a, AppOK(a)
  PROVE  /\ AppOK(decode(code, a).app)
         /\ decode(code, a).action = "SubmitCommand"
              => a.input_mode = "EnteringValue"
<1> DEFINE d == decode(code, a)
<1>1. AppOK(cancel_input(a)) /\ AppOK(start_command(a))
  BY DEF AppOK, cancel_input, start_command
<1>2. CASE a.input_mode = "EnteringKey"
  <2>1. d = decode_entering_key(code, a)
    BY <1>2 DEF decode
  <2>2. AppOK([a EXCEPT !.input_key = Push(@)]) /\ AppOK([a EXCEPT !.input_key = Pop(@)])
    BY <1>2 DEF AppOK, Push, Pop
  <2>3. a.input_key # 0 => AppOK([a EXCEPT !.input_mode = "EnteringValue"])
    BY <1>2 DEF AppOK
  <2>4. \E b : AppOK(b) /\ d = Handled(b)
    <3>1. CASE code \in Char
      BY <2>1, <2>2, <3>1 DEF decode_entering_key, Char, CommandKey
    <3>2. CASE code = "Backspace"
      BY <2>1, <2>2, <3>2 DEF decode_entering_key, Char, CommandKey
    <3>3. CASE code \in {"Enter", "Tab"}
      BY <2>1, <2>3, <3>3 DEF decode_entering_key, Char, CommandKey
    <3>4. CASE code = "Esc"
      BY <1>1, <2>1, <3>4 DEF decode_entering_key, Char, CommandKey
    <3>5. CASE code \notin Char \cup {"Backspace", "Enter", "Tab", "Esc"}
      BY <2>1, <3>5 DEF decode_entering_key
    <3> QED BY <3>1, <3>2, <3>3, <3>4, <3>5
  <2> HIDE DEF d
  <2>5. d.action = "Handled" /\ AppOK(d.app)
    BY <2>4 DEF Handled
  <2> QED BY <2>5 DEF d
<1>3. CASE a.input_mode = "EnteringValue"
  <2>1. d = decode_entering_value(code, a)
    BY <1>3 DEF decode
  <2>2. AppOK([a EXCEPT !.input_val = Push(@)]) /\ AppOK([a EXCEPT !.input_val = Pop(@)])
    BY <1>3 DEF AppOK, Push, Pop
  <2>3. CASE code = "Enter"
    <3>1. d.app = cancel_input(a)
      BY <2>1, <2>3 DEF decode_entering_value, Char, CommandKey
    <3> QED BY <1>1, <1>3, <3>1
  <2>4. CASE code # "Enter"
    <3>1. \E b : AppOK(b) /\ d = Handled(b)
      <4>1. CASE code \in Char
        BY <2>1, <2>2, <4>1 DEF decode_entering_value, Char, CommandKey
      <4>2. CASE code = "Backspace"
        BY <2>1, <2>2, <4>2 DEF decode_entering_value, Char, CommandKey
      <4>3. CASE code = "Esc"
        BY <1>1, <2>1, <4>3 DEF decode_entering_value, Char, CommandKey
      <4>4. CASE code \notin Char \cup {"Backspace", "Enter", "Esc"}
        BY <2>1, <4>4 DEF decode_entering_value
      <4> QED BY <2>4, <4>1, <4>2, <4>3, <4>4
    <3> HIDE DEF d
    <3>2. d.action = "Handled" /\ AppOK(d.app)
      BY <3>1 DEF Handled
    <3> QED BY <3>2 DEF d
  <2> QED BY <2>3, <2>4
<1>4. CASE a.input_mode = "Normal"
  <2>1. d = decode_normal(code, a)
    BY <1>4 DEF decode
  <2>2. CASE code = "c"
    <3>1. d = Handled(start_command(a))
      BY <2>1, <2>2 DEF decode_normal, CommandKey, CursorKey
    <3> QED BY <1>1, <3>1 DEF Handled
  <2>3. CASE code \in DOMAIN CommandKey
    <3>1. d = [app |-> a, action |-> CommandKey[code]]
      BY <2>1, <2>3 DEF decode_normal, CommandKey, CursorKey
    <3>2. CommandKey[code] # "SubmitCommand"
      BY <2>3 DEF CommandKey
    <3> QED BY <3>1, <3>2
  <2>4. CASE code \in DOMAIN CursorKey
    <3>1. d = [app |-> a, action |-> CursorKey[code]]
      BY <2>1, <2>4 DEF decode_normal, CommandKey, CursorKey
    <3>2. CursorKey[code] # "SubmitCommand"
      BY <2>4 DEF CursorKey
    <3> QED BY <3>1, <3>2
  <2>5. CASE code # "c" /\ code \notin DOMAIN CommandKey /\ code \notin DOMAIN CursorKey
    <3>1. d = Handled(a)
      BY <2>1, <2>5 DEF decode_normal
    <3> QED BY <3>1 DEF Handled
  <2> QED BY <2>2, <2>3, <2>4, <2>5
<1> QED BY <1>2, <1>3, <1>4 DEF AppOK

(***************************************************************************)
(* Selecting stays within the cluster.                                     *)
(***************************************************************************)
LEMMA SelectKeeps ==
  ASSUME NEW a, AppOK(a), NEW action
  PROVE  AppOK(ApplyToApp(action, a))
<1>1. Total \in Nat \ {0}
  BY ConsoleAssumption, FS_CardinalityType, FS_EmptySet DEF Total
<1>2. a.selected \in 0 .. Total - 1
  BY DEF AppOK
<1>3. /\ (a.selected + 1) % Total \in 0 .. Total - 1
      /\ (a.selected + Total - 1) % Total \in 0 .. Total - 1
  BY <1>1, <1>2
<1>4. AppOK(select_next(a)) /\ AppOK(select_prev(a))
  BY <1>3 DEF AppOK, select_next, select_prev
<1> QED BY <1>4 DEF ApplyToApp

----------------------------------------------------------------------------
(* The cluster and the network                                             *)

(***************************************************************************)
(* Cluster::new starts every node with its channel registered and empty.   *)
(***************************************************************************)
LEMMA ClusterInit ==
  SimInit => ClusterInv
<1> SUFFICES ASSUME SimInit PROVE ClusterInv
  OBVIOUS
<1>1. MaxIncarnation \in Nat /\ 1 \in 1 .. MaxIncarnation
  BY SimulatorAssumption
<1>2. running \subseteq Incarnation
  BY <1>1 DEF SimInit, Incarnation
<1>3. SimTypes
  BY <1>1, <1>2 DEF SimInit, SimTypes
<1>4. NoneAhead /\ AliveIsReachable
  BY <1>1 DEF SimInit, NoneAhead, AliveIsReachable, Latest
<1>5. Addressed
  BY DEF SimInit, Addressed
<1> QED BY <1>3, <1>4, <1>5 DEF ClusterInv

(***************************************************************************)
(* Sending, delivering and taking messages.                                *)
(***************************************************************************)
LEMMA TrafficKeeps ==
  ASSUME ClusterInv, Traffic
  PROVE  ClusterInv'
<1> DEFINE M == [from : Incarnation, channel : Incarnation, meant : Incarnation]
<1> USE DEF ClusterInv, clusterVars, networkVars, faultVars, trafficVars, simVars
<1>1. ASSUME UNCHANGED <<clusterVars, senders>>,
             incoming' \in [Incarnation -> Seq(M)], Addressed'
      PROVE  ClusterInv'
  BY <1>1 DEF SimTypes, NoneAhead, AliveIsReachable, Latest
<1>2. ASSUME NEW from \in running, NEW to \in Node, DeliverDrops(from, to)
      PROVE  ClusterInv'
  <2>1. UNCHANGED <<clusterVars, senders, incoming, flights>>
    BY <1>2 DEF DeliverDrops, Delivers
  <2> QED BY <1>1, <2>1 DEF SimTypes, Addressed
<1>3. ASSUME NEW from \in running, NEW to \in Node, DeliverNow(from, to)
      PROVE  ClusterInv'
  <2> DEFINE m == MessageFor(from, to)
  <2>1. /\ UNCHANGED <<clusterVars, senders, flights>> /\ Reaches(from, to)
        /\ try_send(<<to, senders[to]>>, m)
    BY <1>3 DEF DeliverNow, Delivers
  <2>2. m \in M /\ m.channel = <<to, senders[to]>> /\ m.meant = m.channel
    BY <2>1, MessageIsAddressed
  <2> HIDE DEF m
  <2>3. /\ incoming' \in [Incarnation -> Seq(M)]
        /\ \A i \in Incarnation : \A k \in DOMAIN incoming'[i] : incoming'[i][k].meant = i
    <3>1. \A i \in Incarnation : \A k \in DOMAIN incoming[i] : incoming[i][k].meant = i
      BY DEF Addressed
    <3>2. SimTypes
      OBVIOUS
    <3> HIDE DEF ClusterInv
    <3> QED BY <2>1, <2>2, <3>1, <3>2, TrySendKeeps, ZenonT(60)
  <2>4. Addressed'
    BY <2>1, <2>3, ZenonT(60) DEF Addressed
  <2> QED BY <1>1, <2>1, <2>3, <2>4
<1>4. ASSUME NEW from \in running, NEW to \in Node, DeliverLater(from, to)
      PROVE  ClusterInv'
  <2> DEFINE m == MessageFor(from, to)
  <2>1. /\ UNCHANGED <<clusterVars, senders, incoming>> /\ Reaches(from, to)
        /\ \E t, n : flights' = flights \cup {[task |-> t, delay |-> n, message |-> m]}
    BY <1>4 DEF DeliverLater, Delivers
  <2>2. m \in M /\ m.meant = m.channel
    BY <2>1, MessageIsAddressed
  <2> HIDE DEF m
  <2>3. \A f \in flights' : f \in flights \/ f.message = m
    BY <2>1
  <2>4. Addressed'
    BY <2>1, <2>2, <2>3 DEF Addressed
  <2> QED BY <1>1, <2>1, <2>4 DEF SimTypes
<1>5. ASSUME NEW f \in flights, TakeOff(f)
      PROVE  ClusterInv'
  <2>1. UNCHANGED <<clusterVars, senders, incoming, flights>>
    BY <1>5 DEF TakeOff
  <2> QED BY <1>1, <2>1 DEF SimTypes, Addressed
<1>6. ASSUME NEW f \in flights, Land(f)
      PROVE  ClusterInv'
  <2>1. /\ UNCHANGED <<clusterVars, senders>> /\ flights' = flights \ {f}
        /\ try_send(f.message.channel, f.message)
    BY <1>6 DEF Land
  <2>2. f.message \in M /\ f.message.meant = f.message.channel
    BY DEF Addressed
  <2>3. /\ incoming' \in [Incarnation -> Seq(M)]
        /\ \A i \in Incarnation : \A k \in DOMAIN incoming'[i] : incoming'[i][k].meant = i
    <3>1. \A i \in Incarnation : \A k \in DOMAIN incoming[i] : incoming[i][k].meant = i
      BY DEF Addressed
    <3>2. SimTypes
      OBVIOUS
    <3> HIDE DEF ClusterInv
    <3> QED BY <2>1, <2>2, <3>1, <3>2, TrySendKeeps, ZenonT(60)
  <2>4. Addressed'
    BY <2>1, <2>3 DEF Addressed
  <2> QED BY <1>1, <2>1, <2>3, <2>4
<1>7. ASSUME NEW i \in running, Take(i)
      PROVE  ClusterInv'
  <2>1. /\ UNCHANGED <<clusterVars, senders, flights>> /\ i \in Incarnation
        /\ incoming[i] # << >> /\ incoming' = [incoming EXCEPT ![i] = Tail(@)]
    BY <1>7 DEF Take, SimTypes
  <2>2. incoming \in [Incarnation -> Seq(M)] /\ incoming[i] \in Seq(M)
    BY <2>1 DEF SimTypes
  <2> HIDE DEF M
  <2>3. /\ Tail(incoming[i]) \in Seq(M)
        /\ \A k \in DOMAIN Tail(incoming[i]) :
             k + 1 \in DOMAIN incoming[i] /\ Tail(incoming[i])[k] = incoming[i][k + 1]
    BY <2>1, <2>2, TailKeeps
  <2>4. /\ incoming' \in [Incarnation -> Seq(M)]
        /\ incoming'[i] = Tail(incoming[i])
        /\ \A j \in Incarnation : j # i => incoming'[j] = incoming[j]
    BY <2>1, <2>2, <2>3
  <2>5. Addressed'
    BY <2>1, <2>3, <2>4 DEF Addressed
  <2> QED BY <1>1, <2>1, <2>4, <2>5
<1>8. ASSUME NEW i \in running, TakeCommand(i)
      PROVE  ClusterInv'
  <2>1. UNCHANGED <<clusterVars, senders, incoming, flights>>
    BY <1>8 DEF TakeCommand
  <2> QED BY <1>1, <2>1 DEF SimTypes, Addressed
<1>9. ASSUME NEW i \in running, Dies(i)
      PROVE  ClusterInv'
  <2>1. /\ UNCHANGED <<alive, incarnation, senders, flights>> /\ i \in Incarnation
        /\ Aborted(i) /\ running' = running \ {i}
        /\ incoming' = [incoming EXCEPT ![i] = << >>]
    BY <1>9 DEF Dies, SimTypes
  <2>2. incoming \in [Incarnation -> Seq(M)]
    BY DEF SimTypes
  <2> HIDE DEF M
  <2>3. /\ incoming' \in [Incarnation -> Seq(M)]
        /\ incoming'[i] = << >>
        /\ \A j \in Incarnation : j # i => incoming'[j] = incoming[j]
    BY <2>1, <2>2
  <2>4. Addressed'
    BY <2>1, <2>3 DEF Addressed
  <2>5. \A n \in Node : alive[n] => Latest(n) # i
    <3> SUFFICES ASSUME NEW n \in Node, alive[n], Latest(n) = i PROVE FALSE
      OBVIOUS
    <3>1. i[1] = n /\ i[2] = incarnation[n] /\ incarnation[n] \in Nat
      BY DEF Latest, SimTypes
    <3> QED BY <2>1, <3>1 DEF Aborted
  <2>6. AliveIsReachable'
    BY <2>1, <2>5 DEF AliveIsReachable, Latest
  <2>7. SimTypes' /\ NoneAhead'
    BY <2>1, <2>3 DEF SimTypes, NoneAhead, M
  <2> QED BY <2>4, <2>6, <2>7
<1> HIDE DEF ClusterInv
<1> QED BY <1>2, <1>3, <1>4, <1>5, <1>6, <1>7, <1>8, <1>9, Zenon DEF Traffic

(***************************************************************************)
(* The keys that act on the nodes and the network.                         *)
(***************************************************************************)
LEMMA ClusterKeysKeep ==
  ASSUME ClusterInv, AppOK(app), NEW action, ApplyToCluster(action)
  PROVE  ClusterInv'
<1> USE DEF ClusterInv, clusterVars, networkVars, faultVars, trafficVars, simVars
<1> DEFINE n == app.selected + 1
<1>1. Total \in Nat \ {0} /\ Node = 1 .. Total
  BY ConsoleAssumption, FS_CardinalityType, FS_EmptySet DEF Total
<1>2. n \in Node
  BY <1>1 DEF AppOK
<1> HIDE DEF n
<1>3. ASSUME UNCHANGED <<clusterVars, senders, incoming, flights>>
      PROVE  ClusterInv'
  BY <1>3 DEF SimTypes, NoneAhead, AliveIsReachable, Latest, Addressed
<1>4. CASE KillNode(n)
  <2>1. /\ alive' = [alive EXCEPT ![n] = FALSE]
        /\ senders' = IF alive[n] THEN [senders EXCEPT ![n] = 0] ELSE senders
        /\ UNCHANGED <<incarnation, running, incoming, flights>>
    BY <1>4 DEF KillNode, deregister
  <2>2. /\ alive \in [Node -> BOOLEAN] /\ senders \in [Node -> 0 .. MaxIncarnation]
        /\ MaxIncarnation \in Nat
    BY SimulatorAssumption DEF SimTypes
  <2>3. SimTypes'
    <3>1. alive' \in [Node -> BOOLEAN]
      BY <2>1, <2>2
    <3>2. [senders EXCEPT ![n] = 0] \in [Node -> 0 .. MaxIncarnation]
      <4>1. 0 \in 0 .. MaxIncarnation
        BY <2>2
      <4> QED BY <2>2, <4>1, Zenon
    <3>3. senders' \in [Node -> 0 .. MaxIncarnation]
      BY <2>1, <2>2, <3>2
    <3> QED BY <2>1, <3>1, <3>3 DEF SimTypes
  <2>4. /\ ~ alive'[n] /\ senders'[n] = 0
        /\ \A m \in Node : m # n => alive'[m] = alive[m] /\ senders'[m] = senders[m]
    BY <1>2, <2>1, <2>2 DEF AliveIsReachable
  <2>5. AliveIsReachable'
    BY <2>1, <2>4 DEF AliveIsReachable, Latest
  <2>6. NoneAhead' /\ Addressed'
    BY <2>1 DEF NoneAhead, Addressed
  <2> QED BY <2>3, <2>5, <2>6
<1>5. CASE RestartNode(n)
  <2>1. CASE alive[n]
    <3>1. UNCHANGED <<clusterVars, senders, incoming, flights>>
      BY <1>5, <2>1 DEF RestartNode
    <3> QED BY <1>3, <3>1
  <2>2. CASE ~ alive[n]
    <3> DEFINE k == incarnation[n] + 1
    <3>1. /\ alive' = [alive EXCEPT ![n] = TRUE]
          /\ incarnation' = [incarnation EXCEPT ![n] = k]
          /\ running' = running \cup {<<n, k>>}
          /\ senders' = [senders EXCEPT ![n] = k]
          /\ incarnation[n] < MaxIncarnation
          /\ UNCHANGED <<incoming, flights>>
      BY <1>5, <2>2 DEF RestartNode, start_node, register
    <3>2. /\ MaxIncarnation \in Nat /\ incarnation[n] \in Nat
          /\ k \in 1 .. MaxIncarnation /\ k \in 0 .. MaxIncarnation /\ k \in Nat
      BY <1>2, <3>1, SimulatorAssumption DEF SimTypes
    <3>3. <<n, k>> \in Incarnation
      BY <1>2, <3>2 DEF Incarnation
    <3>4. SimTypes'
      BY <1>2, <3>1, <3>2, <3>3 DEF SimTypes
    <3>5. /\ alive'[n] /\ senders'[n] = k /\ incarnation'[n] = k
          /\ \A m \in Node : m # n => /\ alive'[m] = alive[m]
                                      /\ senders'[m] = senders[m]
                                      /\ incarnation'[m] = incarnation[m]
      BY <1>2, <3>1 DEF SimTypes
    <3> HIDE DEF k
    <3>6. AliveIsReachable'
      BY <3>1, <3>5 DEF AliveIsReachable, Latest
    <3>7. NoneAhead'
      <4> SUFFICES ASSUME NEW i \in running' PROVE i[2] <= incarnation'[i[1]]
        BY DEF NoneAhead
      <4>1. CASE i = <<n, k>>
        BY <3>2, <3>5, <4>1
      <4>2. CASE i # <<n, k>>
        <5>1. i \in running /\ i \in Incarnation
          BY <3>1, <4>2 DEF SimTypes
        <5>2. i[1] \in Node /\ i[2] \in Nat
          BY <5>1, <3>2 DEF Incarnation
        <5>3. i[2] <= incarnation[i[1]]
          BY <5>1 DEF NoneAhead
        <5>4. CASE i[1] = n
          BY <3>2, <3>5, <5>2, <5>3, <5>4 DEF k
        <5>5. CASE i[1] # n
          BY <3>5, <5>2, <5>3, <5>5
        <5> QED BY <5>4, <5>5
      <4> QED BY <4>1, <4>2
    <3>8. Addressed'
      BY <3>1 DEF Addressed
    <3> QED BY <3>4, <3>6, <3>7, <3>8
  <2> QED BY <2>1, <2>2
<1>6. CASE UNCHANGED <<clusterVars, senders, incoming, flights>>
  BY <1>3, <1>6
<1>7. KillNode(n) \/ RestartNode(n) \/ UNCHANGED <<clusterVars, senders, incoming, flights>>
  BY DEF ApplyToCluster, n, Isolate, Unisolate, SetDropRate, SetLatency,
         SubmitCommand, Submit
<1> QED BY <1>4, <1>5, <1>6, <1>7

(***************************************************************************)
(* Whatever a task does or a key changes, the invariant goes on.           *)
(***************************************************************************)
LEMMA ClusterStep ==
  ClusterInv /\ CommandInv /\ [ConsoleNext]_allVars => ClusterInv'
<1> SUFFICES ASSUME ClusterInv, CommandInv, [ConsoleNext]_allVars
             PROVE  ClusterInv'
  OBVIOUS
<1>1. ASSUME UNCHANGED simVars PROVE ClusterInv'
  BY <1>1 DEF ClusterInv, SimTypes, NoneAhead, AliveIsReachable, Latest,
              Addressed, simVars, clusterVars, networkVars, trafficVars
<1>2. CASE Runs
  BY <1>1, <1>2, TrafficKeeps DEF Runs
<1>3. ASSUME NEW code \in KeyCode, Press(code) PROVE ClusterInv'
  <2>1. \/ UNCHANGED systemVars
        \/ \E action : ApplyToCluster(action)
        \/ \E action : ApplyToClock(action)
    BY <1>3, Zenon DEF Press
  <2>2. UNCHANGED simVars \/ \E action : ApplyToCluster(action)
    BY <2>1 DEF systemVars, ApplyToClock
  <2> QED BY <1>1, <2>2, ClusterKeysKeep DEF CommandInv
<1>4. CASE UNCHANGED allVars
  BY <1>1, <1>4 DEF allVars, systemVars
<1> QED BY <1>2, <1>3, <1>4 DEF ConsoleNext

----------------------------------------------------------------------------
(* Commands                                                                *)

(***************************************************************************)
(* The App that a run begins with, and the empty channels of commands.     *)
(***************************************************************************)
LEMMA CommandInit ==
  ConsoleInit => CommandInv
<1> SUFFICES ASSUME ConsoleInit PROVE CommandInv
  OBVIOUS
<1>1. MaxText \in Nat
  BY ConsoleAssumption
<1>2. AppOK(app)
  BY <1>1 DEF ConsoleInit, ReachableApp, AppDefault, AppOK
<1>3. clients \in [Incarnation -> Seq([key : Nat \ {0}, value : Nat])]
  BY DEF ConsoleInit, SimInit
<1> QED BY <1>2, <1>3 DEF CommandInv

(***************************************************************************)
(* submit hands a command with a key to one node, or loses it.             *)
(***************************************************************************)
LEMMA SubmitKeeps ==
  ASSUME NEW n, NEW C, NEW c \in C, clients \in [Incarnation -> Seq(C)],
         running \subseteq Incarnation, Submit(n, c)
  PROVE  clients' \in [Incarnation -> Seq(C)]
<1>1. CASE clients' = clients
  BY <1>1
<1>2. CASE Latest(n) \in running /\ clients' = [clients EXCEPT ![Latest(n)] = Append(@, c)]
  <2> DEFINE i == Latest(n)
  <2>1. i \in Incarnation
    BY <1>2
  <2> HIDE DEF i
  <2>2. Append(clients[i], c) \in Seq(C)
    BY <2>1
  <2> QED BY <1>2, <2>1, <2>2 DEF i
<1> QED BY <1>1, <1>2 DEF Submit

(***************************************************************************)
(* Every step leaves the typed text in order and the commands with a key.  *)
(***************************************************************************)
LEMMA CommandStep ==
  ClusterInv /\ CommandInv /\ [ConsoleNext]_allVars => CommandInv'
<1> DEFINE C == [key : Nat \ {0}, value : Nat]
<1> SUFFICES ASSUME ClusterInv, CommandInv, [ConsoleNext]_allVars
             PROVE  CommandInv'
  OBVIOUS
<1>1. clients \in [Incarnation -> Seq(C)] /\ AppOK(app) /\ running \subseteq Incarnation
  BY DEF CommandInv, ClusterInv, SimTypes
<1>2. ASSUME UNCHANGED <<clients, app>> PROVE CommandInv'
  BY <1>2 DEF CommandInv, AppOK
<1>3. ASSUME clients' \in [Incarnation -> Seq(C)], UNCHANGED app PROVE CommandInv'
  BY <1>3 DEF CommandInv, AppOK
<1>4. ASSUME Runs, UNCHANGED app PROVE CommandInv'
  <2>1. CASE UNCHANGED clients
    BY <1>2, <1>4, <2>1
  <2>2. ASSUME NEW i \in running, TakeCommand(i) PROVE CommandInv'
    <3>1. i \in Incarnation /\ clients[i] # << >> /\ clients' = [clients EXCEPT ![i] = Tail(@)]
      BY <1>1, <2>2 DEF TakeCommand
    <3> HIDE DEF C
    <3>2. Tail(clients[i]) \in Seq(C)
      BY <1>1, <3>1, TailKeeps
    <3>3. clients' \in [Incarnation -> Seq(C)]
      BY <1>1, <3>1, <3>2
    <3> QED BY <1>3, <1>4, <3>3
  <2>3. ASSUME NEW i \in running, Dies(i) PROVE CommandInv'
    <3>1. clients' = [clients EXCEPT ![i] = << >>]
      BY <2>3 DEF Dies
    <3> HIDE DEF C
    <3>2. clients' \in [Incarnation -> Seq(C)]
      BY <1>1, <3>1
    <3> QED BY <1>3, <1>4, <3>2
  <2>4. \/ UNCHANGED clients
        \/ \E i \in running : TakeCommand(i) \/ Dies(i)
    <3>1. CASE \E from \in running, to \in Node :
                 DeliverDrops(from, to) \/ DeliverNow(from, to) \/ DeliverLater(from, to)
      BY <3>1 DEF DeliverDrops, DeliverNow, DeliverLater, Delivers
    <3>2. CASE \E f \in flights : TakeOff(f) \/ Land(f)
      BY <3>2 DEF TakeOff, Land, simVars, trafficVars
    <3>3. CASE \E i \in running : Take(i) \/ TakeCommand(i) \/ Dies(i)
      BY <3>3 DEF Take
    <3>4. CASE UNCHANGED simVars
      BY <3>4 DEF simVars, trafficVars
    <3> QED BY <1>4, <3>1, <3>2, <3>3, <3>4, Zenon DEF Runs, Traffic
  <2> QED BY <2>1, <2>2, <2>3, <2>4
<1>5. ASSUME NEW code \in KeyCode, Press(code) PROVE CommandInv'
  <2> DEFINE d == decode(code, app)
  <2>1. /\ app' = ApplyToApp(d.action, d.app)
        /\ \/ UNCHANGED systemVars \/ ApplyToCluster(d.action) \/ ApplyToClock(d.action)
    BY <1>5, Zenon DEF Press
  <2>2. AppOK(d.app) /\ (d.action = "SubmitCommand" => app.input_mode = "EnteringValue")
    BY <1>1, DecodeKeeps
  <2> HIDE DEF d
  <2>3. AppOK(app')
    BY <2>1, <2>2, SelectKeeps
  <2>4. UNCHANGED clients \/ (d.action = "SubmitCommand" /\ SubmitCommand)
    <3>1. CASE UNCHANGED systemVars \/ ApplyToClock(d.action)
      BY <3>1 DEF ApplyToClock, systemVars, simVars, trafficVars
    <3>2. CASE ApplyToCluster(d.action)
      BY <3>2 DEF ApplyToCluster, KillNode, RestartNode, Isolate, Unisolate,
                  SetDropRate, SetLatency, trafficVars
    <3> QED BY <2>1, <3>1, <3>2
  <2>5. clients' \in [Incarnation -> Seq(C)]
    <3>1. CASE UNCHANGED clients
      BY <1>1, <3>1
    <3>2. CASE d.action = "SubmitCommand" /\ SubmitCommand
      <4> DEFINE c == [key |-> app.input_key, value |-> app.input_val]
      <4>1. c \in C
        BY <1>1, <2>2, <3>2 DEF AppOK
      <4>2. UNCHANGED simVars \/ Submit(Target, c)
        BY <3>2 DEF SubmitCommand
      <4> HIDE DEF C, c
      <4>3. CASE UNCHANGED simVars
        BY <1>1, <4>3 DEF simVars, trafficVars
      <4>4. CASE Submit(Target, c)
        BY <1>1, <4>1, <4>4, SubmitKeeps
      <4> QED BY <4>2, <4>3, <4>4
    <3> QED BY <2>4, <3>1, <3>2
  <2> QED BY <2>3, <2>5 DEF CommandInv, AppOK
<1>6. CASE UNCHANGED allVars
  BY <1>2, <1>6 DEF allVars, systemVars, simVars, trafficVars
<1> QED BY <1>4, <1>5, <1>6 DEF ConsoleNext

----------------------------------------------------------------------------
(* Theorems                                                                *)

(***************************************************************************)
(* The inductive invariant holds of the simulator and its user, for every  *)
(* number of nodes, starts, messages, delays and keys.                     *)
(***************************************************************************)
THEOREM ConsoleInvHolds == ConsoleSpec => [](ClusterInv /\ CommandInv)
<1>1. ConsoleInit => ClusterInv /\ CommandInv
  BY ClusterInit, CommandInit DEF ConsoleInit
<1>2. ClusterInv /\ CommandInv /\ [ConsoleNext]_allVars => (ClusterInv /\ CommandInv)'
  BY ClusterStep, CommandStep
<1> QED BY <1>1, <1>2, PTL DEF ConsoleSpec

(***************************************************************************)
(* No channel ever holds a message that was sent to another incarnation of *)
(* its node (deliver clones the channel before it waits).                  *)
(***************************************************************************)
THEOREM NoStale == ConsoleSpec => []NoStaleDelivery
<1>1. ClusterInv => NoStaleDelivery
  BY DEF ClusterInv, SimTypes, Addressed, NoStaleDelivery
<1> QED BY <1>1, ConsoleInvHolds, PTL

(***************************************************************************)
(* A node is registered with the channel of its latest task exactly while  *)
(* its handle calls it alive (kill_node, restart_node, and the late end of *)
(* an aborted task).                                                       *)
(***************************************************************************)
THEOREM Reachable == ConsoleSpec => []AliveIsReachable
<1>1. ClusterInv => AliveIsReachable
  BY DEF ClusterInv
<1> QED BY <1>1, ConsoleInvHolds, PTL

(***************************************************************************)
(* No sequence of keys, of any length, submits a command without a key.    *)
(***************************************************************************)
THEOREM KeysPresent == ConsoleSpec => []CommandsHaveKeys
<1>1. CommandInv => CommandsHaveKeys
  <2> DEFINE C == [key : Nat \ {0}, value : Nat]
  <2> SUFFICES ASSUME CommandInv, NEW i \in Incarnation, NEW k \in DOMAIN clients[i]
               PROVE  clients[i][k].key > 0
    BY DEF CommandsHaveKeys
  <2>1. clients[i] \in Seq(C)
    BY DEF CommandInv
  <2> HIDE DEF C
  <2>2. clients[i][k] \in C
    BY <2>1
  <2> QED BY <2>2 DEF C
<1> QED BY <1>1, ConsoleInvHolds, PTL

(***************************************************************************)
(* A key pressed while text is typed changes no node, link or clock.       *)
(***************************************************************************)
THEOREM TypingHarmless == ConsoleSpec => TypingIsHarmless
<1> DEFINE Harmless == app.input_mode # "Normal" /\ keys' # keys
                         => UNCHANGED <<clusterVars, networkVars, clockVars>>
<1>1. CommandInv /\ [ConsoleNext]_allVars => [Harmless]_allVars
  <2> SUFFICES ASSUME CommandInv, ConsoleNext, app.input_mode # "Normal", keys' # keys
               PROVE  UNCHANGED <<clusterVars, networkVars, clockVars>>
    OBVIOUS
  <2>1. PICK code \in KeyCode : Press(code)
    BY DEF ConsoleNext
  <2> DEFINE d == decode(code, app)
  <2>2. d.action \in {"Handled", "SubmitCommand"}
    <3>1. app.input_mode \in {"EnteringKey", "EnteringValue"}
      BY DEF CommandInv, AppOK
    <3>2. CASE app.input_mode = "EnteringKey"
      <4>1. d = decode_entering_key(code, app)
        BY <3>2 DEF decode
      <4>2. \E b : d = Handled(b)
        BY <4>1, Zenon DEF decode_entering_key
      <4> QED BY <4>2 DEF Handled
    <3>3. CASE app.input_mode = "EnteringValue"
      <4>1. d = decode_entering_value(code, app)
        BY <3>3 DEF decode
      <4>2. (\E b : d = Handled(b)) \/ (\E b : d = [app |-> b, action |-> "SubmitCommand"])
        BY <4>1, Zenon DEF decode_entering_value
      <4> QED BY <4>2 DEF Handled
    <3> QED BY <3>1, <3>2, <3>3
  <2>3. UNCHANGED systemVars \/ ApplyToCluster(d.action) \/ ApplyToClock(d.action)
    BY <2>1, Zenon DEF Press
  <2> HIDE DEF d
  <2>4. CASE UNCHANGED systemVars
    BY <2>4 DEF systemVars, simVars
  <2>5. CASE ApplyToCluster(d.action)
    <3>1. SubmitCommand /\ UNCHANGED clockVars
      BY <2>2, <2>5 DEF ApplyToCluster
    <3> QED BY <3>1 DEF SubmitCommand, Submit, simVars
  <2>6. ~ ApplyToClock(d.action)
    BY <2>2 DEF ApplyToClock
  <2> QED BY <2>3, <2>4, <2>5, <2>6
<1>2. ConsoleSpec => []CommandInv
  BY ConsoleInvHolds, PTL
<1> QED BY <1>1, <1>2, PTL DEF ConsoleSpec, TypingIsHarmless
=============================================================================
