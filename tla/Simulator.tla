----------------------------- MODULE Simulator -----------------------------
(***************************************************************************)
(* The simulator's cluster and network around the nodes: kill, restart,    *)
(* isolation, loss, latency, and the channels of messages and of client    *)
(* commands.  What a node does with them is Raft's; here a running node    *)
(* may send to any peer at any moment and takes what is in its channels.   *)
(* Console adds the user, whose keys call what is here.                    *)
(*                                                                         *)
(* Every start of a node is an incarnation with a channel of its own.      *)
(* JoinHandle::abort only asks: a killed incarnation goes on until its     *)
(* task next awaits, and may by then have a successor.                     *)
(*                                                                         *)
(* Network::deliver takes one lock after the other.  A key pressed between *)
(* two of them has the effect it would have before or after the call, so   *)
(* deliver is one step.                                                    *)
(***************************************************************************)
EXTENDS SimClock, Sequences

CONSTANTS
  Node,
  Capacity,        \* incoming_channel_capacity
  ClientCapacity,  \* client_channel_capacity
  MaxDrop,         \* drop_rate is a multiple of 1 / MaxDrop
  MaxIncarnation,  \* bound: starts per node
  MaxSends         \* bound: calls of deliver

ASSUME SimulatorAssumption ==
  /\ Capacity \in Nat \ {0} /\ ClientCapacity \in Nat \ {0}
  /\ MaxDrop \in Nat \ {0}
  /\ MaxIncarnation \in Nat \ {0}
  /\ MaxSends \in Nat

VARIABLES
  alive,        \* NodeHandle.alive
  incarnation,  \* how often each node was started
  running,      \* the incarnations whose task has not ended
  senders,      \* Network: the incarnation whose channel is registered, or 0
  partitions,   \* Network: the directed links that are cut
  drop_rate,    \* Network: in units of 1 / MaxDrop
  latency,      \* Network: latency_ms; 0 is immediate delivery
  incoming,     \* of each incarnation: its channel of messages
  clients,      \* of each incarnation: its channel of commands
  flights,      \* the spawned delivery tasks: [task, delay, message]
  sends         \* number of calls of deliver

clusterVars == <<alive, incarnation, running>>
faultVars   == <<partitions, drop_rate, latency>>
networkVars == <<senders, faultVars>>
trafficVars == <<incoming, clients, flights, sends>>
simVars     == <<clusterVars, networkVars, trafficVars>>
systemVars  == <<clockVars, simVars>>

\* An incarnation is a node and a number.
Incarnation == Node \X (1 .. MaxIncarnation)

Latest(n) == <<n, incarnation[n]>>

----------------------------------------------------------------------------
(* Network                                                                 *)

register(n, k) == senders' = [senders EXCEPT ![n] = k]
deregister(n)  == senders' = [senders EXCEPT ![n] = 0]

\* A message with its sender, the channel that deliver has cloned for it,
\* and (history) the incarnation that was the receiver when it was sent.
MessageFor(from, to) ==
  [from |-> from, channel |-> <<to, senders[to]>>, meant |-> Latest(to)]

\* try_send: a full channel, and one whose task has ended, loses it.
try_send(channel, m) ==
  incoming' = IF channel \in running /\ Len(incoming[channel]) < Capacity
              THEN [incoming EXCEPT ![channel] = Append(@, m)]
              ELSE incoming

\* Calls of deliver by the task of an incarnation.
Delivers(from, to) ==
  /\ from \in running
  /\ to # from[1]
  /\ sends < MaxSends
  /\ sends' = sends + 1
  /\ UNCHANGED <<clusterVars, networkVars, clients>>

\* The receiver is registered, the link is not cut, and luck may have it.
Reaches(from, to) ==
  senders[to] # 0 /\ <<from[1], to>> \notin partitions /\ drop_rate < MaxDrop

\* Dead node, partition, or random loss.
DeliverDrops(from, to) ==
  /\ Delivers(from, to)
  /\ ~ Reaches(from, to) \/ drop_rate > 0
  /\ UNCHANGED <<clockVars, incoming, flights>>

DeliverNow(from, to) ==
  /\ Delivers(from, to)
  /\ Reaches(from, to)
  /\ latency = 0
  /\ try_send(<<to, senders[to]>>, MessageFor(from, to))
  /\ UNCHANGED <<clockVars, flights>>

DeliverLater(from, to) ==
  /\ Delivers(from, to)
  /\ Reaches(from, to)
  /\ latency > 0
  /\ \E t \in Task : sleep[t].at = "none"
  /\ LET t == CHOOSE t \in Task : sleep[t].at = "none"
     IN  /\ Spawn(t)
         /\ flights' = flights \cup {[task |-> t, delay |-> latency,
                                      message |-> MessageFor(from, to)]}
  /\ UNCHANGED incoming

\* The spawned task: it sleeps, and then try_sends into the cloned channel,
\* whatever has happened to sender, receiver and link by then.
TakeOff(f) ==
  /\ Sleep(f.task, f.delay)
  /\ UNCHANGED simVars

Land_LooksUp(f) ==
  /\ sleep[f.task].at = "over"
  /\ try_send(<<f.message.meant[1], senders[f.message.meant[1]]>>, f.message)
  /\ flights' = flights \ {f}
  /\ UNCHANGED <<clockVars, clusterVars, networkVars, clients, sends>>

Land(f) ==
  /\ sleep[f.task].at = "over"
  /\ try_send(f.message.channel, f.message)
  /\ flights' = flights \ {f}
  /\ UNCHANGED <<clockVars, clusterVars, networkVars, clients, sends>>

\* The node's loop takes a message.
Take(i) ==
  /\ i \in running
  /\ incoming[i] # << >>
  /\ incoming' = [incoming EXCEPT ![i] = Tail(@)]
  /\ UNCHANGED <<clockVars, clusterVars, networkVars, clients, flights, sends>>

\* ... or a command.
TakeCommand(i) ==
  /\ i \in running
  /\ clients[i] # << >>
  /\ clients' = [clients EXCEPT ![i] = Tail(@)]
  /\ UNCHANGED <<clockVars, clusterVars, networkVars, incoming, flights, sends>>

----------------------------------------------------------------------------
(* Cluster, on the thread of the user interface                            *)

Aborted_WhenReplaced(i) == i[2] < incarnation[i[1]]

\* kill_node has called abort on the task.
Aborted(i) == i[2] < incarnation[i[1]] \/ ~ alive[i[1]]

Dies_Deregisters(i) ==
  /\ i \in running
  /\ Aborted(i)
  /\ running' = running \ {i}
  /\ incoming' = [incoming EXCEPT ![i] = << >>]
  /\ clients' = [clients EXCEPT ![i] = << >>]
  /\ deregister(i[1])
  /\ UNCHANGED <<clockVars, alive, incarnation, faultVars, flights, sends>>

\* The aborted task reaches an await; its channels go with it.
Dies(i) ==
  /\ i \in running
  /\ Aborted(i)
  /\ running' = running \ {i}
  /\ incoming' = [incoming EXCEPT ![i] = << >>]
  /\ clients' = [clients EXCEPT ![i] = << >>]
  /\ UNCHANGED <<clockVars, alive, incarnation, networkVars, flights, sends>>

\* kill_node; a dead node stays dead.
KillNode(n) ==
  /\ alive' = [alive EXCEPT ![n] = FALSE]
  /\ IF alive[n] THEN deregister(n) ELSE UNCHANGED senders
  /\ UNCHANGED <<incarnation, running, faultVars, trafficVars>>

\* start_node: incarnation k of n, with its new channel registered before
\* its task runs.
start_node(n, k) ==
  /\ alive' = [alive EXCEPT ![n] = TRUE]
  /\ incarnation' = [incarnation EXCEPT ![n] = k]
  /\ running' = running \cup {<<n, k>>}
  /\ register(n, k)

\* restart_node; a running one goes on.
RestartNode(n) ==
  /\ IF alive[n] THEN UNCHANGED <<clusterVars, senders>>
     ELSE /\ incarnation[n] < MaxIncarnation
          /\ start_node(n, incarnation[n] + 1)
  /\ UNCHANGED <<faultVars, trafficVars>>

\* All links of a node, in both directions.
Links(n) == {l \in Node \X Node : l[1] # l[2] /\ n \in {l[1], l[2]}}

Isolate(n) ==
  /\ partitions' = partitions \cup Links(n)
  /\ UNCHANGED <<clusterVars, senders, drop_rate, latency, trafficVars>>

Unisolate(n) ==
  /\ partitions' = partitions \ Links(n)
  /\ UNCHANGED <<clusterVars, senders, drop_rate, latency, trafficVars>>

\* set_drop_rate clamps to [0, 1].
SetDropRate(rate) ==
  /\ drop_rate' = IF rate < 0 THEN 0 ELSE IF rate > MaxDrop THEN MaxDrop ELSE rate
  /\ UNCHANGED <<clusterVars, senders, partitions, latency, trafficVars>>

SetLatency(ms) ==
  /\ latency' = ms
  /\ UNCHANGED <<clusterVars, senders, partitions, drop_rate, trafficVars>>

\* submit: try_send into the channel of the node's handle.
Submit(n, command) ==
  LET channel == Latest(n)
  IN  /\ clients' = IF /\ alive[n] /\ channel \in running
                       /\ Len(clients[channel]) < ClientCapacity
                    THEN [clients EXCEPT ![channel] = Append(@, command)]
                    ELSE clients
      /\ UNCHANGED <<clusterVars, networkVars, incoming, flights, sends>>

----------------------------------------------------------------------------
\* Network::new: no faults.
NetworkInit ==
  /\ partitions = {}
  /\ drop_rate = 0
  /\ latency = 0

\* Cluster::new starts every node.
SimInit ==
  /\ ClockInit
  /\ alive = [n \in Node |-> TRUE]
  /\ incarnation = [n \in Node |-> 1]
  /\ running = Node \X {1}
  /\ senders = [n \in Node |-> 1]
  /\ NetworkInit
  /\ incoming = [i \in Incarnation |-> << >>]
  /\ clients = [i \in Incarnation |-> << >>]
  /\ flights = {}
  /\ sends = 0

Traffic ==
  \/ \E from \in running, to \in Node :
       DeliverDrops(from, to) \/ DeliverNow(from, to) \/ DeliverLater(from, to)
  \/ \E f \in flights : TakeOff(f) \/ Land(f)
  \/ \E i \in running : Take(i) \/ TakeCommand(i) \/ Dies(i)

\* What happens by itself.
Runs == Traffic \/ (ClockRuns /\ UNCHANGED simVars)

\* Besides the clock's: an aborted task ends, a delivery task runs, and a
\* node's loop serves its channels.
SimFairness ==
  /\ ClockFairness
  /\ \A i \in Incarnation :
       /\ WF_systemVars(Dies(i))
       /\ WF_systemVars(Take(i)) /\ WF_systemVars(TakeCommand(i))
  /\ WF_systemVars(\E f \in flights : TakeOff(f) \/ Land(f))

----------------------------------------------------------------------------
(* Properties                                                              *)

(***************************************************************************)
(* A message reaches the incarnation that it was sent to or nobody: a      *)
(* restarted node never finds a message in its channel that was sent       *)
(* before its start, however long it was delayed and whatever was killed,  *)
(* isolated or reconnected meanwhile (the channel cloned in deliver).      *)
(***************************************************************************)
NoStaleDelivery ==
  \A i \in running, k \in 1 .. Capacity :
    k \in DOMAIN incoming[i] => incoming[i][k].meant = i

(***************************************************************************)
(* A node that its handle calls alive has its latest task running and that *)
(* task's channel registered, and a dead one has none: the end of an       *)
(* aborted task, which may come after the node was started again, never    *)
(* takes the successor off the network (kill_node deregisters, not the     *)
(* task).                                                                  *)
(***************************************************************************)
AliveIsReachable ==
  \A n \in Node :
    IF alive[n] THEN Latest(n) \in running /\ senders[n] = incarnation[n]
    ELSE senders[n] = 0

Killed(i) ==
  i[2] <= incarnation[i[1]] /\ ~ (alive[i[1]] /\ i = Latest(i[1]))

\* The incarnation runs, or a message of it is on its way.
Audible(i) ==
  \/ i \in running
  \/ \E f \in flights : f.message.from = i
  \/ \E j \in running : \E k \in DOMAIN incoming[j] : incoming[j][k].from = i

(***************************************************************************)
(* A killed incarnation falls silent: its task ends and what it has sent   *)
(* arrives or is lost, unless the clock is paused (kill_node, and the      *)
(* delivery tasks that outlive it).                                        *)
(***************************************************************************)
KilledFallsSilent ==
  \A i \in Incarnation : Killed(i) ~> ~ Audible(i) \/ paused
=============================================================================
