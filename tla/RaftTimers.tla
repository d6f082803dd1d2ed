----------------------------- MODULE RaftTimers -----------------------------
(***************************************************************************)
(* Raft with the timers of raft-runtime: which timer runs at which node,   *)
(* and the queue through which an expired one reaches the node loop.  In   *)
(* Raft a timeout may happen at any moment; here it happens only when its  *)
(* timer was set and not aborted in time.  A timer may expire at any       *)
(* moment after it was set: delays are not modelled, only what reset and   *)
(* cancel can still stop.  An event that is in the queue cannot be stopped *)
(* any more.                                                               *)
(***************************************************************************)
EXTENDS Raft

CONSTANT TimerCapacity  \* of the channel between the timers and the loop

ASSUME CapacityAssumption == TimerCapacity \in Nat \ {0}

VARIABLES
  election_timer,   \* a task of ElectionTimer sleeps, or waits to send
  heartbeat_timer,  \* a task of HeartbeatTimer sleeps, or waits to send
  timer_rx          \* the queue of timer events

timers    == <<election_timer, heartbeat_timer>>
timerVars == <<timers, timer_rx>>
timedVars == <<vars, timerVars>>

TimerEvent == {"ElectionTimeout", "HeartbeatTimeout"}

----------------------------------------------------------------------------
(* process_actions on the timers                                           *)

ResetElectionTimer(i) ==
  /\ election_timer' = [election_timer EXCEPT ![i] = TRUE]
  /\ UNCHANGED heartbeat_timer

ResetHeartbeatTimer_Skipped(i) ==
  /\ election_timer' = [election_timer EXCEPT ![i] = FALSE]
  /\ UNCHANGED heartbeat_timer

\* The election timer is cancelled, the heartbeat timer starts anew.
ResetHeartbeatTimer(i) ==
  /\ election_timer'  = [election_timer EXCEPT ![i] = FALSE]
  /\ heartbeat_timer' = [heartbeat_timer EXCEPT ![i] = TRUE]

----------------------------------------------------------------------------
(* The tasks of the timers                                                 *)

\* The sleep of the task is over and its event enters the queue.  While the
\* queue is full the task waits, and can still be aborted.
Expire(i, event) ==
  /\ Len(timer_rx[i]) < TimerCapacity
  /\ timer_rx' = [timer_rx EXCEPT ![i] = Append(@, event)]
  /\ UNCHANGED vars

ElectionTimerExpires(i) ==
  /\ election_timer[i]
  /\ Expire(i, "ElectionTimeout")
  /\ election_timer' = [election_timer EXCEPT ![i] = FALSE]
  /\ UNCHANGED heartbeat_timer

HeartbeatTimerExpires(i) ==
  /\ heartbeat_timer[i]
  /\ Expire(i, "HeartbeatTimeout")
  /\ heartbeat_timer' = [heartbeat_timer EXCEPT ![i] = FALSE]
  /\ UNCHANGED election_timer

----------------------------------------------------------------------------
(* The turns of the node loop                                              *)

\* The loop takes the first event of the queue.
TakeTimerEvent(i, event) ==
  /\ timer_rx[i] # << >>
  /\ Head(timer_rx[i]) = event
  /\ timer_rx' = [timer_rx EXCEPT ![i] = Tail(@)]

Stand(i) ==
  /\ TakeTimerEvent(i, "ElectionTimeout")
  /\ ElectionTimeout(i)
  /\ IF Peers(i) = {} THEN ResetHeartbeatTimer(i) ELSE ResetElectionTimer(i)

Broadcast(i) ==
  /\ TakeTimerEvent(i, "HeartbeatTimeout")
  /\ HeartbeatTimeout(i)
  /\ ResetHeartbeatTimer(i)

\* An election timeout at a leader, or a heartbeat timeout elsewhere.
DiscardTimerEvent(i) ==
  /\ \/ TakeTimerEvent(i, "ElectionTimeout") /\ role[i] = "Leader"
     \/ TakeTimerEvent(i, "HeartbeatTimeout") /\ role[i] # "Leader"
  /\ IgnoreTimeout(i)
  /\ UNCHANGED timers

AcceptCommand(i) ==
  /\ \E command \in Command : ClientRequest(i, command)
  /\ ResetHeartbeatTimer(i)
  /\ UNCHANGED timer_rx

ReceiveAndWait_TimerKept(i, m) ==
  /\ GrantVote(i, m) \/ AcceptAppend(i, m)
  /\ UNCHANGED timerVars

\* The messages whose handlers restart the election timer ...
ReceiveAndWait(i, m) ==
  /\ GrantVote(i, m) \/ AcceptAppend(i, m)
  /\ ResetElectionTimer(i)
  /\ UNCHANGED timer_rx

\* ... the one that starts the heartbeats ...
ReceiveAndLead(i, m) ==
  /\ WinElection(i, m)
  /\ ResetHeartbeatTimer(i)
  /\ UNCHANGED timer_rx

\* ... and those that touch no timer.
ReceiveOther(i, m) ==
  /\ \/ RejectVote(i, m)
     \/ StepDownOnReply(i, m)
     \/ CountVote(i, m)
     \/ RejectStaleAppend(i, m)
     \/ RejectMismatch(i, m)
     \/ Backoff(i, m)
     \/ Advance(i, m)
  /\ UNCHANGED timerVars

\* A crash takes tasks and queue along; run begins with election_timer.reset.
RestartTimers(i) ==
  /\ Restart(i)
  /\ election_timer'  = [election_timer EXCEPT ![i] = TRUE]
  /\ heartbeat_timer' = [heartbeat_timer EXCEPT ![i] = FALSE]
  /\ timer_rx' = [timer_rx EXCEPT ![i] = << >>]

----------------------------------------------------------------------------
TimersInit ==
  /\ Init
  /\ election_timer  = [i \in Node |-> TRUE]
  /\ heartbeat_timer = [i \in Node |-> FALSE]
  /\ timer_rx = [i \in Node |-> << >>]

TimerTurn(i) ==
  Stand(i) \/ Broadcast(i) \/ DiscardTimerEvent(i)

MessageTurn(i, m) ==
  ReceiveAndWait(i, m) \/ ReceiveAndLead(i, m) \/ ReceiveOther(i, m)

TimersNext ==
  \E i \in Node :
    \/ ElectionTimerExpires(i)
    \/ HeartbeatTimerExpires(i)
    \/ TimerTurn(i)
    \/ \E m \in messages : MessageTurn(i, m)
    \/ AcceptCommand(i)
    \/ RestartTimers(i)

\* A turn on a message of the replication exchange.
Replicate(i) ==
  \E m \in messages :
    /\ m.type \in {"AppendEntries", "AppendEntriesResponse"}
    /\ MessageTurn(i, m)

\* A heartbeat task that is not aborted finishes, and the loop serves its
\* timer queue.  A leader's heartbeats repeat what is not acknowledged, and
\* followers answer each of them: as long as a message of this exchange would
\* change something at its receiver, one gets through.  Nothing is assumed of
\* elections, clients and crashes.
TimersFairness ==
  \A i \in Node :
    /\ WF_timedVars(HeartbeatTimerExpires(i) \/ TimerTurn(i))
    /\ WF_timedVars(Replicate(i))

TimersSpec == TimersInit /\ [][TimersNext]_timedVars /\ TimersFairness

----------------------------------------------------------------------------
(* Properties                                                              *)

\* A timeout of this kind is on its way to the node loop.
Queued(i, event) == \E k \in DOMAIN timer_rx[i] : timer_rx[i][k] = event
ElectionAhead(i)  == election_timer[i] \/ Queued(i, "ElectionTimeout")
HeartbeatAhead(i) == heartbeat_timer[i] \/ Queued(i, "HeartbeatTimeout")

(***************************************************************************)
(* A leader always has a heartbeat ahead of it and a candidate a new       *)
(* election, whatever was queued, aborted or discarded before              *)
(* (ResetHeartbeatTimer in become_leader's callers and in                  *)
(* handle_heartbeat_timeout, ResetElectionTimer in                         *)
(* handle_election_timeout).                                               *)
(***************************************************************************)
ActiveRolesKeepTimer ==
  \A i \in Node :
    /\ role[i] = "Leader" => HeartbeatAhead(i)
    /\ role[i] = "Candidate" => ElectionAhead(i)

(***************************************************************************)
(* In a cluster of two or more, however leaders are deposed, some node has *)
(* an election ahead of it: whoever granted the latest vote restarted its  *)
(* timer (handle_request_vote), and only winning a later vote stops it.    *)
(***************************************************************************)
SomeoneCanStand == \E i \in Node : ElectionAhead(i)

(***************************************************************************)
(* The comment in process_actions: "Cancel the election timer while we are *)
(* leader".  Whoever does not lead has an election ahead of it.            *)
(***************************************************************************)
OnlyLeadersRest == \A i \in Node : role[i] # "Leader" => ElectionAhead(i)
=============================================================================
