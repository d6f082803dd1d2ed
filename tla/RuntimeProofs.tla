---------------------------- MODULE RuntimeProofs ----------------------------
(***************************************************************************)
(* The node loop around the core: its timers (RaftTimers) and the clients  *)
(* it owes an answer (RaftClients).  Each of the two specifications is     *)
(* first shown to be Raft as far as Raft's variables go, so that the       *)
(* invariants of the core can be used.                                     *)
(***************************************************************************)
EXTENDS RaftTimers, RaftClients, RaftSafetyProofs

----------------------------------------------------------------------------
(* The queue of timer events                                               *)

Waits(q, event) == \E k \in DOMAIN q : q[k] = event

\* An event that enters the queue waits in it, with those that waited before.
LEMMA AppendWaits ==
  ASSUME NEW q \in Seq(TimerEvent), NEW new \in TimerEvent, NEW event
  PROVE  /\ Append(q, new) \in Seq(TimerEvent)
         /\ Waits(Append(q, new), new)
         /\ Waits(q, event) => Waits(Append(q, new), event)
<1>1. /\ Append(q, new) \in Seq(TimerEvent)
      /\ DOMAIN Append(q, new) = 1 .. Len(q) + 1
      /\ Append(q, new)[Len(q) + 1] = new
      /\ \A k \in 1 .. Len(q) : Append(q, new)[k] = q[k]
      /\ DOMAIN q = 1 .. Len(q) /\ Len(q) \in Nat
  OBVIOUS
<1>2. Waits(Append(q, new), new)
  BY <1>1 DEF Waits
<1>3. Waits(q, event) => Waits(Append(q, new), event)
  BY <1>1 DEF Waits
<1> QED BY <1>1, <1>2, <1>3

\* Taking the first event leaves the others waiting.
LEMMA TailWaits ==
  ASSUME NEW q \in Seq(TimerEvent), q # << >>, NEW event
  PROVE  /\ Tail(q) \in Seq(TimerEvent)
         /\ Waits(q, event) /\ Head(q) # event => Waits(Tail(q), event)
<1>1. /\ Tail(q) \in Seq(TimerEvent) /\ Len(q) \in Nat /\ Len(q) > 0
      /\ DOMAIN Tail(q) = 1 .. Len(q) - 1 /\ DOMAIN q = 1 .. Len(q)
      /\ \A k \in 1 .. Len(q) - 1 : Tail(q)[k] = q[k + 1]
      /\ Head(q) = q[1]
  OBVIOUS
<1>2. ASSUME NEW k \in DOMAIN q, q[k] = event, Head(q) # event
      PROVE  Waits(Tail(q), event)
  <2>1. k - 1 \in 1 .. Len(q) - 1 /\ (k - 1) + 1 = k
    BY <1>1, <1>2
  <2>2. Tail(q)[k - 1] = event
    BY <1>1, <1>2, <2>1
  <2> QED BY <1>1, <2>1, <2>2 DEF Waits
<1> QED BY <1>1, <1>2 DEF Waits

----------------------------------------------------------------------------
(* Timers and roles                                                        *)

TimersTypeOK ==
  /\ election_timer \in [Node -> BOOLEAN]
  /\ heartbeat_timer \in [Node -> BOOLEAN]
  /\ timer_rx \in [Node -> Seq(TimerEvent)]

\* What a step at i leaves of the other nodes' timers.
OthersKeepTimers(i) ==
  \A j \in Node \ {i} :
    /\ role'[j] = role[j]
    /\ election_timer'[j] = election_timer[j]
    /\ heartbeat_timer'[j] = heartbeat_timer[j]
    /\ timer_rx'[j] = timer_rx[j]

\* A step at i votes for nobody.
GivesNoVote ==
  \A m \in messages' \ messages :
    m.type = "RequestVoteResponse" => ~ m.vote_granted

\* What a step at i does to its role and its timers: an active role keeps its
\* timer, and only a leader, or who was without before and gives no vote, is
\* left without an election ahead.
TimerMove(i) ==
  /\ role'[i] = "Leader" => HeartbeatAhead(i)'
  /\ role'[i] = "Candidate" => ElectionAhead(i)'
  /\ \/ ElectionAhead(i)'
     \/ role'[i] = "Leader"
     \/ ~ ElectionAhead(i) /\ GivesNoVote

TimersMove(i) == TimersTypeOK' /\ OthersKeepTimers(i) /\ TimerMove(i)

\* A timer whose event enters the queue.
LEMMA ExpiryMoves ==
  ASSUME TypeOK, TimersTypeOK, ActiveRolesKeepTimer, NEW i \in Node,
         ElectionTimerExpires(i) \/ HeartbeatTimerExpires(i)
  PROVE  TimersMove(i)
<1>1. PICK event \in TimerEvent :
        /\ timer_rx' = [timer_rx EXCEPT ![i] = Append(@, event)]
        /\ \/ /\ event = "ElectionTimeout"
              /\ election_timer' = [election_timer EXCEPT ![i] = FALSE]
              /\ heartbeat_timer' = heartbeat_timer
           \/ /\ event = "HeartbeatTimeout"
              /\ heartbeat_timer' = [heartbeat_timer EXCEPT ![i] = FALSE]
              /\ election_timer' = election_timer
  BY DEF ElectionTimerExpires, HeartbeatTimerExpires, Expire, TimerEvent
<1>2. role' = role /\ messages' = messages
  BY DEF ElectionTimerExpires, HeartbeatTimerExpires, Expire, vars, nodeVars
<1>3. /\ timer_rx[i] \in Seq(TimerEvent)
      /\ timer_rx'[i] = Append(timer_rx[i], event)
      /\ timer_rx'[i] \in Seq(TimerEvent)
  BY <1>1, AppendWaits DEF TimersTypeOK
<1>4. TimersTypeOK' /\ OthersKeepTimers(i)
  BY <1>1, <1>2, <1>3 DEF TimersTypeOK, OthersKeepTimers
<1>5. /\ Waits(timer_rx'[i], event)
      /\ \A e : Waits(timer_rx[i], e) => Waits(timer_rx'[i], e)
  BY <1>3, AppendWaits
<1>6. ElectionAhead(i) => ElectionAhead(i)'
  BY <1>1, <1>5 DEF ElectionAhead, Queued, Waits
<1>7. HeartbeatAhead(i) => HeartbeatAhead(i)'
  BY <1>1, <1>5 DEF HeartbeatAhead, Queued, Waits
<1>8. GivesNoVote
  BY <1>2 DEF GivesNoVote
<1> QED BY <1>2, <1>4, <1>6, <1>7, <1>8
        DEF TimersMove, TimerMove, ActiveRolesKeepTimer

\* A turn that leaves the node leader with the heartbeat timer set.
LEMMA LeaderMoves ==
  ASSUME TypeOK, TimersTypeOK, NEW i \in Node, ResetHeartbeatTimer(i),
         role' = [role EXCEPT ![i] = "Leader"],
         \/ timer_rx' = timer_rx
         \/ \E event : TakeTimerEvent(i, event)
  PROVE  TimersMove(i)
<1>1. /\ timer_rx'[i] \in Seq(TimerEvent)
      /\ timer_rx' = [timer_rx EXCEPT ![i] = timer_rx'[i]]
  BY TailWaits DEF TakeTimerEvent, TimersTypeOK
<1>2. TimersTypeOK' /\ OthersKeepTimers(i)
  BY <1>1 DEF TimersTypeOK, OthersKeepTimers, ResetHeartbeatTimer, TypeOK
<1>3. role'[i] = "Leader" /\ heartbeat_timer'[i]
  BY DEF TypeOK, TimersTypeOK, ResetHeartbeatTimer
<1> QED BY <1>2, <1>3 DEF TimersMove, TimerMove, HeartbeatAhead

\* A turn that sets the election timer, at a node that does not become leader.
LEMMA WaiterMoves ==
  ASSUME TypeOK, TimersTypeOK, ActiveRolesKeepTimer, NEW i \in Node,
         ResetElectionTimer(i), NEW r \in Role, role' = [role EXCEPT ![i] = r],
         r = "Leader" => role[i] = "Leader",
         \/ timer_rx' = timer_rx
         \/ r # "Leader" /\ \E event : TakeTimerEvent(i, event)
  PROVE  TimersMove(i)
<1>1. /\ timer_rx'[i] \in Seq(TimerEvent)
      /\ timer_rx' = [timer_rx EXCEPT ![i] = timer_rx'[i]]
  BY TailWaits DEF TakeTimerEvent, TimersTypeOK
<1>2. TimersTypeOK' /\ OthersKeepTimers(i)
  BY <1>1 DEF TimersTypeOK, OthersKeepTimers, ResetElectionTimer, TypeOK
<1>3. role'[i] = r /\ election_timer'[i] /\ heartbeat_timer' = heartbeat_timer
  BY DEF TypeOK, TimersTypeOK, ResetElectionTimer
<1>4. r = "Leader" => HeartbeatAhead(i)'
  BY <1>3 DEF HeartbeatAhead, Queued, ActiveRolesKeepTimer
<1> QED BY <1>2, <1>3, <1>4 DEF TimersMove, TimerMove, ElectionAhead

\* A timeout that the handlers ignore.
LEMMA DiscardMoves ==
  ASSUME TypeOK, TimersTypeOK, ActiveRolesKeepTimer, NEW i \in Node,
         DiscardTimerEvent(i)
  PROVE  TimersMove(i)
<1>1. /\ role' = role /\ messages' = messages
      /\ election_timer' = election_timer /\ heartbeat_timer' = heartbeat_timer
  BY DEF DiscardTimerEvent, IgnoreTimeout, vars, nodeVars, timers
<1>2. PICK event \in TimerEvent :
        /\ timer_rx[i] # << >> /\ Head(timer_rx[i]) = event
        /\ timer_rx' = [timer_rx EXCEPT ![i] = Tail(@)]
        /\ \/ event = "ElectionTimeout" /\ role[i] = "Leader"
           \/ event = "HeartbeatTimeout" /\ role[i] # "Leader"
  BY DEF DiscardTimerEvent, TakeTimerEvent, TimerEvent
<1>3. /\ timer_rx[i] \in Seq(TimerEvent) /\ timer_rx'[i] = Tail(timer_rx[i])
      /\ timer_rx'[i] \in Seq(TimerEvent)
  BY <1>2, TailWaits DEF TimersTypeOK
<1>4. TimersTypeOK' /\ OthersKeepTimers(i)
  BY <1>1, <1>2, <1>3 DEF TimersTypeOK, OthersKeepTimers
<1>5. \A e : e # event /\ Waits(timer_rx[i], e) => Waits(timer_rx'[i], e)
  BY <1>2, <1>3, TailWaits
<1>6. event # "ElectionTimeout" /\ ElectionAhead(i) => ElectionAhead(i)'
  BY <1>1, <1>5 DEF ElectionAhead, Queued, Waits
<1>7. event # "HeartbeatTimeout" /\ HeartbeatAhead(i) => HeartbeatAhead(i)'
  BY <1>1, <1>5 DEF HeartbeatAhead, Queued, Waits
<1>8. GivesNoVote
  BY <1>1 DEF GivesNoVote
<1> QED BY <1>1, <1>2, <1>4, <1>6, <1>7, <1>8
        DEF TimersMove, TimerMove, ActiveRolesKeepTimer

\* A message that touches no timer leaves its receiver in its role, or as a
\* follower, and brings about no vote.
LEMMA OtherMoves ==
  ASSUME TypeOK, TimersTypeOK, ActiveRolesKeepTimer, NEW i \in Node,
         NEW m \in messages, ReceiveOther(i, m)
  PROVE  TimersMove(i)
<1>1. UNCHANGED <<election_timer, heartbeat_timer, timer_rx>>
  BY DEF ReceiveOther, timerVars, timers
<1>2. role' = role \/ role' = [role EXCEPT ![i] = "Follower"]
  BY DEF ReceiveOther, RejectVote, StepDownIfNewer, step_down, EnterTerm,
         StepDownOnReply, CountVote, RejectStaleAppend, RejectMismatch,
         FollowTerm, Backoff, Advance, nodeVars
<1>3. GivesNoVote
  BY DEF GivesNoVote, ReceiveOther, RejectVote, vote_response, StepDownOnReply,
         CountVote, RejectStaleAppend, RejectMismatch, append_entries_response,
         Backoff, Advance, Send
<1>4. TimersTypeOK' /\ OthersKeepTimers(i)
  BY <1>1, <1>2 DEF TimersTypeOK, OthersKeepTimers, TypeOK
<1>5. /\ ElectionAhead(i)' <=> ElectionAhead(i)
      /\ HeartbeatAhead(i)' <=> HeartbeatAhead(i)
  BY <1>1 DEF ElectionAhead, HeartbeatAhead, Queued
<1>6. role'[i] = role[i] \/ role'[i] = "Follower"
  BY <1>2 DEF TypeOK
<1> QED BY <1>3, <1>4, <1>5, <1>6 DEF TimersMove, TimerMove, ActiveRolesKeepTimer

\* A turn of node i, or of one of its timers' tasks.
TimersTurn(i) ==
  \/ ElectionTimerExpires(i)
  \/ HeartbeatTimerExpires(i)
  \/ TimerTurn(i)
  \/ \E m \in messages : MessageTurn(i, m)
  \/ AcceptCommand(i)
  \/ RestartTimers(i)

\* Every turn of a node moves its timers like this.
LEMMA TurnTimersMove ==
  ASSUME TypeOK, TimersTypeOK, ActiveRolesKeepTimer, NEW i \in Node,
         TimersTurn(i)
  PROVE  TimersMove(i)
<1>1. \/ ElectionTimerExpires(i) \/ HeartbeatTimerExpires(i)
      \/ TimerTurn(i)
      \/ \E m \in messages : MessageTurn(i, m)
      \/ AcceptCommand(i)
      \/ RestartTimers(i)
  BY DEF TimersTurn
<1>2. role[i] \in Role /\ role = [role EXCEPT ![i] = role[i]]
  BY DEF TypeOK
<1>3. CASE ElectionTimerExpires(i) \/ HeartbeatTimerExpires(i)
  BY <1>3, ExpiryMoves
<1>4. CASE Stand(i)
  <2>1. CASE Peers(i) = {}
    BY <1>4, <2>1, LeaderMoves
       DEF Stand, ElectionTimeout, LeadAlone, become_leader
  <2>2. CASE Peers(i) # {}
    BY <1>4, <2>2, WaiterMoves DEF Stand, ElectionTimeout, Campaign, Role
  <2> QED BY <2>1, <2>2
<1>5. CASE Broadcast(i)
  <2>1. role' = [role EXCEPT ![i] = "Leader"]
    BY <1>2, <1>5 DEF Broadcast, HeartbeatTimeout, nodeVars
  <2> QED BY <1>5, <2>1, LeaderMoves DEF Broadcast
<1>6. CASE DiscardTimerEvent(i)
  BY <1>6, DiscardMoves
<1>7. CASE AcceptCommand(i)
  <2>1. role' = [role EXCEPT ![i] = "Leader"]
    BY <1>2, <1>7 DEF AcceptCommand, ClientRequest
  <2> QED BY <1>7, <2>1, LeaderMoves DEF AcceptCommand
<1>8. ASSUME NEW m \in messages, MessageTurn(i, m) PROVE TimersMove(i)
  <2>1. CASE ReceiveAndWait(i, m)
    <3>1. PICK r \in Role : /\ role' = [role EXCEPT ![i] = r]
                            /\ r = "Leader" => role[i] = "Leader"
      BY <1>2, <2>1 DEF ReceiveAndWait, GrantVote, AcceptAppend, EnterTerm,
                        FollowTerm, Role
    <3> QED BY <2>1, <3>1, WaiterMoves DEF ReceiveAndWait
  <2>2. CASE ReceiveAndLead(i, m)
    BY <2>2, LeaderMoves DEF ReceiveAndLead, WinElection, become_leader
  <2>3. CASE ReceiveOther(i, m)
    BY <2>3, OtherMoves
  <2> QED BY <1>8, <2>1, <2>2, <2>3 DEF MessageTurn
<1>9. CASE RestartTimers(i)
  <2>1. /\ role' = [role EXCEPT ![i] = "Follower"]
        /\ election_timer' = [election_timer EXCEPT ![i] = TRUE]
        /\ heartbeat_timer' = [heartbeat_timer EXCEPT ![i] = FALSE]
        /\ timer_rx' = [timer_rx EXCEPT ![i] = << >>]
    BY <1>9 DEF RestartTimers, Restart
  <2>2. << >> \in Seq(TimerEvent)
    OBVIOUS
  <2>3. TimersTypeOK' /\ OthersKeepTimers(i)
    BY <2>1, <2>2 DEF TimersTypeOK, OthersKeepTimers, TypeOK
  <2>4. role'[i] = "Follower" /\ election_timer'[i]
    BY <2>1 DEF TimersTypeOK, TypeOK
  <2> QED BY <2>3, <2>4 DEF TimersMove, TimerMove, ElectionAhead
<1> QED BY <1>1, <1>3, <1>4, <1>5, <1>6, <1>7, <1>8, <1>9 DEF TimerTurn

\* With timers, a node does what Raft says, or nothing.
LEMMA TurnIsStep ==
  ASSUME NEW i \in Node, TimersTurn(i)
  PROVE  Step(i) \/ UNCHANGED vars
<1>2. CASE ElectionTimerExpires(i) \/ HeartbeatTimerExpires(i)
  BY <1>2 DEF ElectionTimerExpires, HeartbeatTimerExpires, Expire
<1>3. CASE TimerTurn(i)
  BY <1>3 DEF TimerTurn, Stand, Broadcast, DiscardTimerEvent, Step
<1>4. ASSUME NEW m \in messages, MessageTurn(i, m) PROVE Step(i)
  <2>1. HandleMessage(i, m)
    BY <1>4 DEF MessageTurn, ReceiveAndWait, ReceiveAndLead, ReceiveOther,
                HandleMessage
  <2> QED BY <2>1 DEF Step
<1>5. CASE AcceptCommand(i)
  BY <1>5 DEF AcceptCommand, Step
<1>6. CASE RestartTimers(i)
  BY <1>6 DEF RestartTimers, Step
<1> QED BY <1>2, <1>3, <1>4, <1>5, <1>6 DEF TimersTurn

\* A step of TimersNext is a turn of some node.
LEMMA NextIsTurn ==
  ASSUME TimersNext
  PROVE  \E i \in Node : TimersTurn(i)
BY DEF TimersNext, TimersTurn

\* TimersSpec implements Spec.
LEMMA TimersImplementRaft == TimersSpec => Spec
<1>1. TimersInit => Init
  BY DEF TimersInit
<1>2. [TimersNext]_timedVars => [Next]_vars
  BY NextIsTurn, TurnIsStep DEF timedVars, Next
<1> QED BY <1>1, <1>2, PTL DEF TimersSpec, Spec

RolesInv == TimersTypeOK /\ ActiveRolesKeepTimer

\* Roles and timers stay together.
LEMMA NextRolesInv ==
  TypeOK /\ RolesInv /\ [TimersNext]_timedVars => RolesInv'
<1> SUFFICES ASSUME TypeOK, RolesInv, [TimersNext]_timedVars PROVE RolesInv'
  OBVIOUS
<1>1. TimersTypeOK /\ ActiveRolesKeepTimer
  BY DEF RolesInv
<1>2. CASE UNCHANGED timedVars
  BY <1>1, <1>2
     DEF timedVars, timerVars, timers, vars, nodeVars, RolesInv, TimersTypeOK,
         ActiveRolesKeepTimer, HeartbeatAhead, ElectionAhead, Queued
<1>3. CASE TimersNext
  <2>1. PICK i \in Node : TimersMove(i)
    BY <1>1, <1>3, NextIsTurn, TurnTimersMove
  <2>2. \A j \in Node \ {i} :
          /\ HeartbeatAhead(j)' <=> HeartbeatAhead(j)
          /\ ElectionAhead(j)' <=> ElectionAhead(j)
    BY <2>1 DEF TimersMove, OthersKeepTimers, HeartbeatAhead, ElectionAhead,
                Queued
  <2>3. ActiveRolesKeepTimer'
    BY <1>1, <2>1, <2>2
       DEF TimersMove, TimerMove, OthersKeepTimers, ActiveRolesKeepTimer
  <2> QED BY <2>1, <2>3 DEF TimersMove, RolesInv
<1> QED BY <1>2, <1>3

\* The invariant of roles and timers.
LEMMA RolesInvariant == TimersSpec => []RolesInv
<1>1. TimersInit => RolesInv
  <2> SUFFICES ASSUME TimersInit PROVE RolesInv
    OBVIOUS
  <2>1. << >> \in Seq(TimerEvent)
    OBVIOUS
  <2>2. TimersTypeOK
    BY <2>1 DEF TimersInit, TimersTypeOK
  <2>3. ActiveRolesKeepTimer
    BY DEF TimersInit, Init, ActiveRolesKeepTimer
  <2> QED BY <2>2, <2>3 DEF RolesInv
<1>2. TypeOK /\ RolesInv /\ [TimersNext]_timedVars => RolesInv'
  BY NextRolesInv
<1> QED BY <1>1, <1>2, TimersImplementRaft, TypeSafety, PTL DEF TimersSpec

(***************************************************************************)
(* A leader always has a heartbeat ahead of it and a candidate an          *)
(* election, for every cluster, every size of the timer queue and every    *)
(* outcome of saves.                                                       *)
(***************************************************************************)
THEOREM RolesKeepTimers == TimersSpec => []ActiveRolesKeepTimer
<1>1. RolesInv => ActiveRolesKeepTimer
  BY DEF RolesInv
<1> QED BY <1>1, RolesInvariant, PTL

----------------------------------------------------------------------------
(* Someone can always stand                                                *)

\* Who stands or leads voted for itself.
ActiveVotedSelf ==
  \A i \in Node : role[i] # "Follower" => voted_for[i] = i

\* Who neither leads nor has an election ahead of it has won one, later than
\* any vote it gave to another.
RestedAfterWin ==
  \A v \in Node : ~ ElectionAhead(v) /\ role[v] # "Leader" =>
    /\ \E u \in Nat : Elected(v, u)
    /\ \A c \in Node \ {v} : \A m \in CastBy(v, c) :
         \E u \in Nat : u > m.term /\ Elected(v, u)

\* There was a last election.
ElectionsBounded ==
  \E b \in Nat : \A v, c \in Node : \A m \in CastBy(v, c) : m.term <= b

WatchInv == ActiveVotedSelf /\ RestedAfterWin /\ ElectionsBounded

\* A node that enters a term as candidate votes for itself, and the vote
\* stays as long as the role does.
LEMMA NextActiveVotedSelf ==
  ASSUME TypeOK, TypeOK', ElectionInv, ElectionInv', ActiveVotedSelf,
         NEW i \in Node, VoteStep(i) \/ RestartStep(i)
  PROVE  ActiveVotedSelf'
<1> SUFFICES ASSUME NEW j \in Node, role'[j] # "Follower"
             PROVE  voted_for'[j] = j
  BY DEF ActiveVotedSelf
<1>1. CASE j # i
  BY <1>1 DEF VoteStep, RestartStep, OthersKeep, ActiveVotedSelf
<1>2. CASE j = i
  <2>1. VoteStep(i) /\ (role'[i] = "Candidate" \/ role'[i] = "Leader")
    BY <1>2 DEF RestartStep, TypeOK, Role
  <2>2. CASE role[i] # "Follower" /\ current_term'[i] = current_term[i]
    <3>1. voted_for[i] = i /\ i # None
      BY <2>2, NodeAssumption DEF ActiveVotedSelf
    <3> QED BY <1>2, <2>1, <2>2, <3>1 DEF VoteStep, TermAndVote, TypeOK
  <2>3. CASE \E m \in messages' : /\ m.type = "RequestVote" /\ m.from = i
                                  /\ m.term = current_term'[i]
    <3>1. PICK m \in CastBy(i, i)' : m.term = current_term'[i]
      BY <2>3 DEF CastBy
    <3>2. /\ disk'[i].current_term <= current_term'[i]
          /\ disk'[i].current_term = current_term'[i]
               => disk'[i].voted_for = voted_for'[i]
          /\ disk'[i].current_term \in Nat /\ current_term'[i] \in Nat
      BY DEF ElectionInv, StorageBehind, TypeOK, PersistentState
    <3>3. \/ disk'[i].current_term > m.term
          \/ disk'[i].current_term = m.term /\ disk'[i].voted_for = i
      BY <3>1 DEF ElectionInv, CastsStored
    <3> QED BY <1>2, <3>1, <3>2, <3>3
  <2> QED BY <2>1, <2>2, <2>3 DEF VoteStep, Candidacy, Leadership
<1> QED BY <1>1, <1>2

\* A turn casts votes in one term.
LEMMA NextElectionsBounded ==
  ASSUME TypeOK, TypeOK', ElectionsBounded, NEW i \in Node, Sends(i)
  PROVE  ElectionsBounded'
<1>1. PICK b \in Nat : \A v, c \in Node : \A m \in CastBy(v, c) : m.term <= b
  BY DEF ElectionsBounded
<1>2. current_term'[i] \in Nat
  BY DEF TypeOK
<1>3. PICK d \in Nat : b <= d /\ current_term'[i] <= d
  <2>1. CASE b <= current_term'[i]
    BY <1>2, <2>1
  <2>2. CASE current_term'[i] <= b
    BY <1>2, <2>2
  <2> QED BY <1>2, <2>1, <2>2
<1>4. ASSUME NEW v \in Node, NEW c \in Node, NEW m \in CastBy(v, c)'
      PROVE  m.term <= d
  <2>1. CASE m \in CastBy(v, c)
    <3>1. m.term <= b /\ m.term \in Nat
      BY <1>1, <2>1, MessageKinds DEF CastBy, TypeOK
    <3> QED BY <1>3, <3>1
  <2>2. CASE m \notin CastBy(v, c)
    <3>1. m.term = current_term'[i]
      BY <1>4, <2>2, NewCasts
    <3> QED BY <1>3, <3>1
  <2> QED BY <2>1, <2>2
<1> QED BY <1>4 DEF ElectionsBounded

\* A leader has won later than it voted for another.
LEMMA LeaderRests ==
  ASSUME TypeOK, ElectionInv, ActiveVotedSelf, NEW v \in Node,
         role[v] = "Leader"
  PROVE  /\ Elected(v, current_term[v]) /\ current_term[v] \in Nat
         /\ \A c \in Node \ {v} : \A m \in CastBy(v, c) :
              current_term[v] > m.term
<1>1. /\ Elected(v, current_term[v]) /\ current_term[v] \in Nat
      /\ voted_for[v] = v
  BY DEF ElectionInv, LeadersElected, ActiveVotedSelf, TypeOK
<1>2. ASSUME NEW c \in Node \ {v}, NEW m \in CastBy(v, c)
      PROVE  current_term[v] > m.term
  <2>1. m.term \in Nat
    BY MessageKinds DEF CastBy, TypeOK
  <2>2. /\ disk[v].current_term <= current_term[v]
        /\ disk[v].current_term = current_term[v]
             => disk[v].voted_for = voted_for[v]
        /\ disk[v].current_term \in Nat
    BY DEF ElectionInv, StorageBehind, TypeOK, PersistentState
  <2>3. \/ disk[v].current_term > m.term
        \/ disk[v].current_term = m.term /\ disk[v].voted_for = c
    BY DEF ElectionInv, CastsStored
  <2> QED BY <1>1, <2>1, <2>2, <2>3
<1> QED BY <1>1, <1>2

\* Who voted for another has an election ahead of it, unless it was elected
\* later.
LEMMA NextRestedAfterWin ==
  ASSUME TypeOK, TypeOK', ElectionInv, WatchInv, NEW i \in Node,
         UNCHANGED vars \/ VoteStep(i) \/ RestartStep(i), TimersMove(i)
  PROVE  RestedAfterWin'
<1> SUFFICES ASSUME NEW v \in Node, ~ ElectionAhead(v)', role'[v] # "Leader"
             PROVE  /\ \E u \in Nat : Elected(v, u)'
                    /\ \A c \in Node \ {v} : \A m \in CastBy(v, c)' :
                         \E u \in Nat : u > m.term /\ Elected(v, u)'
  BY DEF RestedAfterWin
<1>1. /\ ~ ElectionAhead(v)
      /\ v = i => GivesNoVote
  BY DEF TimersMove, TimerMove, OthersKeepTimers, ElectionAhead, Queued
<1>2. /\ \E u \in Nat : Elected(v, u)
      /\ \A c \in Node \ {v} : \A m \in CastBy(v, c) :
           \E u \in Nat : u > m.term /\ Elected(v, u)
  <2>1. CASE role[v] = "Leader"
    BY <2>1, LeaderRests DEF WatchInv
  <2>2. CASE role[v] # "Leader"
    BY <1>1, <2>2 DEF WatchInv, RestedAfterWin
  <2> QED BY <2>1, <2>2
<1>3. CASE VoteStep(i)
  <2>1. Sends(i)
    BY <1>3 DEF VoteStep
  <2>2. \A u : Elected(v, u) => Elected(v, u)'
    BY <2>1, ElectedStays
  <2>3. ASSUME NEW c \in Node \ {v} PROVE CastBy(v, c)' \subseteq CastBy(v, c)
    <3> SUFFICES ASSUME NEW m \in CastBy(v, c)', m \notin CastBy(v, c)
                 PROVE  FALSE
      OBVIOUS
    <3>1. v = i
      BY <2>1, NewCasts
    <3>2. /\ m \in messages' \ messages
          /\ m.type = "RequestVoteResponse" /\ m.vote_granted
      BY DEF CastBy
    <3> QED BY <1>1, <3>1, <3>2 DEF GivesNoVote
  <2> QED BY <1>2, <2>2, <2>3
<1>4. CASE UNCHANGED messages
  BY <1>2, <1>4 DEF Elected, Cast, CastBy
<1> QED BY <1>3, <1>4 DEF RestartStep, vars

\* WatchInv survives.
LEMMA NextWatchInv ==
  ASSUME SavesSucceed, \A i \in Node : Peers(i) # {}
  PROVE  TypeOK /\ TypeOK' /\ ElectionInv /\ ElectionInv' /\ RolesInv
           /\ WatchInv /\ [TimersNext]_timedVars => WatchInv'
<1> SUFFICES ASSUME TypeOK, TypeOK', ElectionInv, ElectionInv', RolesInv,
                    WatchInv, [TimersNext]_timedVars
             PROVE  WatchInv'
  OBVIOUS
<1>1. CASE UNCHANGED timedVars
  <2>1. /\ UNCHANGED <<role, voted_for, messages>>
        /\ UNCHANGED <<election_timer, timer_rx>>
    BY <1>1 DEF timedVars, timerVars, timers, vars, nodeVars, persistentVars
  <2>2. \A v, c : CastBy(v, c)' = CastBy(v, c)
    BY <2>1 DEF CastBy
  <2>3. \A v, u : Elected(v, u)' <=> Elected(v, u)
    BY <2>2 DEF Elected, Cast
  <2>4. \A v : ElectionAhead(v)' <=> ElectionAhead(v)
    BY <2>1 DEF ElectionAhead, Queued
  <2>5. ActiveVotedSelf' /\ ElectionsBounded'
    BY <2>1, <2>2 DEF WatchInv, ActiveVotedSelf, ElectionsBounded
  <2>6. RestedAfterWin'
    BY <2>1, <2>2, <2>3, <2>4 DEF WatchInv, RestedAfterWin
  <2> QED BY <2>5, <2>6 DEF WatchInv
<1>2. CASE TimersNext
  <2>1. PICK i \in Node : TimersTurn(i)
    BY <1>2, NextIsTurn
  <2>2. TimersMove(i)
    BY <2>1, TurnTimersMove DEF RolesInv
  <2>3. UNCHANGED vars \/ VoteStep(i) \/ RestartStep(i)
    BY <2>1, TurnIsStep, StepIsVoteStep
  <2>4. RestedAfterWin'
    BY <2>2, <2>3, NextRestedAfterWin
  <2>5. ActiveVotedSelf'
    <3>1. CASE UNCHANGED vars
      BY <3>1 DEF vars, nodeVars, persistentVars, WatchInv, ActiveVotedSelf
    <3> QED BY <2>3, <3>1, NextActiveVotedSelf DEF WatchInv
  <2>6. ElectionsBounded'
    <3>1. CASE messages' = messages
      BY <3>1 DEF WatchInv, ElectionsBounded, CastBy
    <3>2. CASE Sends(i)
      BY <3>2, NextElectionsBounded DEF WatchInv
    <3> QED BY <2>3, <3>1, <3>2 DEF VoteStep, RestartStep, vars
  <2> QED BY <2>4, <2>5, <2>6 DEF WatchInv
<1> QED BY <1>1, <1>2

\* An election in a cluster is won with the vote of another.
LEMMA ElectedByAnother ==
  ASSUME NEW c \in Node, Peers(c) # {}, NEW u, Elected(c, u)
  PROVE  \E v \in Node \ {c} : Cast(v, c, u)
<1>1. PICK Q \in SUBSET Node :
        Cardinality(Q) >= Quorum(c) /\ \A v \in Q : Cast(v, c, u)
  BY DEF Elected
<1>2. IsFiniteSet(Peers(c)) /\ IsFiniteSet(Q)
  BY NodeAssumption, FS_Subset DEF Peers
<1>3. Cardinality(Peers(c)) \in Nat /\ Cardinality(Peers(c)) # 0
  BY <1>2, FS_CardinalityType, FS_EmptySet
<1>4. \A n \in Nat \ {0} : quorum(n) >= 2 /\ quorum(n) \in Nat
  BY DEF quorum
<1>5. Cardinality(Q) >= 2
  <2>1. Cardinality(Q) \in Nat
    BY <1>2, FS_CardinalityType
  <2> QED BY <1>1, <1>3, <1>4, <2>1 DEF Quorum
<1>6. ~ (Q \subseteq {c})
  <2>1. IsFiniteSet({c}) /\ Cardinality({c}) = 1
    BY FS_Singleton
  <2>2. Q \subseteq {c} => Cardinality(Q) <= 1
    BY <2>1, FS_Subset
  <2>3. Cardinality(Q) \in Nat
    BY <1>2, FS_CardinalityType
  <2> QED BY <1>5, <2>2, <2>3
<1> QED BY <1>1, <1>6

\* If nobody had an election ahead, the last one would have had a voter that
\* was elected still later.
LEMMA WatchInvSafe ==
  ASSUME \A i \in Node : Peers(i) # {}, TypeOK, ElectionInv, WatchInv
  PROVE  SomeoneCanStand
<1> SUFFICES ASSUME \A v \in Node : ~ ElectionAhead(v) PROVE FALSE
  BY DEF SomeoneCanStand
<1>1. \A v \in Node :
        /\ \E u \in Nat : Elected(v, u)
        /\ \A c \in Node \ {v} : \A m \in CastBy(v, c) :
             \E u \in Nat : u > m.term /\ Elected(v, u)
  <2> SUFFICES ASSUME NEW v \in Node
               PROVE  /\ \E u \in Nat : Elected(v, u)
                      /\ \A c \in Node \ {v} : \A m \in CastBy(v, c) :
                           \E u \in Nat : u > m.term /\ Elected(v, u)
    OBVIOUS
  <2>1. CASE role[v] = "Leader"
    BY <2>1, LeaderRests DEF WatchInv
  <2>2. CASE role[v] # "Leader"
    BY <2>2 DEF WatchInv, RestedAfterWin
  <2> QED BY <2>1, <2>2
<1>2. PICK b \in Nat : \A v, c \in Node : \A m \in CastBy(v, c) : m.term <= b
  BY DEF WatchInv, ElectionsBounded
<1>3. ASSUME NEW c \in Node, NEW u \in Nat, Elected(c, u)
      PROVE  u <= b /\ \E v \in Node, w \in Nat : w > u /\ Elected(v, w)
  <2>1. PICK v \in Node \ {c} : Cast(v, c, u)
    BY <1>3, ElectedByAnother
  <2>2. PICK m \in CastBy(v, c) : m.term = u
    BY <2>1 DEF Cast
  <2> QED BY <1>1, <1>2, <2>2
<1> DEFINE T == {t \in 1 .. b + 1 : \E c \in Node : Elected(c, t - 1)}
<1>4. ASSUME NEW c \in Node, NEW u \in Nat, Elected(c, u) PROVE u + 1 \in T
  BY <1>3, <1>4
<1>5. T # {}
  BY <1>1, <1>4, NodeAssumption
<1>6. PICK x \in T : \A y \in T : y <= x
  <2>1. T \subseteq 1 .. b + 1 /\ b + 1 \in Nat
    OBVIOUS
  <2> HIDE DEF T
  <2> QED BY <1>5, <2>1, GreatestElement
<1>7. PICK c \in Node : Elected(c, x - 1)
  OBVIOUS
<1>8. PICK v \in Node, w \in Nat : w > x - 1 /\ Elected(v, w)
  BY <1>3, <1>7
<1> QED BY <1>4, <1>6, <1>8

(***************************************************************************)
(* With saves that succeed, a cluster of any size of two or more always    *)
(* has a node with an election ahead of it: leaders that were deposed      *)
(* without their timer being set again cannot leave it without one.        *)
(***************************************************************************)
THEOREM ElectionsGoOn ==
  ASSUME SavesSucceed, \A i \in Node : Peers(i) # {}
  PROVE  TimersSpec => []SomeoneCanStand
<1>1. TimersInit => WatchInv
  <2> SUFFICES ASSUME TimersInit PROVE WatchInv
    OBVIOUS
  <2>1. ActiveVotedSelf
    BY DEF TimersInit, Init, ActiveVotedSelf
  <2>2. RestedAfterWin
    BY DEF TimersInit, RestedAfterWin, ElectionAhead
  <2>3. ElectionsBounded
    <3>1. \A v, c \in Node : CastBy(v, c) = {}
      BY DEF TimersInit, Init, CastBy
    <3> QED BY <3>1 DEF ElectionsBounded
  <2> QED BY <2>1, <2>2, <2>3 DEF WatchInv
<1>2. TypeOK /\ TypeOK' /\ ElectionInv /\ ElectionInv' /\ RolesInv
        /\ WatchInv /\ [TimersNext]_timedVars => WatchInv'
  BY NextWatchInv
<1>3. TypeOK /\ ElectionInv /\ WatchInv => SomeoneCanStand
  BY WatchInvSafe
<1> QED BY <1>1, <1>2, <1>3, TimersImplementRaft, RolesInvariant, TypeSafety,
           ElectionInvariant, PTL DEF TimersSpec

----------------------------------------------------------------------------
(* The table of waiting clients                                            *)

ClientsTypeOK ==
  /\ pending \in [Node -> SUBSET LogEntry]
  /\ answers \subseteq Answer

\* The clients that wait at i or were answered by it.
Seen(i) ==
  {e \in LogEntry :
     e \in pending[i] \/ \E a \in answers : a.node = i /\ a.entry = e}

ClientsTurn(i) ==
  AcceptClient(i) \/ Redirect(i) \/ ReceiveMessage(i) \/ Timeout(i)
    \/ RestartNode(i)

\* What a turn of i does to its clients: `fresh' enter, `done' are answered,
\* `kept' wait on.
ClientMove(i, fresh, done, kept, result) ==
  /\ \/ fresh = {}
     \/ /\ \E command \in Command : ClientRequest(i, command)
        /\ fresh = {log'[i][Len(log'[i])]}
  /\ done \cap kept = {}
  /\ done \cup kept \subseteq pending[i] \cup fresh
  /\ pending' = [pending EXCEPT ![i] = kept]
  /\ answers' = answers \cup AnswersTo(i, done, result)
  /\ result = "Applied" =>
       \A e \in done : /\ e.index = last_applied'[i]
                       /\ Len(applied'[i]) > Len(applied[i])

ClientsMove(i) ==
  \E fresh, done, kept \in SUBSET LogEntry :
    \E result \in {"Applied", "NotLeader"} :
      ClientMove(i, fresh, done, kept, result)

\* The entry of a request is new, and the last of the leader's log.
LEMMA AcceptedEntry ==
  ASSUME TypeInv, NEW i \in Node, NEW command \in Command,
         ClientRequest(i, command), NEW e, e = log'[i][Len(log'[i])]
  PROVE  /\ role[i] = "Leader" /\ role' = role /\ current_term' = current_term
         /\ e \in LogEntry
         /\ e.term = current_term[i] /\ e.index = Len(log[i]) + 1
         /\ log'[i] = Append(log[i], e)
         /\ Len(log'[i]) = Len(log[i]) + 1 /\ Len(log[i]) \in Nat
         /\ HasEntry(log'[i], e)
<1> DEFINE entry == [term |-> current_term[i],
                     index |-> last_log_index(log[i]) + 1,
                     command |-> command]
<1>1. TypeOK /\ log[i] \in Seq(LogEntry) /\ Contiguous(log[i], 0)
  BY DEF TypeInv, TypeOK, LogContiguous
<1>2. last_log_index(log[i]) = Len(log[i]) /\ Len(log[i]) \in Nat
  BY <1>1, LastEntry DEF LogEntry
<1>3. /\ entry \in LogEntry
      /\ entry.term = current_term[i] /\ entry.index = Len(log[i]) + 1
  BY <1>1, <1>2 DEF LogEntry, LogEntryOf, TypeOK
<1>4. log' = [log EXCEPT ![i] = Append(@, entry)] /\ role[i] = "Leader"
      /\ role' = role /\ current_term' = current_term
  BY DEF ClientRequest
<1> HIDE DEF entry
<1>5. log'[i] = Append(log[i], entry)
  BY <1>1, <1>4 DEF TypeOK
<1>6. /\ Len(log'[i]) = Len(log[i]) + 1 /\ log'[i][Len(log[i]) + 1] = entry
      /\ DOMAIN log'[i] = 1 .. Len(log[i]) + 1
  BY <1>1, <1>3, <1>5
<1>7. e = entry
  BY <1>6
<1> QED BY <1>2, <1>3, <1>4, <1>5, <1>6, <1>7 DEF HasEntry

\* Every turn moves the clients of its node like this.
LEMMA TurnMovesClients ==
  ASSUME TypeInv, ClientsTypeOK, NEW i \in Node, ClientsTurn(i)
  PROVE  ClientsMove(i)
<1>1. /\ pending[i] \in SUBSET LogEntry
      /\ \A result : AnswersTo(i, {}, result) = {}
      /\ pending = [pending EXCEPT ![i] = pending[i]]
  BY DEF ClientsTypeOK, AnswersTo
<1>2. ASSUME NEW fresh \in SUBSET LogEntry, NEW table,
             Resolve(i, table), table \subseteq pending[i] \cup fresh,
             \/ fresh = {}
             \/ /\ \E command \in Command : ClientRequest(i, command)
                /\ fresh = {log'[i][Len(log'[i])]}
      PROVE  ClientsMove(i)
  <2> DEFINE done == {e \in table : e.index \in ResolvedIndices(i)}
             kept == table \ done
  <2>1. /\ done \in SUBSET LogEntry /\ kept \in SUBSET LogEntry
        /\ done \cap kept = {} /\ done \cup kept \subseteq pending[i] \cup fresh
    BY <1>1, <1>2
  <2>2. /\ pending' = [pending EXCEPT ![i] = kept]
        /\ answers' = answers \cup AnswersTo(i, done, "Applied")
    BY <1>2 DEF Resolve
  <2>3. \A e \in done : /\ e.index = last_applied'[i]
                        /\ Len(applied'[i]) > Len(applied[i])
    BY DEF ResolvedIndices
  <2> HIDE DEF done, kept
  <2>4. ClientMove(i, fresh, done, kept, "Applied")
    BY <1>2, <2>1, <2>2, <2>3 DEF ClientMove
  <2> QED BY <2>1, <2>4 DEF ClientsMove
<1>3. CASE AcceptClient(i)
  <2>1. PICK command \in Command : ClientRequest(i, command)
    BY <1>3 DEF AcceptClient
  <2> DEFINE e == log'[i][Len(log'[i])]
  <2>2. e \in LogEntry
    BY <2>1, AcceptedEntry
  <2>3. Resolve(i, Park(pending[i], e))
    BY <1>3 DEF AcceptClient
  <2>4. Park(pending[i], e) \subseteq pending[i] \cup {e}
    BY DEF Park
  <2> QED BY <1>2, <2>1, <2>2, <2>3, <2>4
<1>4. CASE Redirect(i)
  <2>1. ClientMove(i, {}, pending[i], {}, "NotLeader")
    BY <1>4 DEF Redirect, ClientMove
  <2> QED BY <1>1, <2>1 DEF ClientsMove
<1>5. CASE ReceiveMessage(i)
  BY <1>2, <1>5 DEF ReceiveMessage
<1>6. CASE Timeout(i)
  <2>1. ClientMove(i, {}, {}, pending[i], "NotLeader")
    BY <1>1, <1>6 DEF Timeout, clientVars, ClientMove
  <2> QED BY <1>1, <2>1 DEF ClientsMove
<1>7. CASE RestartNode(i)
  <2>1. ClientMove(i, {}, {}, {}, "NotLeader")
    BY <1>1, <1>7 DEF RestartNode, ClientMove
  <2> QED BY <2>1 DEF ClientsMove
<1> QED BY <1>3, <1>4, <1>5, <1>6, <1>7 DEF ClientsTurn

\* With clients, a node does what Raft says, or nothing.
LEMMA ClientsTurnIsStep ==
  ASSUME NEW i \in Node, ClientsTurn(i)
  PROVE  Step(i) \/ UNCHANGED vars
BY DEF ClientsTurn, AcceptClient, Redirect, ReceiveMessage, Timeout,
       RestartNode, Step

\* ClientsSpec implements Spec.
LEMMA ClientsImplementRaft == ClientsSpec => Spec
<1>1. ClientsInit => Init
  BY DEF ClientsInit
<1>2. [ClientsNext]_servedVars => [Next]_vars
  BY ClientsTurnIsStep DEF ClientsNext, ClientsTurn, servedVars, Next
<1> QED BY <1>1, <1>2, PTL DEF ClientsSpec, Spec

\* The types of table and answers.
LEMMA MoveKeepsClientTypes ==
  ASSUME TypeOK', ClientsTypeOK, NEW i \in Node, ClientsMove(i)
  PROVE  ClientsTypeOK'
<1>1. PICK fresh, done, kept \in SUBSET LogEntry,
           result \in {"Applied", "NotLeader"} :
        ClientMove(i, fresh, done, kept, result)
  BY DEF ClientsMove
<1>2. pending' \in [Node -> SUBSET LogEntry]
  BY <1>1 DEF ClientMove, ClientsTypeOK
<1>3. AnswersTo(i, done, result) \subseteq Answer
  BY <1>1 DEF AnswersTo, Answer, TypeOK
<1> QED BY <1>1, <1>2, <1>3 DEF ClientMove, ClientsTypeOK

----------------------------------------------------------------------------
(* Who waits in the term of its entry, waits at its leader.                *)

\* Clients of a node are from terms it has stored; it led in their term and
\* has not stood in it since, and as long as it leads in it their entries
\* are in its log.
ClientTerms ==
  \A i \in Node : \A e \in Seen(i) :
    /\ e.term <= disk[i].current_term
    /\ role[i] = "Candidate" => e.term < current_term[i]
    /\ role[i] = "Leader" /\ e.term = current_term[i] => e.index <= Len(log[i])

ClientInv == ClientsTypeOK /\ ClientTerms /\ WaitingLed

\* Who is seen after a turn was seen before, or enters with it.
LEMMA SeenAfter ==
  ASSUME ClientsTypeOK, NEW i \in Node, NEW fresh \in SUBSET LogEntry,
         NEW done \in SUBSET LogEntry, NEW kept \in SUBSET LogEntry,
         NEW result, ClientMove(i, fresh, done, kept, result), NEW j \in Node
  PROVE  /\ j # i => Seen(j)' = Seen(j)
         /\ Seen(i)' \subseteq Seen(i) \cup fresh
         /\ pending[i] \subseteq Seen(i)
<1>1. /\ pending'[i] = kept /\ (j # i => pending'[j] = pending[j])
      /\ done \cup kept \subseteq pending[i] \cup fresh
      /\ answers' = answers \cup AnswersTo(i, done, result)
      /\ pending[i] \subseteq LogEntry
  BY DEF ClientMove, ClientsTypeOK
<1>2. \A a \in AnswersTo(i, done, result) : a.node = i /\ a.entry \in done
  BY DEF AnswersTo
<1>3. ASSUME j # i, NEW e \in LogEntry
      PROVE  e \in Seen(j)' <=> e \in Seen(j)
  BY <1>1, <1>2, <1>3 DEF Seen
<1>4. ASSUME NEW e \in Seen(i)' PROVE e \in Seen(i) \cup fresh
  BY <1>1, <1>2 DEF Seen
<1>5. pending[i] \subseteq Seen(i)
  BY <1>1 DEF Seen
<1>6. j # i => Seen(j)' = Seen(j)
  BY <1>3 DEF Seen
<1> QED BY <1>4, <1>5, <1>6

\* A leader that stays in its term stays leader, unless it crashes.
LEMMA LeaderStays ==
  ASSUME TypeOK, NEW i \in Node, ClientsTurn(i), role[i] = "Leader",
         current_term'[i] = current_term[i]
  PROVE  role'[i] = "Leader" \/ RestartNode(i)
<1>2. CASE UNCHANGED role
  BY <1>2
<1>3. CASE Timeout(i)
  <2>1. ~ ElectionTimeout(i)
    BY DEF ElectionTimeout, LeadAlone, Campaign, BecomeCandidate
  <2> QED BY <1>2, <1>3, <2>1
          DEF Timeout, HeartbeatTimeout, IgnoreTimeout, vars, nodeVars
<1>4. ASSUME NEW m \in messages, HandleMessage(i, m)
      PROVE  role'[i] = "Leader"
  <2>1. \A term : EnterTerm(i, term) => current_term'[i] = term
    BY DEF EnterTerm, TypeOK
  <2>2. m.term \in Nat /\ current_term[i] \in Nat
    BY MessageKinds DEF TypeOK
  <2>3. CASE RejectVote(i, m) \/ GrantVote(i, m)
    BY <1>2, <2>1, <2>2, <2>3
       DEF RejectVote, StepDownIfNewer, step_down, GrantVote
  <2>4. CASE StepDownOnReply(i, m)
    BY <2>1, <2>2, <2>4 DEF StepDownOnReply, step_down
  <2>5. CASE CountVote(i, m) \/ WinElection(i, m)
    BY <2>5 DEF CountVote, WinElection, CountsVote
  <2>6. CASE RejectMismatch(i, m) \/ AcceptAppend(i, m)
    BY <1>2, <2>1, <2>2, <2>6 DEF RejectMismatch, AcceptAppend, FollowTerm
  <2>7. CASE RejectStaleAppend(i, m) \/ Backoff(i, m) \/ Advance(i, m)
    BY <1>2, <2>7 DEF RejectStaleAppend, Backoff, Advance, nodeVars
  <2> QED BY <1>4, <2>3, <2>4, <2>5, <2>6, <2>7 DEF HandleMessage
<1>5. CASE AcceptClient(i) \/ Redirect(i)
  BY <1>2, <1>5 DEF AcceptClient, ClientRequest, Redirect, vars, nodeVars
<1> QED BY <1>3, <1>4, <1>5 DEF ClientsTurn, ReceiveMessage

\* What a turn in a cluster of two nodes or more is to Raft.
NodeTurn(i) ==
  \/ UNCHANGED vars
  \/ CommitStep(i)
  \/ LogRestart(i) /\ CommitRestart /\ restarts' # restarts

\* Only a crash counts as one.
LEMMA OnlyCrashCounts ==
  ASSUME NEW i \in Node, ClientsTurn(i)
  PROVE  restarts' = restarts \/ RestartNode(i)
<1>2. CASE Timeout(i)
  BY <1>2 DEF Timeout, ElectionTimeout, LeadAlone, Campaign, BecomeCandidate,
              HeartbeatTimeout, IgnoreTimeout, vars
<1>3. ASSUME NEW m \in messages, HandleMessage(i, m) PROVE restarts' = restarts
  BY <1>3 DEF HandleMessage, RejectVote, GrantVote, StepDownOnReply, CountVote,
              WinElection, RejectStaleAppend, RejectMismatch, AcceptAppend,
              Backoff, Advance
<1>4. CASE AcceptClient(i) \/ Redirect(i)
  BY <1>4 DEF AcceptClient, ClientRequest, Redirect, vars
<1> QED BY <1>2, <1>3, <1>4 DEF ClientsTurn, ReceiveMessage

\* A leader that stays leader keeps the entries of its log.
LEMMA LeaderKeepsLog ==
  ASSUME TypeInv, TypeInv', ElectionInv, LedgerExists, NEW i \in Node,
         NodeTurn(i), role[i] = "Leader", role'[i] = "Leader"
  PROVE  /\ Len(log[i]) \in Nat /\ Len(log'[i]) \in Nat
         /\ Len(log[i]) <= Len(log'[i])
         /\ \A e : HasEntry(log[i], e) => HasEntry(log'[i], e)
<1>1. /\ TypeOK /\ log[i] \in Seq(LogEntry) /\ log'[i] \in Seq(LogEntry)
      /\ Len(log[i]) \in Nat /\ Len(log'[i]) \in Nat
  <2>1. TypeOK /\ TypeOK'
    BY DEF TypeInv
  <2>2. log[i] \in Seq(LogEntry) /\ log'[i] \in Seq(LogEntry)
    BY <2>1 DEF TypeOK
  <2> QED BY <2>1, <2>2
<1>2. log'[i] = log[i] \/ ExtendsLog(i)
  <2>1. CASE UNCHANGED vars
    BY <2>1 DEF vars, nodeVars, persistentVars
  <2>2. CASE CommitStep(i)
    <3>1. LogStep(i)
      BY <2>2 DEF CommitStep
    <3>2. PICK L \in Ledger : LedgerInv(L)
      BY DEF LedgerExists
    <3> QED BY <1>1, <3>1, <3>2, LeaderTurn DEF KeepsLog
  <2> QED BY <2>1, <2>2 DEF NodeTurn, LogRestart, RestartStep
<1>3. CASE log'[i] = log[i]
  BY <1>1, <1>3
<1>4. CASE ExtendsLog(i)
  <2>1. PICK entry \in LogEntry : log'[i] = Append(log[i], entry)
    BY <1>4 DEF ExtendsLog
  <2>2. /\ Len(log'[i]) = Len(log[i]) + 1
        /\ DOMAIN log[i] = 1 .. Len(log[i])
        /\ DOMAIN log'[i] = 1 .. Len(log[i]) + 1
        /\ \A k \in 1 .. Len(log[i]) : log'[i][k] = log[i][k]
    BY <1>1, <2>1
  <2> QED BY <1>1, <2>2 DEF HasEntry
<1> QED BY <1>2, <1>3, <1>4

\* What a turn does to the node of a client it has seen.
LEMMA SeenStays ==
  ASSUME TypeInv, TypeInv', ElectionInv, ElectionInv', LedgerExists,
         NEW i \in Node, NodeTurn(i), NEW e \in LogEntry,
         e.term <= disk[i].current_term,
         role[i] = "Candidate" => e.term < current_term[i],
         role[i] = "Leader" /\ e.term = current_term[i] => e.index <= Len(log[i])
  PROVE  /\ e.term <= disk'[i].current_term
         /\ role'[i] = "Candidate" => e.term < current_term'[i]
         /\ role'[i] = "Leader" /\ e.term = current_term'[i]
              => e.index <= Len(log'[i])
<1>1. /\ TypeOK /\ TypeOK' /\ StorageBehind
      /\ e.term \in Nat /\ e.index \in Nat
      /\ current_term[i] \in Nat /\ current_term'[i] \in Nat
      /\ disk[i].current_term \in Nat /\ disk'[i].current_term \in Nat
      /\ disk[i].current_term <= current_term[i]
  BY DEF TypeInv, TypeOK, PersistentState, LogEntry, LogEntryOf, ElectionInv,
         StorageBehind
<1>2. CASE UNCHANGED vars
  BY <1>2 DEF vars, nodeVars, persistentVars
<1>3. CASE LogRestart(i)
  BY <1>3 DEF LogRestart, RestartStep
<1>4. CASE LogStep(i)
  <2>1. disk[i].current_term <= disk'[i].current_term
    BY <1>1, <1>4, StoredTermGrows DEF LogStep
  <2>2. role'[i] = "Candidate" => e.term < current_term'[i]
    BY <1>1, <1>4 DEF LogStep, Standing
  <2>3. ASSUME role'[i] = "Leader", e.term = current_term'[i]
        PROVE  e.index <= Len(log'[i])
    <3>1. PICK L \in Ledger : LedgerInv(L)
      BY DEF LedgerExists
    <3>2. role[i] = "Leader" /\ current_term'[i] = current_term[i]
      BY <1>1, <1>4, <2>3, <3>1, LeaderTurn
    <3>3. e.index <= Len(log[i])
      BY <2>3, <3>2
    <3>4. /\ Len(log[i]) \in Nat /\ Len(log'[i]) \in Nat
          /\ Len(log[i]) <= Len(log'[i])
      BY <2>3, <3>2, LeaderKeepsLog
    <3> QED BY <1>1, <3>3, <3>4
  <2> QED BY <1>1, <2>1, <2>2, <2>3
<1> QED BY <1>2, <1>3, <1>4 DEF NodeTurn, CommitStep

\* A turn leaves the other nodes their terms, logs and roles.
LEMMA OthersKeepLogs ==
  ASSUME NEW i \in Node, NodeTurn(i), NEW j \in Node \ {i}
  PROVE  /\ role'[j] = role[j] /\ current_term'[j] = current_term[j]
         /\ log'[j] = log[j] /\ disk'[j] = disk[j]
<1>1. CASE UNCHANGED vars
  BY <1>1 DEF vars, nodeVars, persistentVars
<1>2. CASE LogStep(i) \/ LogRestart(i)
  BY <1>2 DEF LogStep, LogRestart, VoteStep, RestartStep, OthersKeep
<1> QED BY <1>1, <1>2 DEF NodeTurn, CommitStep

\* The terms of clients stay behind those of their node.
LEMMA TurnKeepsClientTerms ==
  ASSUME SavesSucceed, TypeInv, TypeInv', ElectionInv, ElectionInv',
         LedgerExists, ClientInv, NEW i \in Node, NodeTurn(i), ClientsMove(i)
  PROVE  ClientTerms'
<1>1. PICK fresh, done, kept \in SUBSET LogEntry,
           result \in {"Applied", "NotLeader"} :
        ClientMove(i, fresh, done, kept, result)
  BY DEF ClientsMove
<1> DEFINE Behind(j, e) ==
             /\ e.term <= disk[j].current_term
             /\ role[j] = "Candidate" => e.term < current_term[j]
             /\ role[j] = "Leader" /\ e.term = current_term[j]
                  => e.index <= Len(log[j])
<1>2. ASSUME NEW j \in Node, NEW e \in Seen(j)' PROVE Behind(j, e)'
  <2>1. ClientsTypeOK /\ ClientTerms
    BY DEF ClientInv
  <2>2. CASE j # i
    <3>1. e \in Seen(j)
      BY <1>1, <1>2, <2>1, <2>2, SeenAfter
    <3> QED BY <2>1, <2>2, <3>1, OthersKeepLogs DEF ClientTerms
  <2>3. CASE j = i /\ e \in fresh
    <3>1. PICK command \in Command : ClientRequest(i, command)
      BY <1>1, <2>3 DEF ClientMove
    <3>2. e = log'[i][Len(log'[i])]
      BY <1>1, <2>3 DEF ClientMove
    <3>3. /\ role'[i] = "Leader" /\ e.term = current_term'[i]
          /\ e.index = Len(log'[i])
      BY <3>1, <3>2, AcceptedEntry
    <3>4. disk'[i].current_term = current_term'[i]
      BY <3>1, PersistSavesAll DEF TypeInv, ClientRequest, AllSaved, Saved
    <3>5. current_term'[i] \in Nat /\ Len(log'[i]) \in Nat
      BY DEF TypeInv, TypeOK
    <3> QED BY <2>3, <3>3, <3>4, <3>5
  <2>4. CASE j = i /\ e \in Seen(i)
    <3>1. e \in LogEntry
      BY <2>4 DEF Seen
    <3>2. Behind(i, e)
      BY <2>1, <2>4 DEF ClientTerms
    <3> QED BY <2>4, <3>1, <3>2, SeenStays
  <2> QED BY <1>1, <1>2, <2>1, <2>2, <2>3, <2>4, SeenAfter
<1> QED BY <1>2 DEF ClientTerms

\* Who waits on in its own term, waits at its leader.
LEMMA TurnKeepsWaiting ==
  ASSUME TypeInv, TypeInv', ElectionInv, ElectionInv', LedgerExists,
         ClientInv, NEW i \in Node, NodeTurn(i), ClientsMove(i), ClientsTurn(i)
  PROVE  WaitingLed'
<1> SUFFICES ASSUME NEW j \in Node, NEW e \in pending'[j],
                    e.term = current_term'[j]
             PROVE  role'[j] = "Leader" /\ HasEntry(log'[j], e)
  BY DEF WaitingLed, HasEntry
<1>1. PICK fresh, done, kept \in SUBSET LogEntry,
           result \in {"Applied", "NotLeader"} :
        ClientMove(i, fresh, done, kept, result)
  BY DEF ClientsMove
<1>2. /\ kept \subseteq pending[i] \cup fresh /\ pending'[i] = kept
      /\ j # i => pending'[j] = pending[j]
      /\ ClientsTypeOK /\ ClientTerms /\ WaitingLed /\ TypeOK
  BY <1>1 DEF ClientMove, ClientInv, ClientsTypeOK, TypeInv
<1>3. CASE j # i
  BY <1>2, <1>3, OthersKeepLogs DEF WaitingLed
<1>4. CASE j = i /\ e \in fresh
  <2>1. PICK command \in Command : ClientRequest(i, command)
    BY <1>1, <1>4 DEF ClientMove
  <2>2. e = log'[i][Len(log'[i])]
    BY <1>1, <1>4 DEF ClientMove
  <2> QED BY <1>4, <2>1, <2>2, AcceptedEntry
<1>5. CASE j = i /\ e \in pending[i]
  <2>1. e \in Seen(i) /\ e \in LogEntry
    BY <1>1, <1>2, <1>5, SeenAfter DEF ClientsTypeOK
  <2>2. ~ RestartNode(i)
    BY <1>2, <1>5 DEF RestartNode, ClientsTypeOK
  <2>3. current_term'[i] = current_term[i]
    <3>1. /\ e.term <= disk[i].current_term
          /\ disk[i].current_term <= current_term[i]
          /\ e.term \in Nat /\ disk[i].current_term \in Nat
          /\ current_term[i] \in Nat /\ current_term'[i] \in Nat
      BY <1>2, <2>1 DEF ClientTerms, ElectionInv, StorageBehind, TypeInv,
                        TypeOK, PersistentState, LogEntry, LogEntryOf
    <3>2. CASE LogStep(i)
      BY <1>5, <3>1, <3>2 DEF LogStep, VoteStep, TermAndVote
    <3>3. CASE UNCHANGED vars
      BY <3>3 DEF vars, nodeVars, persistentVars
    <3> QED BY <2>2, <3>2, <3>3, OnlyCrashCounts DEF NodeTurn, CommitStep
  <2>4. role[i] = "Leader" /\ HasEntry(log[i], e)
    BY <1>2, <1>5, <2>3 DEF WaitingLed
  <2>5. role'[i] = "Leader"
    BY <1>2, <2>2, <2>3, <2>4, LeaderStays
  <2> QED BY <1>5, <2>4, <2>5, LeaderKeepsLog
<1> QED BY <1>2, <1>3, <1>4, <1>5

\* The inductive step, for a ledger.
LEMMA NextClientInv ==
  ASSUME SavesSucceed, \A i \in Node : Peers(i) # {}, TypeInv, TypeInv',
         ElectionInv, ElectionInv', LedgerExists, ClientInv,
         NEW i \in Node, ClientsTurn(i)
  PROVE  ClientsMove(i) /\ NodeTurn(i) /\ ClientInv'
<1>1. ClientsTypeOK /\ ClientTerms /\ TypeOK /\ TypeOK'
  BY DEF ClientInv, TypeInv
<1>2. ClientsMove(i)
  BY <1>1, TurnMovesClients
<1>3. NodeTurn(i)
  <2>1. PICK L \in Ledger : LedgerInv(L)
    BY DEF LedgerExists
  <2>2. \A j \in Node : disk[j].log = log[j]
    BY <2>1 DEF LedgerInv, LogsOnLedger
  <2>3. \/ UNCHANGED vars
        \/ CommitStep(i)
        \/ Restart(i) /\ LogRestart(i) /\ CommitRestart
    BY <2>2, ClientsTurnIsStep, StepIsCommitStep
  <2>4. Restart(i) => restarts' # restarts
    BY <1>1 DEF Restart, TypeOK
  <2> QED BY <2>3, <2>4 DEF NodeTurn
<1>4. ClientsTypeOK'
  BY <1>1, <1>2, MoveKeepsClientTypes
<1>5. ClientTerms'
  BY <1>2, <1>3, TurnKeepsClientTerms
<1>6. WaitingLed'
  BY <1>2, <1>3, TurnKeepsWaiting
<1> QED BY <1>2, <1>3, <1>4, <1>5, <1>6 DEF ClientInv

\* A step is a turn of some node; a stuttering one is like a timeout that is
\* ignored.
LEMMA NextIsClientsTurn ==
  ASSUME [ClientsNext]_servedVars
  PROVE  \E i \in Node : ClientsTurn(i)
<1>1. CASE ClientsNext
  BY <1>1 DEF ClientsNext, ClientsTurn
<1>2. CASE UNCHANGED servedVars
  BY <1>2, NodeAssumption DEF servedVars, ClientsTurn, Timeout, IgnoreTimeout
<1> QED BY <1>1, <1>2

\* The invariant of the table, with peers.
LEMMA ClientInvariant ==
  ASSUME SavesSucceed, \A i \in Node : Peers(i) # {}
  PROVE  ClientsSpec => []ClientInv
<1>1. ClientsInit => ClientInv
  <2> SUFFICES ASSUME ClientsInit PROVE ClientInv
    OBVIOUS
  <2>1. \A i \in Node : pending[i] = {} /\ Seen(i) = {}
    BY DEF ClientsInit, Seen
  <2>2. ClientsTypeOK
    BY DEF ClientsInit, ClientsTypeOK
  <2> QED BY <2>1, <2>2 DEF ClientInv, ClientTerms, WaitingLed
<1>2. TypeInv /\ TypeInv' /\ ElectionInv /\ ElectionInv' /\ LedgerExists
        /\ ClientInv /\ [ClientsNext]_servedVars => ClientInv'
  BY NextIsClientsTurn, NextClientInv
<1> QED BY <1>1, <1>2, ClientsImplementRaft, TypeCorrect, ElectionInvariant,
           LedgerInvariant, PTL DEF ClientsSpec

----------------------------------------------------------------------------
(* What clients were told to be applied is.                                *)

\* Whom a leader told Applied in the term of the entry, has it on the ledger
\* and chosen.
AnswersChosen(L) ==
  \A a \in Applieds : a.term = a.entry.term =>
    \E u \in Nat : \E k \in DOMAIN L[u] :
      /\ a.entry.index \in 1 .. k
      /\ Chosen(L, k, u) /\ L[u][a.entry.index] = a.entry

\* A ledger that is safe for clients, too.
ServedLedger ==
  \E L \in Ledger :
    LedgerInv(L) /\ (stale_ack \/ (CommitInv(L) /\ AnswersChosen(L)))

\* An entry that is chosen stays where it is.
LEMMA ChosenEntryStays ==
  ASSUME NEW L \in Ledger, NEW M \in Ledger, Continues(L, M), NEW u \in Nat,
         NEW k \in DOMAIN L[u], NEW n \in 1 .. k, Chosen(L, k, u)
  PROVE  k \in DOMAIN M[u] /\ Chosen(M, k, u)' /\ M[u][n] = L[u][n]
<1>1. /\ L[u] \in Seq(LogEntry) /\ M[u] \in Seq(LogEntry)
      /\ Agree(L[u], M[u], Len(L[u]))
  BY DEF Ledger, Continues, Grows
<1>2. k \in 1 .. Len(L[u]) /\ Len(L[u]) \in Nat
  BY <1>1
<1>3. k \in 1 .. Len(M[u]) /\ n \in 1 .. Len(L[u])
  BY <1>1, <1>2 DEF Agree
<1>4. k \in DOMAIN M[u] /\ M[u][n] = L[u][n]
  BY <1>1, <1>3 DEF Agree
<1>5. Chosen(M, k, u)'
  BY DEF Continues
<1> QED BY <1>4, <1>5

\* Whoever is told Applied in the term of its entry, is told so by the leader
\* that created the entry, on committing it.
LEMMA NewAnswerChosen ==
  ASSUME TypeInv, TypeInv', ElectionInv, ElectionInv', LedgerExists, ClientInv,
         \A j \in Node : Peers(j) # {}, NEW i \in Node, NodeTurn(i),
         ClientsTurn(i), NEW M \in Ledger, CommitInv(M)',
         NEW fresh \in SUBSET LogEntry, NEW done \in SUBSET LogEntry,
         NEW kept \in SUBSET LogEntry,
         ClientMove(i, fresh, done, kept, "Applied"), NEW e \in done,
         e.term = current_term'[i]
  PROVE  \E u \in Nat : \E k \in DOMAIN M[u] :
           e.index \in 1 .. k /\ Chosen(M, k, u)' /\ M[u][e.index] = e
<1>1. /\ TypeOK /\ TypeOK' /\ ClientsTypeOK /\ ClientTerms /\ WaitingLed
      /\ e.index = last_applied'[i] /\ Len(applied'[i]) > Len(applied[i])
  BY DEF TypeInv, ClientInv, ClientMove
<1>2. e \in pending[i]
  <2>1. CASE e \in fresh
    <3>1. PICK command \in Command : ClientRequest(i, command)
      BY <2>1 DEF ClientMove
    <3>2. applied' = applied
      BY <3>1 DEF ClientRequest, volatileVars
    <3> QED BY <1>1, <3>2 DEF TypeOK
  <2> QED BY <2>1 DEF ClientMove
<1>3. /\ applied[i] \in Seq(Command) /\ applied'[i] \in Seq(Command)
      /\ applied'[i] # applied[i] /\ applied'[i] # << >>
  <2>1. applied[i] \in Seq(Command) /\ applied'[i] \in Seq(Command)
    BY <1>1 DEF TypeOK
  <2> QED BY <1>1, <2>1
<1>4. CommitStep(i)
  BY <1>3 DEF NodeTurn, CommitRestart, VolatileKept, vars, nodeVars, volatileVars
<1>5. ~ RestartNode(i)
  BY <1>1, <1>3 DEF RestartNode, Restart, TypeOK
<1>6. current_term'[i] = current_term[i]
  <2>1. e \in Seen(i) /\ e \in LogEntry
    BY <1>1, <1>2, SeenAfter
  <2>2. /\ e.term <= disk[i].current_term
        /\ disk[i].current_term <= current_term[i]
        /\ e.term \in Nat /\ disk[i].current_term \in Nat
        /\ current_term[i] \in Nat /\ current_term'[i] \in Nat
    BY <1>1, <2>1 DEF ClientTerms, ElectionInv, StorageBehind, TypeOK,
                      PersistentState, LogEntry, LogEntryOf
  <2> QED BY <1>4, <2>2 DEF CommitStep, LogStep, VoteStep, TermAndVote
<1>7. HasEntry(log'[i], e)
  <2>1. role[i] = "Leader" /\ HasEntry(log[i], e)
    BY <1>1, <1>2, <1>6 DEF WaitingLed
  <2>2. role'[i] = "Leader"
    BY <1>1, <1>5, <1>6, <2>1, LeaderStays
  <2> QED BY <2>1, <2>2, LeaderKeepsLog
<1>8. /\ CommittedBy(M, log[i], commit_index[i], current_term[i])'
      /\ commit_index'[i] = e.index
  BY <1>1 DEF CommitInv, CommitsChosen, AppliedFromLog
<1>9. e.index \in 1 .. Len(log'[i]) /\ log'[i][e.index] = e
  BY <1>1, <1>7, SMTT(20) DEF HasEntry, TypeOK
<1>10. PICK u \in DOMAIN M : \E k \in DOMAIN M[u] :
         e.index <= k /\ Chosen(M, k, u)' /\ Agree(log'[i], M[u], e.index)
  BY <1>8, <1>9 DEF CommittedBy
<1>11. PICK k \in DOMAIN M[u] :
         e.index <= k /\ Chosen(M, k, u)' /\ Agree(log'[i], M[u], e.index)
  BY <1>10
<1>12. u \in Nat /\ M[u] \in Seq(LogEntry)
  BY <1>10 DEF Ledger
<1>13. e.index \in 1 .. k /\ M[u][e.index] = e
  BY <1>9, <1>11, <1>12 DEF Agree
<1> QED BY <1>11, <1>12, <1>13

\* A turn takes a ledger that is safe for clients to another.
LEMMA TurnKeepsServed ==
  ASSUME SavesSucceed, \A j \in Node : Peers(j) # {}, TypeInv, TypeInv',
         ElectionInv, ElectionInv', LedgerExists, ClientInv, ServedLedger,
         NEW i \in Node, ClientsTurn(i)
  PROVE  ServedLedger'
<1>1. PICK L \in Ledger :
        LedgerInv(L) /\ (stale_ack \/ (CommitInv(L) /\ AnswersChosen(L)))
  BY DEF ServedLedger
<1>2. ClientsMove(i) /\ NodeTurn(i)
  BY NextClientInv
<1>3. stale_ack => stale_ack'
  BY <1>2 DEF NodeTurn, CommitStep, CommitRestart, vars
<1>4. PICK M \in Ledger :
        /\ LedgerInv(M)'
        /\ \/ stale_ack'
           \/ CommitInv(L) /\ CommitInv(M)' /\ Continues(L, M)
  BY <1>1, <1>2, StepContinues DEF NodeTurn
<1>5. CASE stale_ack'
  BY <1>4, <1>5 DEF ServedLedger
<1>6. CASE ~ stale_ack'
  <2>1. /\ CommitInv(L) /\ AnswersChosen(L)
        /\ CommitInv(M)' /\ Continues(L, M)
    BY <1>1, <1>3, <1>4, <1>6
  <2>2. PICK fresh, done, kept \in SUBSET LogEntry,
             result \in {"Applied", "NotLeader"} :
          ClientMove(i, fresh, done, kept, result)
    BY <1>2 DEF ClientsMove
  <2>3. ASSUME NEW a \in Applieds', a.term = a.entry.term
        PROVE  \E u \in Nat : \E k \in DOMAIN M[u] :
                 /\ a.entry.index \in 1 .. k
                 /\ Chosen(M, k, u)' /\ M[u][a.entry.index] = a.entry
    <3>1. CASE a \in Applieds
      <4>1. PICK u \in Nat : \E k \in DOMAIN L[u] :
              /\ a.entry.index \in 1 .. k
              /\ Chosen(L, k, u) /\ L[u][a.entry.index] = a.entry
        BY <2>1, <2>3, <3>1 DEF AnswersChosen
      <4>2. PICK k \in DOMAIN L[u] :
              /\ a.entry.index \in 1 .. k
              /\ Chosen(L, k, u) /\ L[u][a.entry.index] = a.entry
        BY <4>1
      <4>3. /\ k \in DOMAIN M[u] /\ Chosen(M, k, u)'
            /\ M[u][a.entry.index] = L[u][a.entry.index]
        BY <2>1, <4>2, ChosenEntryStays
      <4> QED BY <4>2, <4>3
    <3>2. CASE a \notin Applieds
      <4>1. a \in AnswersTo(i, done, result) /\ a.result = "Applied"
        BY <2>2, <3>2 DEF ClientMove, Applieds
      <4>2. /\ result = "Applied" /\ a.entry \in done
            /\ a.term = current_term'[i]
        BY <4>1 DEF AnswersTo
      <4>3. a.entry.term = current_term'[i]
        BY <2>3, <4>2
      <4> QED BY <1>2, <2>1, <2>2, <4>2, <4>3, NewAnswerChosen
    <3> QED BY <3>1, <3>2
  <2>4. AnswersChosen(M)'
    BY <2>3 DEF AnswersChosen
  <2> QED BY <1>4, <2>1, <2>4 DEF ServedLedger
<1> QED BY <1>5, <1>6

\* What is chosen is in the storage of a quorum.
LEMMA ServedLedgerStored ==
  ASSUME TypeInv, ClientsTypeOK, ServedLedger
  PROVE  AppliedIsDurable
<1> SUFFICES ASSUME ~ stale_ack, NEW a \in Applieds, a.term = a.entry.term
             PROVE  Cardinality({j \in Node : HasEntry(disk[j].log, a.entry)})
                      >= Quorum(a.node)
  BY DEF AppliedIsDurable
<1>1. PICK L \in Ledger : LedgerInv(L) /\ CommitInv(L) /\ AnswersChosen(L)
  BY DEF ServedLedger
<1>2. /\ a.node \in Node /\ DOMAIN L = Nat
      /\ \A v \in Node : /\ log[v] \in Seq(LogEntry) /\ disk[v].log = log[v]
                         /\ OnLedger(L, log[v])
  BY <1>1 DEF ClientsTypeOK, Answer, Applieds, TypeInv, TypeOK, Ledger,
              LedgerInv, LogsOnLedger
<1>3. PICK u \in Nat : \E k \in DOMAIN L[u] :
        /\ a.entry.index \in 1 .. k
        /\ Chosen(L, k, u) /\ L[u][a.entry.index] = a.entry
  BY <1>1 DEF AnswersChosen
<1>4. PICK k \in DOMAIN L[u] :
        /\ a.entry.index \in 1 .. k
        /\ Chosen(L, k, u) /\ L[u][a.entry.index] = a.entry
  BY <1>3
<1>5. PICK Q \in SUBSET Node :
        /\ \E j \in Node : Cardinality(Q) >= Quorum(j)
        /\ \A v \in Q : Holder(L, v, k, u)
  BY <1>4 DEF Chosen
<1>6. ASSUME NEW v \in Q PROVE HasEntry(disk[v].log, a.entry)
  <2>1. Has(log[v], k, u)
    BY <1>1, <1>2, <1>4, <1>5, ChosenNotBlocked DEF CommitInv, HoldersHold
  <2>2. Agree(log[v], L[u], k) /\ k \in 1 .. Len(log[v])
    BY <1>2, <2>1, HasAgrees DEF Has
  <2>3. a.entry.index \in DOMAIN log[v] /\ log[v][a.entry.index] = a.entry
    BY <1>2, <1>4, <2>2 DEF Agree
  <2> QED BY <1>2, <2>3 DEF HasEntry
<1> DEFINE S == {j \in Node : HasEntry(disk[j].log, a.entry)}
<1>7. Q \in SUBSET S /\ S \in SUBSET Node
  BY <1>6
<1> HIDE DEF S
<1>8. IsFiniteSet(S) /\ Cardinality(S) \in Nat
  BY <1>7, NodeAssumption, FS_Subset, FS_CardinalityType
<1>9. Cardinality(Q) <= Cardinality(S) /\ Cardinality(Q) \in Nat
  BY <1>7, <1>8, FS_Subset, FS_CardinalityType
<1>10. Cardinality(Q) >= Quorum(a.node) /\ Quorum(a.node) \in Nat
  BY <1>2, <1>5, QuorumSize
<1>11. Cardinality(S) >= Quorum(a.node)
  BY <1>8, <1>9, <1>10
<1> QED BY <1>11 DEF S

\* In every state of a cluster with peers there is a ledger safe for clients.
LEMMA ServedInvariant ==
  ASSUME SavesSucceed, \A i \in Node : Peers(i) # {}
  PROVE  ClientsSpec => []ServedLedger
<1>1. ClientsInit => ServedLedger
  <2> SUFFICES ASSUME ClientsInit PROVE ServedLedger
    OBVIOUS
  <2>1. PICK L \in Ledger : LedgerInv(L) /\ (stale_ack \/ CommitInv(L))
    BY InitSafeLedger DEF ClientsInit, SafeLedger
  <2>2. AnswersChosen(L)
    BY DEF ClientsInit, AnswersChosen, Applieds
  <2> QED BY <2>1, <2>2 DEF ServedLedger
<1>2. TypeInv /\ TypeInv' /\ ElectionInv /\ ElectionInv' /\ LedgerExists
        /\ ClientInv /\ ServedLedger /\ [ClientsNext]_servedVars
        => ServedLedger'
  BY NextIsClientsTurn, TurnKeepsServed, SMTT(20)
<1> QED BY <1>1, <1>2, ClientsImplementRaft, TypeCorrect, ElectionInvariant,
           LedgerInvariant, ClientInvariant, PTL DEF ClientsSpec

----------------------------------------------------------------------------
(* A node without peers                                                    *)

\* It exchanges no messages, and every client is answered in the turn that
\* accepts it, with an entry that is stored for good.
AloneInv ==
  /\ messages = {}
  /\ ClientsTypeOK
  /\ AppliedFromLog
  /\ \A i \in Node : pending[i] = {} /\ disk[i].log = log[i]
  /\ \A a \in answers : /\ a.result = "Applied" /\ a.term = a.entry.term
                        /\ HasEntry(log[a.node], a.entry)

\* Without peers, the leader alone is a quorum: it commits its last entry.
LEMMA AloneCommits ==
  ASSUME NEW l \in Seq(LogEntry), Contiguous(l, 0), l # << >>,
         NEW term, l[Len(l)].term = term, NEW commit \in Nat, commit < Len(l),
         NEW match
  PROVE  LeaderCommit(l, term, commit, match, {}) = Len(l)
<1> DEFINE ks == Committable(l, term, commit, match, {})
           c == CHOOSE k \in ks : \A j \in ks : j <= k
<1>1. /\ Len(l) \in 1 .. Len(l) /\ DOMAIN l = 1 .. Len(l) /\ Len(l) \in Nat
      /\ l[Len(l)].index = Len(l)
  <2>1. Len(l) \in Nat /\ Len(l) > 0 /\ DOMAIN l = 1 .. Len(l)
    OBVIOUS
  <2> QED BY <2>1 DEF Contiguous
<1>2. \A n : Replicated(match, {}, n) >= quorum(Cardinality({}))
  <2>1. Cardinality({}) = 0
    BY FS_EmptySet
  <2>2. \A n : {p \in {} : match[p] >= n} = {}
    OBVIOUS
  <2>3. \A n : Replicated(match, {}, n) = 1
    BY <2>1, <2>2 DEF Replicated
  <2>4. quorum(0) = 1
    BY DEF quorum
  <2> QED BY <2>1, <2>3, <2>4
<1>3. Len(l) \in ks /\ \A j \in ks : j \in 1 .. Len(l)
  BY <1>1, <1>2 DEF Committable
<1>4. c \in ks /\ \A j \in ks : j <= c
  <2> HIDE DEF ks
  <2>1. \A j \in ks : j <= Len(l)
    BY <1>1, <1>3
  <2> QED BY <1>3, <2>1
<1>5. c = Len(l)
  <2> HIDE DEF ks, c
  <2>1. c \in 1 .. Len(l) /\ Len(l) <= c
    BY <1>3, <1>4
  <2>2. \A n \in Nat : \A x \in 1 .. n : n <= x => x = n
    OBVIOUS
  <2>3. Len(l) \in Nat
    BY <1>1
  <2> QED BY <2>1, <2>2, <2>3
<1> QED BY <1>1, <1>3, <1>5 DEF LeaderCommit

\* A client's turn: its entry is appended, saved, committed and applied.
LEMMA AloneAccepts ==
  ASSUME SavesSucceed, \A j \in Node : Peers(j) = {}, TypeInv, TypeInv',
         AloneInv, NEW i \in Node, AcceptClient(i)
  PROVE  AloneInv'
<1>1. PICK command \in Command : ClientRequest(i, command)
  BY DEF AcceptClient
<1>2. PICK e : e = log'[i][Len(log'[i])]
  OBVIOUS
<1>3. /\ e \in LogEntry /\ e.term = current_term[i] /\ e.index = Len(log[i]) + 1
      /\ log'[i] = Append(log[i], e) /\ Len(log'[i]) = Len(log[i]) + 1
      /\ Len(log[i]) \in Nat /\ HasEntry(log'[i], e)
      /\ current_term' = current_term
  BY <1>1, <1>2, AcceptedEntry
<1>4. /\ TypeOK /\ log[i] \in Seq(LogEntry) /\ log'[i] \in Seq(LogEntry)
      /\ Contiguous(log'[i], 0) /\ commit_index[i] \in Nat
      /\ \A j \in Node : j = i
  BY DEF TypeInv, TypeOK, LogContiguous, Peers
<1>5. \A k \in 1 .. Len(log[i]) : log'[i][k] = log[i][k]
  BY <1>3, <1>4
<1>6. /\ commit_index[i] <= Len(log[i]) /\ last_applied[i] = commit_index[i]
      /\ Len(applied[i]) = commit_index[i] /\ pending[i] = {}
  BY DEF AloneInv, AppliedFromLog
<1>7. Applies(i) /\ commit_index'[i] = Len(log'[i])
  <2> DEFINE c == LeaderCommit(log'[i], current_term[i], commit_index[i],
                               match_index[i], Peers(i))
  <2>1. CommitAndApply(i, log'[i], c)
    BY <1>1 DEF ClientRequest
  <2>2. c = Len(log'[i])
    <3>1. /\ log'[i] # << >> /\ commit_index[i] < Len(log'[i])
          /\ log'[i][Len(log'[i])].term = current_term[i]
      BY <1>2, <1>3, <1>4, <1>6
    <3> QED BY <1>4, <3>1, AloneCommits
  <2> HIDE DEF c
  <2> QED BY <1>4, <2>1, <2>2, CommitAndApplyStep
<1>8. /\ last_applied'[i] = commit_index'[i]
      /\ Len(applied'[i]) = commit_index'[i]
      /\ \A k \in 1 .. commit_index'[i] : applied'[i][k] = log'[i][k].command
  <2>1. /\ commit_index'[i] >= commit_index[i]
        /\ commit_index'[i] <= Len(log'[i])
        /\ \A k \in 1 .. commit_index[i] : log'[i][k] = log[i][k]
    BY <1>3, <1>4, <1>5, <1>6, <1>7
  <2> QED BY <1>7, <2>1, AppliesFromLog DEF AloneInv
<1>9. AppliedFromLog'
  <2>1. commit_index'[i] <= Len(log'[i])
    BY <1>3, <1>7
  <2> QED BY <1>4, <1>8, <2>1 DEF AppliedFromLog
<1>10. disk'[i].log = log'[i] /\ messages' = messages
  BY <1>1, <1>4, PersistSavesAll DEF ClientRequest, AllSaved
<1>11. /\ pending' = [pending EXCEPT ![i] = {}]
       /\ answers' = answers \cup AnswersTo(i, {e}, "Applied")
  <2>1. ResolvedIndices(i) = {e.index}
    BY <1>3, <1>4, <1>6, <1>7, <1>8 DEF ResolvedIndices
  <2>2. Park(pending[i], e) = {e}
    BY <1>6 DEF Park
  <2>3. Resolve(i, {e})
    BY <1>2, <2>2 DEF AcceptClient
  <2>4. {x \in {e} : x.index \in ResolvedIndices(i)} = {e} /\ {e} \ {e} = {}
    BY <2>1
  <2> QED BY <2>3, <2>4 DEF Resolve
<1>12. \A a \in AnswersTo(i, {e}, "Applied") :
         /\ a \in Answer /\ a.node = i /\ a.entry = e
         /\ a.result = "Applied" /\ a.term = a.entry.term
  BY <1>3, <1>4 DEF AnswersTo, Answer, TypeOK
<1>13. ASSUME NEW a \in answers PROVE HasEntry(log'[a.node], a.entry)
  <2>1. a.node = i /\ HasEntry(log[i], a.entry)
    BY <1>4 DEF AloneInv, ClientsTypeOK, Answer
  <2>2. DOMAIN log[i] = 1 .. Len(log[i]) /\ DOMAIN log'[i] = 1 .. Len(log[i]) + 1
    BY <1>3, <1>4
  <2> QED BY <1>3, <1>5, <2>1, <2>2 DEF HasEntry
<1>14. ClientsTypeOK' /\ pending'[i] = {}
  BY <1>11, <1>12 DEF AloneInv, ClientsTypeOK
<1> QED BY <1>3, <1>4, <1>9, <1>10, <1>11, <1>12, <1>13, <1>14 DEF AloneInv

\* The other turns leave log, table and answers alone.
LEMMA AloneRests ==
  ASSUME SavesSucceed, \A j \in Node : Peers(j) = {}, TypeInv, AloneInv,
         NEW i \in Node, Timeout(i) \/ RestartNode(i)
  PROVE  AloneInv'
<1>1. TypeOK /\ (\A j \in Node : j = i) /\ pending[i] = {} /\ disk[i].log = log[i]
  BY DEF TypeInv, Peers, AloneInv
<1>2. CASE Timeout(i)
  <2>1. UNCHANGED <<pending, answers>>
    BY <1>2 DEF Timeout, clientVars
  <2>2. UNCHANGED <<log, messages, volatileVars>> /\ disk'[i].log = log'[i]
    <3>1. CASE ElectionTimeout(i)
      <4>1. LeadAlone(i)
        BY <3>1 DEF ElectionTimeout
      <4>2. AllSaved(i)
        BY <1>1, <4>1, PersistSavesAll DEF LeadAlone
      <4> QED BY <4>1, <4>2 DEF LeadAlone, BecomeCandidate, AllSaved
    <3>2. CASE HeartbeatTimeout(i)
      <4>1. messages' = messages
        BY <3>2 DEF HeartbeatTimeout, Send
      <4> QED BY <1>1, <3>2, <4>1 DEF HeartbeatTimeout, nodeVars, persistentVars
    <3>3. CASE IgnoreTimeout(i)
      BY <1>1, <3>3 DEF IgnoreTimeout, vars, nodeVars, persistentVars
    <3> QED BY <1>2, <3>1, <3>2, <3>3 DEF Timeout
  <2>3. AppliedFromLog'
    BY <2>2 DEF volatileVars, AloneInv, AppliedFromLog
  <2>4. ClientsTypeOK'
    BY <2>1 DEF AloneInv, ClientsTypeOK
  <2> QED BY <1>1, <2>1, <2>2, <2>3, <2>4 DEF AloneInv, HasEntry
<1>3. CASE RestartNode(i)
  <2>1. /\ UNCHANGED <<disk, messages, answers>>
        /\ log' = [log EXCEPT ![i] = disk[i].log]
        /\ commit_index' = [commit_index EXCEPT ![i] = 0]
        /\ last_applied' = [last_applied EXCEPT ![i] = 0]
        /\ applied' = [applied EXCEPT ![i] = << >>]
        /\ pending' = [pending EXCEPT ![i] = {}]
    BY <1>3 DEF RestartNode, Restart
  <2>2. log' = log /\ pending' = pending
    BY <1>1, <2>1 DEF TypeOK, AloneInv, ClientsTypeOK
  <2>3. AppliedFromLog'
    <3>1. /\ commit_index'[i] = 0 /\ last_applied'[i] = 0
          /\ applied'[i] = << >> /\ log'[i] \in Seq(LogEntry)
      BY <1>1, <2>1, <2>2 DEF TypeOK
    <3> QED BY <1>1, <3>1 DEF AppliedFromLog
  <2>4. ClientsTypeOK'
    BY <2>1, <2>2 DEF AloneInv, ClientsTypeOK
  <2> QED BY <1>1, <2>1, <2>2, <2>3, <2>4 DEF AloneInv, HasEntry
<1> QED BY <1>2, <1>3

\* The invariant of a single node with its clients.
LEMMA AloneInvariant ==
  ASSUME SavesSucceed, \A i \in Node : Peers(i) = {}
  PROVE  ClientsSpec => []AloneInv
<1>1. ClientsInit => AloneInv
  BY DEF ClientsInit, Init, AloneInv, ClientsTypeOK, AppliedFromLog
<1>2. TypeInv /\ TypeInv' /\ AloneInv /\ [ClientsNext]_servedVars => AloneInv'
  <2> SUFFICES ASSUME TypeInv, TypeInv', AloneInv, [ClientsNext]_servedVars
               PROVE  AloneInv'
    OBVIOUS
  <2>1. PICK i \in Node : ClientsTurn(i)
    BY NextIsClientsTurn
  <2>2. ~ Redirect(i) /\ ~ ReceiveMessage(i)
    BY DEF AloneInv, Redirect, ReceiveMessage
  <2> QED BY <2>1, <2>2, AloneAccepts, AloneRests DEF ClientsTurn
<1> QED BY <1>1, <1>2, ClientsImplementRaft, TypeCorrect, PTL DEF ClientsSpec

\* What the invariant of a single node says of its clients.
LEMMA AloneInvSafe ==
  ASSUME \A i \in Node : Peers(i) = {}, TypeInv, AloneInv
  PROVE  /\ NoOneForgotten /\ AppliedIsTrue /\ StateMachineSafety
         /\ WaitingLed /\ AppliedIsDurable
<1>1. \A i, j \in Node : i = j
  BY DEF Peers
<1>2. NoOneForgotten /\ AppliedIsTrue
  BY DEF AloneInv, NoOneForgotten, AppliedIsTrue, Applieds
<1>3. StateMachineSafety
  <2>1. \A i \in Node : DOMAIN applied[i] = 1 .. Len(applied[i])
    BY DEF TypeInv, TypeOK
  <2> QED BY <1>1, <2>1 DEF AloneInv, AppliedFromLog, StateMachineSafety
<1>4. WaitingLed
  BY DEF AloneInv, WaitingLed
<1>5. AppliedIsDurable
  <2> SUFFICES ASSUME NEW a \in Applieds
               PROVE  Cardinality({j \in Node : HasEntry(disk[j].log, a.entry)})
                        >= Quorum(a.node)
    BY DEF AppliedIsDurable
  <2>1. a.node \in Node /\ HasEntry(disk[a.node].log, a.entry)
    BY DEF AloneInv, ClientsTypeOK, Answer, Applieds
  <2>2. {j \in Node : HasEntry(disk[j].log, a.entry)} = Node
    BY <1>1, <2>1
  <2>3. Quorum(a.node) \in Nat /\ Quorum(a.node) <= Cardinality(Node)
        /\ Cardinality(Node) \in Nat
    BY <2>1, QuorumSize, NodeAssumption, FS_CardinalityType
  <2> QED BY <2>2, <2>3
<1> QED BY <1>2, <1>3, <1>4, <1>5

----------------------------------------------------------------------------
(* The theorems on clients                                                 *)

(***************************************************************************)
(* With saves that succeed, a client of any cluster that waits in the term *)
(* of its entry waits at the leader of that term, which has the entry in   *)
(* its log: through crashes, late messages and any changes of leader.      *)
(***************************************************************************)
THEOREM ClientsWaitAtLeader ==
  ASSUME SavesSucceed
  PROVE  ClientsSpec => []WaitingLed
<1>1. CASE \A i \in Node : Peers(i) # {}
  <2>1. ClientInv => WaitingLed
    BY DEF ClientInv
  <2>2. ClientsSpec => []ClientInv
    BY <1>1, ClientInvariant
  <2> QED BY <2>1, <2>2, PTL
<1>2. CASE \A i \in Node : Peers(i) = {}
  <2>1. TypeInv /\ AloneInv => WaitingLed
    BY <1>2, AloneInvSafe
  <2>2. ClientsSpec => []AloneInv
    BY <1>2, AloneInvariant
  <2> QED BY <2>1, <2>2, ClientsImplementRaft, TypeCorrect, PTL
<1>3. (\A i \in Node : Peers(i) # {}) \/ (\A i \in Node : Peers(i) = {})
  BY DEF Peers
<1> QED BY <1>1, <1>2, <1>3

(***************************************************************************)
(* With saves that succeed, a client that a leader answers Applied in the  *)
(* term of its entry has the entry in the storage of a quorum, in every    *)
(* later state: whoever crashes and whoever leads next, as long as no      *)
(* success reply acknowledged a foreign suffix.                            *)
(***************************************************************************)
THEOREM AnswersAreDurable ==
  ASSUME SavesSucceed
  PROVE  ClientsSpec => []AppliedIsDurable
<1>1. CASE \A i \in Node : Peers(i) # {}
  <2>1. TypeInv /\ ClientInv /\ ServedLedger => AppliedIsDurable
    BY ServedLedgerStored DEF ClientInv
  <2>2. ClientsSpec => []ClientInv /\ []ServedLedger
    BY <1>1, ClientInvariant, ServedInvariant
  <2> QED BY <2>1, <2>2, ClientsImplementRaft, TypeCorrect, PTL
<1>2. CASE \A i \in Node : Peers(i) = {}
  <2>1. TypeInv /\ AloneInv => AppliedIsDurable
    BY <1>2, AloneInvSafe
  <2>2. ClientsSpec => []AloneInv
    BY <1>2, AloneInvariant
  <2> QED BY <2>1, <2>2, ClientsImplementRaft, TypeCorrect, PTL
<1>3. (\A i \in Node : Peers(i) # {}) \/ (\A i \in Node : Peers(i) = {})
  BY DEF Peers
<1> QED BY <1>1, <1>2, <1>3

(***************************************************************************)
(* In a cluster of one whose saves succeed, what the comment on pending    *)
(* says is true: nobody waits for an index that is applied.  (In larger    *)
(* clusters it is not, see the run batch_apply.)                           *)
(***************************************************************************)
THEOREM AloneForgetsNoOne ==
  ASSUME SavesSucceed, \A i \in Node : Peers(i) = {}
  PROVE  ClientsSpec => []NoOneForgotten
<1>1. TypeInv /\ AloneInv => NoOneForgotten
  BY AloneInvSafe
<1> QED BY <1>1, AloneInvariant, ClientsImplementRaft, TypeCorrect, PTL

(***************************************************************************)
(* In a cluster of one whose saves succeed, what the comment on            *)
(* ClientResponse::Applied says is true: whoever is told Applied finds its *)
(* entry in the log for good, crashes included.  (In larger clusters it is *)
(* not, see the run wrong_client.)                                         *)
(***************************************************************************)
THEOREM AloneAnswersTruly ==
  ASSUME SavesSucceed, \A i \in Node : Peers(i) = {}
  PROVE  ClientsSpec => []AppliedIsTrue
<1>1. TypeInv /\ AloneInv => AppliedIsTrue
  BY AloneInvSafe
<1> QED BY <1>1, AloneInvariant, ClientsImplementRaft, TypeCorrect, PTL
=============================================================================
