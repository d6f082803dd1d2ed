-------------------------------- MODULE Raft --------------------------------
(***************************************************************************)
(* A cluster of raft-core state machines, each driven by raft-runtime's    *)
(* node loop over an unreliable network and its own persistent storage.    *)
(*                                                                         *)
(* One action is one turn of Node::run: one event goes through Raft::step  *)
(* and every Action it returns goes through process_actions.  Within a     *)
(* turn PersistState always precedes the messages that depend on it, so a  *)
(* crash in the middle of a turn leaves what a crash after the turn and    *)
(* the loss of its remaining messages leave; Restart may therefore happen  *)
(* between any two turns and no finer.                                     *)
(*                                                                         *)
(* `messages' only grows.  A message in it may be received never, once or  *)
(* many times and in any order: loss, duplication and reordering.  Timers  *)
(* may fire at any moment.  A message the code drops without a change (a   *)
(* stale response, a second vote of the same peer) is a stuttering step    *)
(* and has no action.                                                      *)
(*                                                                         *)
(* As in RaftLog, <operator>_<fault> is a seeded fault for mutation runs.  *)
(***************************************************************************)
EXTENDS RaftLog

CONSTANTS
  Node,         \* the members of the cluster; peers of i are Node \ {i}
  Command,      \* client commands
  None,         \* Option::None
  SaveResults,  \* what Persistence::save may do: TRUE stores the state,
                \* FALSE leaves storage as it was (an error is only logged;
                \* NoPersistence never stores)
  MaxTerm,      \* bound: no election starts past this term
  MaxLogLen,    \* bound: no client request is accepted by a longer log
  MaxRestarts,  \* bound: number of crashes in a behaviour
  MaxMessages   \* bound: number of different messages in a behaviour

ASSUME NodeAssumption  == IsFiniteSet(Node) /\ Node # {} /\ None \notin Node
ASSUME SaveAssumption  == SaveResults \subseteq BOOLEAN /\ SaveResults # {}
ASSUME BoundAssumption == /\ MaxTerm \in Nat
                          /\ MaxLogLen \in Nat
                          /\ MaxRestarts \in Nat
                          /\ MaxMessages \in Nat

VARIABLES
  role, known_leader,             \* Raft
  current_term, voted_for, log,   \* PersistentState
  commit_index, last_applied,     \* VolatileState
  votes_received, votes_granted,  \* CandidateState ({} when None)
  next_index, match_index,        \* LeaderState (1 and 0 when None)
  applied,   \* the commands each node's state machine has applied, in order
  disk,      \* what Persistence::load would return
  messages,  \* every message ever handed to the transport
  restarts,  \* number of restarts so far
  stale_ack  \* history: a success reply acknowledged an entry that its
             \* leader does not have (see AcceptAppend)

persistentVars == <<current_term, voted_for, log>>
volatileVars   == <<commit_index, last_applied, applied>>
candidateVars  == <<votes_received, votes_granted>>
leaderVars     == <<next_index, match_index>>
nodeVars  == <<role, known_leader, persistentVars, volatileVars,
               candidateVars, leaderVars>>
vars      == <<nodeVars, disk, messages, restarts, stale_ack>>

----------------------------------------------------------------------------
(* Types                                                                   *)

Role     == {"Follower", "Candidate", "Leader"}
LogEntry == LogEntryOf(Command)

PersistentState ==
  [current_term : Nat, voted_for : Node \cup {None}, log : Seq(LogEntry)]

\* Message, with the addressee of its Action::Send.  `from' is the code's
\* candidate_id, leader_id, vote_from or from.
RequestVote ==
  [type : {"RequestVote"}, from : Node, to : Node, term : Nat,
   last_log_index : Nat, last_log_term : Nat]
RequestVoteResponse ==
  [type : {"RequestVoteResponse"}, from : Node, to : Node, term : Nat,
   vote_granted : BOOLEAN]
AppendEntries ==
  [type : {"AppendEntries"}, from : Node, to : Node, term : Nat,
   prev_log_index : Nat, prev_log_term : Nat, entries : Seq(LogEntry),
   leader_commit : Nat]
AppendEntriesResponse ==
  [type : {"AppendEntriesResponse"}, from : Node, to : Node, term : Nat,
   success : BOOLEAN, match_index : Nat]
Message ==
  RequestVote \cup RequestVoteResponse
    \cup AppendEntries \cup AppendEntriesResponse

(***************************************************************************)
(* Every variable has its type.                                            *)
(***************************************************************************)
TypeOK ==
  /\ role \in [Node -> Role]
  /\ known_leader \in [Node -> Node \cup {None}]
  /\ current_term \in [Node -> Nat]
  /\ voted_for \in [Node -> Node \cup {None}]
  /\ log \in [Node -> Seq(LogEntry)]
  /\ commit_index \in [Node -> Nat]
  /\ last_applied \in [Node -> Nat]
  /\ votes_received \in [Node -> SUBSET Node]
  /\ votes_granted \in [Node -> SUBSET Node]
  /\ next_index \in [Node -> [Node -> Nat \ {0}]]
  /\ match_index \in [Node -> [Node -> Nat]]
  /\ applied \in [Node -> Seq(Command)]
  /\ disk \in [Node -> PersistentState]
  /\ messages \subseteq Message
  /\ restarts \in Nat
  /\ stale_ack \in BOOLEAN

----------------------------------------------------------------------------
(* What the handlers share                                                 *)

Peers(i) == Node \ {i}

Quorum(i) == quorum(Cardinality(Peers(i)))

\* Node::process_actions on Action::Send, a set of them at a time.
Send(ms) ==
  /\ Cardinality(messages \cup ms) <= MaxMessages
  /\ messages' = messages \cup ms

PersistState_TooEarly(i) ==
  \E saved \in SaveResults :
    disk' = IF saved
            THEN [disk EXCEPT ![i] = [current_term |-> current_term'[i],
                                      voted_for    |-> voted_for[i],
                                      log          |-> log'[i]]]
            ELSE disk

PersistState_VotesOnly(i) ==
  \E saved \in SaveResults :
    disk' = IF saved
            THEN [disk EXCEPT ![i].current_term = current_term'[i],
                              ![i].voted_for    = voted_for'[i]]
            ELSE disk

\* Node::process_actions on Action::PersistState, after the handler's own
\* assignments.  A failed save is logged and the node carries on.
PersistState(i) ==
  \E saved \in SaveResults :
    disk' = IF saved
            THEN [disk EXCEPT ![i] = [current_term |-> current_term'[i],
                                      voted_for    |-> voted_for'[i],
                                      log          |-> log'[i]]]
            ELSE disk

\* candidate_state = None and leader_state = None.
ClearCandidateState(i) ==
  /\ votes_received' = [votes_received EXCEPT ![i] = {}]
  /\ votes_granted'  = [votes_granted EXCEPT ![i] = {}]

ClearLeaderState(i) ==
  /\ next_index'  = [next_index EXCEPT ![i] = [p \in Node |-> 1]]
  /\ match_index' = [match_index EXCEPT ![i] = [p \in Node |-> 0]]

\* The assignments of step_down that no handler overwrites in its turn.
EnterTerm(i, term) ==
  /\ current_term' = [current_term EXCEPT ![i] = term]
  /\ role' = [role EXCEPT ![i] = "Follower"]
  /\ ClearCandidateState(i)
  /\ ClearLeaderState(i)

step_down(i, term) ==
  /\ EnterTerm(i, term)
  /\ voted_for' = [voted_for EXCEPT ![i] = None]
  /\ known_leader' = [known_leader EXCEPT ![i] = None]

\* known_leader as step_down leaves it, when the message is newer.
LeaderAt(i, term) == IF term > current_term[i] THEN None ELSE known_leader[i]

\* The prologue of the two request handlers: step down if the message is
\* from a newer term, and otherwise change nothing yet.
StepDownIfNewer(i, term) ==
  IF term > current_term[i]
  THEN step_down(i, term)
  ELSE UNCHANGED <<role, known_leader, current_term, voted_for,
                   candidateVars, leaderVars>>

\* become_leader, after a won vote or at once in a single-node cluster.
become_leader(i) ==
  /\ role' = [role EXCEPT ![i] = "Leader"]
  /\ known_leader' = [known_leader EXCEPT ![i] = i]
  /\ ClearCandidateState(i)
  /\ next_index'  = [next_index EXCEPT
                       ![i] = [p \in Node |-> last_log_index(log[i]) + 1]]
  /\ match_index' = [match_index EXCEPT ![i] = [p \in Node |-> 0]]

\* commit_index := commit, then apply_committed_entries on the log `l' the
\* node has by then.
CommitAndApply(i, l, commit) ==
  /\ commit_index' = [commit_index EXCEPT ![i] = commit]
  /\ last_applied' = [last_applied EXCEPT
                        ![i] = IF commit > @ THEN commit ELSE @]
  /\ applied' = [applied EXCEPT
                   ![i] = @ \o CommandsToApply(l, last_applied[i], commit)]

----------------------------------------------------------------------------
(* Elections                                                               *)

\* create_vote_action
VoteRequest(i, p, term) ==
  [type |-> "RequestVote", from |-> i, to |-> p, term |-> term,
   last_log_index |-> last_log_index(log[i]),
   last_log_term  |-> last_log_term(log[i])]

\* vote_response, with the term the handler has reached.
vote_response(i, candidate, granted) ==
  [type |-> "RequestVoteResponse", from |-> i, to |-> candidate,
   term |-> current_term'[i], vote_granted |-> granted]

\* The first half of handle_election_timeout: a new term and a self-vote.
BecomeCandidate(i) ==
  /\ role[i] # "Leader"
  /\ current_term[i] < MaxTerm
  /\ current_term' = [current_term EXCEPT ![i] = @ + 1]
  /\ voted_for' = [voted_for EXCEPT ![i] = i]
  /\ UNCHANGED <<log, volatileVars, restarts, stale_ack>>

\* handle_election_timeout in a cluster: ask every peer for its vote.
Campaign(i) ==
  /\ Peers(i) # {}
  /\ BecomeCandidate(i)
  /\ role' = [role EXCEPT ![i] = "Candidate"]
  /\ votes_received' = [votes_received EXCEPT ![i] = {i}]
  /\ votes_granted'  = [votes_granted EXCEPT ![i] = {i}]
  /\ ClearLeaderState(i)
  /\ UNCHANGED known_leader
  /\ PersistState(i)
  /\ Send({VoteRequest(i, p, current_term[i] + 1) : p \in Peers(i)})

\* handle_election_timeout in a single-node cluster: lead at once.
LeadAlone(i) ==
  /\ Peers(i) = {}
  /\ BecomeCandidate(i)
  /\ become_leader(i)
  /\ PersistState(i)
  /\ UNCHANGED messages

ElectionTimeout(i) == IF Peers(i) = {} THEN LeadAlone(i) ELSE Campaign(i)

\* The voter's choice, for a candidate of the voter's term after the
\* prologue: `voted' is voted_for at that point.
MayGrant(i, m, voted) ==
  /\ voted \in {None, m.from}
  /\ candidate_log_up_to_date(log[i], m.last_log_term, m.last_log_index)

VotedAt_Forgets(i, term) == None

\* voted_for after the prologue: step_down clears it.
VotedAt(i, term) == IF term > current_term[i] THEN None ELSE voted_for[i]

\* handle_request_vote, the three refusals.  A newer term is taken over in
\* memory; nothing is persisted.
RejectVote(i, m) ==
  /\ m.type = "RequestVote" /\ m.to = i
  /\ \/ m.term < current_term[i]
     \/ ~ MayGrant(i, m, VotedAt(i, m.term))
  /\ StepDownIfNewer(i, m.term)
  /\ Send({vote_response(i, m.from, FALSE)})
  /\ UNCHANGED <<log, volatileVars, disk, restarts, stale_ack>>

\* handle_request_vote, the grant.
GrantVote(i, m) ==
  /\ m.type = "RequestVote" /\ m.to = i
  /\ m.term >= current_term[i]
  /\ MayGrant(i, m, VotedAt(i, m.term))
  /\ IF m.term > current_term[i]
     THEN EnterTerm(i, m.term)
     ELSE UNCHANGED <<role, current_term, candidateVars, leaderVars>>
  /\ known_leader' = [known_leader EXCEPT ![i] = LeaderAt(i, m.term)]
  /\ voted_for' = [voted_for EXCEPT ![i] = m.from]
  /\ UNCHANGED <<log, volatileVars, restarts, stale_ack>>
  /\ PersistState(i)
  /\ Send({vote_response(i, m.from, TRUE)})

\* handle_vote_response and handle_append_entries_response: a reply from a
\* newer term.  No timer is reset and nothing is persisted.
StepDownOnReply(i, m) ==
  /\ m.type \in {"RequestVoteResponse", "AppendEntriesResponse"} /\ m.to = i
  /\ m.term > current_term[i]
  /\ step_down(i, m.term)
  /\ UNCHANGED <<log, volatileVars, disk, messages, restarts, stale_ack>>

CountsVote_AnyTerm(i, m) ==
  /\ m.type = "RequestVoteResponse" /\ m.to = i
  /\ role[i] = "Candidate"
  /\ m.from \in Peers(i) \ votes_received[i]

\* A reply handle_vote_response counts: the current term's, to a candidate,
\* from a peer it has not heard from.
CountsVote(i, m) ==
  /\ m.type = "RequestVoteResponse" /\ m.to = i
  /\ m.term = current_term[i]
  /\ role[i] = "Candidate"
  /\ m.from \in Peers(i) \ votes_received[i]

GrantedAfter(i, m) ==
  IF m.vote_granted THEN votes_granted[i] \cup {m.from} ELSE votes_granted[i]

has_majority(i, votes) == Cardinality(votes) >= Quorum(i)

\* handle_vote_response, short of a majority.
CountVote(i, m) ==
  /\ CountsVote(i, m)
  /\ ~ has_majority(i, GrantedAfter(i, m))
  /\ votes_received' = [votes_received EXCEPT ![i] = @ \cup {m.from}]
  /\ votes_granted'  = [votes_granted EXCEPT ![i] = GrantedAfter(i, m)]
  /\ UNCHANGED <<role, known_leader, persistentVars, volatileVars, leaderVars,
                 disk, messages, restarts, stale_ack>>

\* handle_vote_response, with the majority reached.
WinElection(i, m) ==
  /\ CountsVote(i, m)
  /\ has_majority(i, GrantedAfter(i, m))
  /\ become_leader(i)
  /\ UNCHANGED <<persistentVars, volatileVars, disk, messages, restarts,
                 stale_ack>>

----------------------------------------------------------------------------
(* Log replication                                                         *)

\* append_entries_for_peer
AppendEntriesFor(i, p) ==
  LET next == next_index[i][p]
  IN  [type |-> "AppendEntries", from |-> i, to |-> p,
       term           |-> current_term[i],
       prev_log_index |-> PrevLogIndex(next),
       prev_log_term  |-> PrevLogTerm(log[i], next),
       entries        |-> EntriesFrom(log[i], next),
       leader_commit  |-> commit_index[i]]

\* handle_heartbeat_timeout
HeartbeatTimeout(i) ==
  /\ role[i] = "Leader"
  /\ Send({AppendEntriesFor(i, p) : p \in Peers(i)})
  /\ UNCHANGED <<nodeVars, disk, restarts, stale_ack>>

\* A timer that fires in the wrong role: handle_election_timeout at a
\* leader and handle_heartbeat_timeout elsewhere return no actions.
IgnoreTimeout(i) == UNCHANGED vars

\* handle_client_request at a leader.  With no peers the entry is committed
\* and applied in the same turn.
ClientRequest(i, command) ==
  LET entry == [term    |-> current_term[i],
                index   |-> last_log_index(log[i]) + 1,
                command |-> command]
  IN  /\ role[i] = "Leader"
      /\ Len(log[i]) < MaxLogLen
      /\ log' = [log EXCEPT ![i] = Append(@, entry)]
      /\ IF Peers(i) = {}
         THEN CommitAndApply(i, log'[i],
                LeaderCommit(log'[i], current_term[i], commit_index[i],
                             match_index[i], Peers(i)))
         ELSE UNCHANGED volatileVars
      /\ UNCHANGED <<role, known_leader, current_term, voted_for,
                     candidateVars, leaderVars, messages, restarts, stale_ack>>
      /\ PersistState(i)

\* append_entries_response, with the state the handler has reached.
append_entries_response(i, leader, success) ==
  [type |-> "AppendEntriesResponse", from |-> i, to |-> leader,
   term        |-> current_term'[i],
   success     |-> success,
   match_index |-> IF success THEN last_log_index(log'[i]) ELSE 0]

StaleLeader_Believed(i, term) == FALSE

StaleLeader(i, term) == term < current_term[i]

\* handle_append_entries, a stale leader.
RejectStaleAppend(i, m) ==
  /\ m.type = "AppendEntries" /\ m.to = i
  /\ StaleLeader(i, m.term)
  /\ UNCHANGED <<nodeVars, disk, restarts, stale_ack>>
  /\ Send({append_entries_response(i, m.from, FALSE)})

\* handle_append_entries up to the consistency check: a newer term is taken
\* over, and a candidate of the message's term becomes a follower.
FollowTerm(i, term) ==
  /\ voted_for' = [voted_for EXCEPT ![i] = VotedAt(i, term)]
  /\ IF term > current_term[i]
     THEN EnterTerm(i, term)
     ELSE /\ IF role[i] = "Candidate"
             THEN /\ role' = [role EXCEPT ![i] = "Follower"]
                  /\ ClearCandidateState(i)
             ELSE UNCHANGED <<role, candidateVars>>
          /\ UNCHANGED <<current_term, leaderVars>>

\* handle_append_entries, a failed consistency check.  Nothing is persisted
\* and the election timer keeps running.
RejectMismatch(i, m) ==
  /\ m.type = "AppendEntries" /\ m.to = i
  /\ ~ StaleLeader(i, m.term)
  /\ ~ log_matches(log[i], m.prev_log_index, m.prev_log_term)
  /\ FollowTerm(i, m.term)
  /\ known_leader' = [known_leader EXCEPT ![i] = LeaderAt(i, m.term)]
  /\ UNCHANGED <<log, volatileVars, disk, restarts, stale_ack>>
  /\ Send({append_entries_response(i, m.from, FALSE)})

\* The entries of a log that a success reply acknowledges although neither
\* the message nor an earlier one of the same leader brought them.
UnverifiedSuffix(l, m) ==
  {k \in DOMAIN l : /\ l[k].index > LastNewIndex(m.prev_log_index, m.entries)
                    /\ l[k].term # m.term}

\* handle_append_entries, success.
AcceptAppend(i, m) ==
  LET lastNew == LastNewIndex(m.prev_log_index, m.entries)
  IN  /\ m.type = "AppendEntries" /\ m.to = i
      /\ ~ StaleLeader(i, m.term)
      /\ log_matches(log[i], m.prev_log_index, m.prev_log_term)
      /\ FollowTerm(i, m.term)
      /\ known_leader' = [known_leader EXCEPT ![i] = m.from]
      /\ log' = [log EXCEPT ![i] = Reconcile(@, m.entries)]
      /\ CommitAndApply(i, log'[i],
           FollowerCommit(commit_index[i], m.leader_commit, lastNew))
      /\ UNCHANGED restarts
      /\ PersistState(i)
      /\ Send({append_entries_response(i, m.from, TRUE)})
      /\ stale_ack' = (stale_ack \/ UnverifiedSuffix(log'[i], m) # {})

\* A reply handle_append_entries_response acts on.
CountsAppend(i, m) ==
  /\ m.type = "AppendEntriesResponse" /\ m.to = i
  /\ m.term = current_term[i]
  /\ role[i] = "Leader"
  /\ m.from \in Peers(i)

OneEarlier_NoFloor(next) == next - 1

OneEarlier_Stuck(next) == next

\* next_index.saturating_sub(1).max(1)
OneEarlier(next) == IF next > 1 THEN next - 1 ELSE 1

\* handle_append_entries_response, failure: retry one entry earlier.
Backoff(i, m) ==
  /\ CountsAppend(i, m)
  /\ ~ m.success
  /\ next_index' = [next_index EXCEPT ![i][m.from] = OneEarlier(@)]
  /\ UNCHANGED <<role, known_leader, persistentVars, volatileVars,
                 candidateVars, match_index, disk, messages, restarts,
                 stale_ack>>

\* handle_append_entries_response, success, with try_advance_commit_index.
Advance(i, m) ==
  /\ CountsAppend(i, m)
  /\ m.success
  /\ IF m.match_index > match_index[i][m.from]
     THEN /\ match_index' = [match_index EXCEPT ![i][m.from] = m.match_index]
          /\ next_index'  = [next_index EXCEPT ![i][m.from] = m.match_index + 1]
     ELSE UNCHANGED leaderVars
  /\ CommitAndApply(i, log[i],
       LeaderCommit(log[i], current_term[i], commit_index[i],
                    match_index'[i], Peers(i)))
  /\ UNCHANGED <<role, known_leader, persistentVars, candidateVars,
                 disk, messages, restarts, stale_ack>>

----------------------------------------------------------------------------
(* Crash and restart                                                       *)

\* The process dies and Node::new restores what the storage holds.  The
\* state machine is rebuilt from the first command.
Restart(i) ==
  /\ restarts < MaxRestarts
  /\ restarts' = restarts + 1
  /\ current_term' = [current_term EXCEPT ![i] = disk[i].current_term]
  /\ voted_for' = [voted_for EXCEPT ![i] = disk[i].voted_for]
  /\ log' = [log EXCEPT ![i] = disk[i].log]
  /\ role' = [role EXCEPT ![i] = "Follower"]
  /\ known_leader' = [known_leader EXCEPT ![i] = None]
  /\ commit_index' = [commit_index EXCEPT ![i] = 0]
  /\ last_applied' = [last_applied EXCEPT ![i] = 0]
  /\ applied' = [applied EXCEPT ![i] = << >>]
  /\ ClearCandidateState(i)
  /\ ClearLeaderState(i)
  /\ UNCHANGED <<disk, messages, stale_ack>>

----------------------------------------------------------------------------
(* The specification                                                       *)

\* Raft::new on every node, nothing in storage.
Init ==
  /\ role = [i \in Node |-> "Follower"]
  /\ known_leader = [i \in Node |-> None]
  /\ current_term = [i \in Node |-> 0]
  /\ voted_for = [i \in Node |-> None]
  /\ log = [i \in Node |-> << >>]
  /\ commit_index = [i \in Node |-> 0]
  /\ last_applied = [i \in Node |-> 0]
  /\ votes_received = [i \in Node |-> {}]
  /\ votes_granted = [i \in Node |-> {}]
  /\ next_index = [i \in Node |-> [p \in Node |-> 1]]
  /\ match_index = [i \in Node |-> [p \in Node |-> 0]]
  /\ applied = [i \in Node |-> << >>]
  /\ disk = [i \in Node |->
               [current_term |-> 0, voted_for |-> None, log |-> << >>]]
  /\ messages = {}
  /\ restarts = 0
  /\ stale_ack = FALSE

\* Raft::handle_message
HandleMessage(i, m) ==
  \/ RejectVote(i, m)
  \/ GrantVote(i, m)
  \/ StepDownOnReply(i, m)
  \/ CountVote(i, m)
  \/ WinElection(i, m)
  \/ RejectStaleAppend(i, m)
  \/ RejectMismatch(i, m)
  \/ AcceptAppend(i, m)
  \/ Backoff(i, m)
  \/ Advance(i, m)

\* Raft::step, and restarts.
Step(i) ==
  \/ ElectionTimeout(i)
  \/ HeartbeatTimeout(i)
  \/ IgnoreTimeout(i)
  \/ \E command \in Command : ClientRequest(i, command)
  \/ \E m \in messages : HandleMessage(i, m)
  \/ Restart(i)

Next == \E i \in Node : Step(i)

Spec == Init /\ [][Next]_vars

----------------------------------------------------------------------------
(* Properties                                                              *)

Grants == {m \in messages : m.type = "RequestVoteResponse" /\ m.vote_granted}
Appends == {m \in messages : m.type = "AppendEntries"}

(***************************************************************************)
(* At most one node leads a term (handle_request_vote, handle_vote_response*)
(* and Raft::restore together): no two leaders at the same moment, and     *)
(* none that follows another, across crashes: whoever leads a term is the  *)
(* only sender that AppendEntries of that term ever have.                  *)
(***************************************************************************)
ElectionSafety ==
  /\ \A i, j \in Node :
       /\ role[i] = "Leader" /\ role[j] = "Leader"
       /\ current_term[i] = current_term[j]
       => i = j
  /\ \A m \in Appends, i \in Node :
       role[i] = "Leader" /\ current_term[i] = m.term => i = m.from
  /\ \A m, n \in Appends : m.term = n.term => m.from = n.from

(***************************************************************************)
(* A vote that left the node is in its storage, or a later term is: the    *)
(* order of PersistState and Send in handle_request_vote, and the contract *)
(* of Persistence::save.                                                   *)
(***************************************************************************)
DurableVotes ==
  \A m \in Grants :
    \/ disk[m.from].current_term > m.term
    \/ disk[m.from].current_term = m.term /\ disk[m.from].voted_for = m.to

(***************************************************************************)
(* Why there is one leader per term, as an inductive invariant.  A vote of *)
(* v for c is cast by the message that makes it known: v's granting reply  *)
(* to c, or c's own RequestVote.                                           *)
(***************************************************************************)
CastBy(v, c) ==
  {m \in messages :
     \/ m.type = "RequestVoteResponse" /\ m.vote_granted
          /\ m.from = v /\ m.to = c
     \/ m.type = "RequestVote" /\ m.from = v /\ v = c}

Cast(v, c, term) == \E m \in CastBy(v, c) : m.term = term

\* c was elected in a term: a quorum cast their votes for it.
Elected(c, term) ==
  \E Q \in SUBSET Node :
    Cardinality(Q) >= Quorum(c) /\ \A v \in Q : Cast(v, c, term)

\* Storage is never ahead of memory; in the same term they agree on the vote.
StorageBehind ==
  \A v \in Node :
    /\ disk[v].current_term <= current_term[v]
    /\ disk[v].current_term = current_term[v]
       => disk[v].voted_for = voted_for[v]

\* A vote that was cast is in storage until a later term is.
CastsStored ==
  \A v, c \in Node : \A m \in CastBy(v, c) :
    \/ disk[v].current_term > m.term
    \/ disk[v].current_term = m.term /\ disk[v].voted_for = c

\* A node casts one vote per term.
CastOnce ==
  \A v, c, d \in Node : \A m \in CastBy(v, c), n \in CastBy(v, d) :
    m.term = n.term => c = d

\* The votes a candidate counts were cast for it, in its term.
CountedWereCast ==
  \A i \in Node : role[i] = "Candidate" =>
    \A v \in votes_granted[i] : Cast(v, i, current_term[i])

\* Leaders, and the senders of AppendEntries, were elected.
LeadersElected ==
  /\ \A i \in Node : role[i] = "Leader" => Elected(i, current_term[i])
  /\ \A m \in Appends : Elected(m.from, m.term)

(***************************************************************************)
(* The bookkeeping of votes in memory, in storage and on the network fits  *)
(* together, in a cluster of two nodes or more and across crashes          *)
(* (handle_election_timeout, handle_request_vote, handle_vote_response,    *)
(* Raft::restore).                                                         *)
(***************************************************************************)
ElectionInv ==
  StorageBehind /\ CastsStored /\ CastOnce /\ CountedWereCast /\ LeadersElected

(***************************************************************************)
(* Every log, in memory and in storage, holds the indices 1, 2, ... and    *)
(* the entries of an AppendEntries go on where prev_log_index ends, so the *)
(* code's searches by index find what positions would (handle_client_      *)
(* request, append_entries_for_peer and the reconciliation).               *)
(***************************************************************************)
LogContiguous ==
  /\ \A i \in Node : Contiguous(log[i], 0) /\ Contiguous(disk[i].log, 0)
  /\ \A m \in Appends : Contiguous(m.entries, m.prev_log_index)

(***************************************************************************)
(* Entries with the same index and term, in any two logs, hold the same    *)
(* command and stand on the same prefix: what the consistency check and    *)
(* the reconciliation of handle_append_entries are for.  Logs in storage   *)
(* count too, since a restart brings them back.                            *)
(***************************************************************************)
Logs == {log[i] : i \in Node} \cup {disk[i].log : i \in Node}

LogMatching ==
  \A l1, l2 \in Logs :
    \A k \in DOMAIN l1 \cap DOMAIN l2 :
      l1[k].term = l2[k].term => SubSeq(l1, 1, k) = SubSeq(l2, 1, k)

\* The first `n' entries of one log are entries of the other.
Holds(l, other, n) == n <= Len(l) /\ n <= Len(other)
                        /\ SubSeq(l, 1, n) = SubSeq(other, 1, n)

(***************************************************************************)
(* Unless a success reply acknowledged a foreign suffix: everything a node *)
(* has committed is in the storage of a quorum, and stays there whatever   *)
(* leader comes next.                                                      *)
(***************************************************************************)
CommittedOnQuorum ==
  ~ stale_ack =>
    \A i \in Node :
      Cardinality({j \in Node : Holds(log[i], disk[j].log, commit_index[i])})
        >= Quorum(i)

(***************************************************************************)
(* Under the same condition, a leader's log holds all that any node of its *)
(* own or an earlier term has committed: candidate_log_up_to_date against  *)
(* the commit rule of try_advance_commit_index.                            *)
(***************************************************************************)
LeaderCompleteness ==
  ~ stale_ack =>
    \A i, j \in Node :
      role[j] = "Leader" /\ current_term[j] >= current_term[i]
      => Holds(log[i], log[j], commit_index[i])

(***************************************************************************)
(* Under the same condition, what a state machine was fed is exactly the   *)
(* committed prefix of the node's present log (no command skipped by       *)
(* apply_committed_entries, none applied and then overwritten), and no two *)
(* state machines were fed different commands at the same place.           *)
(***************************************************************************)
StateMachineSafety ==
  ~ stale_ack =>
    /\ \A i \in Node :
         /\ Len(applied[i]) = commit_index[i]
         /\ commit_index[i] <= Len(log[i])
         /\ \A k \in DOMAIN applied[i] : applied[i][k] = log[i][k].command
    /\ \A i, j \in Node :
         \A k \in DOMAIN applied[i] \cap DOMAIN applied[j] :
           applied[i][k] = applied[j][k]

(***************************************************************************)
(* Under the same condition, a running node's commit index never moves     *)
(* back, although AppendEntries may arrive late, twice or out of order and *)
(* handle_append_entries takes the minimum of leader_commit and the last   *)
(* index of the message.                                                   *)
(***************************************************************************)
CommitNeverRegresses ==
  [][\A i \in Node : ~ stale_ack' /\ commit_index'[i] < commit_index[i]
                     => Restart(i)]_vars

(***************************************************************************)
(* A leader only ever extends its log, until it steps down or restarts.    *)
(***************************************************************************)
LeaderAppendOnly ==
  [][\A i \in Node :
       role[i] = "Leader" /\ role'[i] = "Leader"
       => Holds(log[i], log'[i], Len(log[i]))]_vars

(***************************************************************************)
(* An entry of a leader's own term is committed, unless the leader is      *)
(* deposed: heartbeat, acceptance by a quorum, acknowledgement and the     *)
(* rule of try_advance_commit_index follow each other to the end.          *)
(***************************************************************************)
StableLeaderCommits ==
  \A i \in Node, n \in 1 .. MaxLogLen :
    /\ role[i] = "Leader"
    /\ n \in DOMAIN log[i]
    /\ log[i][n].term = current_term[i]
    ~> commit_index[i] >= n \/ role[i] # "Leader"

(***************************************************************************)
(* Every entry of a leader, of whatever term, reaches every follower,      *)
(* unless the leader is deposed: a follower that is behind refuses,        *)
(* next_index moves back until the consistency check passes, and the rest  *)
(* follows (Backoff and AcceptAppend).                                     *)
(***************************************************************************)
StableLeaderReplicates ==
  \A i \in Node : \A p \in Peers(i), n \in 1 .. MaxLogLen :
    role[i] = "Leader" /\ n \in DOMAIN log[i]
    ~> Holds(log[i], log[p], n) \/ role[i] # "Leader"

(***************************************************************************)
(* The comment in handle_append_entries_response: "the peer has appended   *)
(* everything up to msg.match_index".  For a peer still in the leader's    *)
(* term, its log holds the leader's entries up to its match index.         *)
(***************************************************************************)
MatchIndexSound ==
  \A i, p \in Node :
    /\ role[i] = "Leader"
    /\ p # i
    /\ current_term[p] = current_term[i]
    => \A k \in DOMAIN log[i] :
         k <= match_index[i][p] => Holds(log[i], log[p], k)
=============================================================================
