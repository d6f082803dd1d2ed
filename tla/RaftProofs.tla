----------------------------- MODULE RaftProofs -----------------------------
(***************************************************************************)
(* Types and elections.                                                    *)
(*                                                                         *)
(* First, Raft keeps its types and its logs contiguous, for every cluster, *)
(* every outcome of a save and every bound.  The two facts hold together   *)
(* or not at all: what apply_committed_entries hands over has a type only  *)
(* if the log has no gap, and a log stays without gaps only if messages    *)
(* are well-formed.                                                        *)
(*                                                                         *)
(* Then, at most one leader per term, when saves succeed                   *)
(* (FilePersistence), for every cluster and with any number of crashes.    *)
(* VoteStep says what a turn of a node may do to votes and leadership, and *)
(* nothing about logs; every action of Raft is a VoteStep or a restart.    *)
(* ElectionInv is then shown to survive both, and two elected nodes of one *)
(* term to be the same.                                                    *)
(***************************************************************************)
EXTENDS Raft, RaftLogProofs

TypeInv == TypeOK /\ LogContiguous

(***************************************************************************)
(* The kind of a message is in its type field.                             *)
(***************************************************************************)
LEMMA MessageKinds ==
  ASSUME NEW m \in Message
  PROVE  /\ m.from \in Node /\ m.to \in Node /\ m.term \in Nat
         /\ m.type = "RequestVote" => m \in RequestVote
         /\ m.type = "RequestVoteResponse" => m \in RequestVoteResponse
         /\ m.type = "AppendEntries" => m \in AppendEntries
         /\ m.type = "AppendEntriesResponse" => m \in AppendEntriesResponse
BY DEF Message, RequestVote, RequestVoteResponse, AppendEntries,
       AppendEntriesResponse

(***************************************************************************)
(* The initial state.                                                      *)
(***************************************************************************)
LEMMA InitTypeInv == Init => TypeInv
<1> SUFFICES ASSUME Init PROVE TypeInv
  OBVIOUS
<1>1. << >> \in Seq(LogEntry) /\ << >> \in Seq(Command)
  OBVIOUS
<1>2. disk \in [Node -> PersistentState]
  <2>1. [current_term |-> 0, voted_for |-> None, log |-> << >>]
          \in PersistentState
    BY <1>1 DEF PersistentState
  <2> QED BY <2>1 DEF Init
<1>3. log \in [Node -> Seq(LogEntry)] /\ applied \in [Node -> Seq(Command)]
  BY <1>1 DEF Init
<1>4. /\ next_index \in [Node -> [Node -> Nat \ {0}]]
      /\ match_index \in [Node -> [Node -> Nat]]
      /\ votes_received \in [Node -> SUBSET Node]
      /\ votes_granted \in [Node -> SUBSET Node]
  BY DEF Init
<1>5. TypeOK
  BY <1>2, <1>3, <1>4 DEF Init, TypeOK, Role
<1>6. LogContiguous
  BY DEF Init, LogContiguous, Contiguous, Appends
<1> QED BY <1>5, <1>6 DEF TypeInv

(***************************************************************************)
(* A save keeps storage well-typed and its log contiguous, if the node's   *)
(* own state is.                                                           *)
(***************************************************************************)
LEMMA PersistTypeInv ==
  ASSUME TypeInv, NEW i \in Node, PersistState(i),
         current_term'[i] \in Nat, voted_for'[i] \in Node \cup {None},
         log'[i] \in Seq(LogEntry), Contiguous(log'[i], 0)
  PROVE  /\ disk' \in [Node -> PersistentState]
         /\ \A j \in Node : Contiguous(disk'[j].log, 0)
<1> DEFINE saved == [current_term |-> current_term'[i],
                     voted_for |-> voted_for'[i], log |-> log'[i]]
<1>1. saved \in PersistentState /\ saved.log = log'[i]
  BY DEF PersistentState
<1>2. disk \in [Node -> PersistentState]
      /\ \A j \in Node : Contiguous(disk[j].log, 0)
  BY DEF TypeInv, TypeOK, LogContiguous
<1>3. disk' = disk \/ disk' = [disk EXCEPT ![i] = saved]
  BY DEF PersistState
<1> HIDE DEF saved
<1> QED BY <1>1, <1>2, <1>3

(***************************************************************************)
(* Sending well-formed messages keeps the network well-formed.             *)
(***************************************************************************)
LEMMA SendTypeInv ==
  ASSUME TypeInv, NEW ms, Send(ms), ms \subseteq Message,
         \A m \in ms : m.type = "AppendEntries"
                         => Contiguous(m.entries, m.prev_log_index)
  PROVE  /\ messages' \subseteq Message
         /\ \A m \in Appends' : Contiguous(m.entries, m.prev_log_index)
BY DEF TypeInv, TypeOK, LogContiguous, Appends, Send

(***************************************************************************)
(* The replies are messages.                                               *)
(***************************************************************************)
LEMMA ReplyTypes ==
  ASSUME NEW i \in Node, NEW p \in Node, current_term'[i] \in Nat,
         log'[i] \in Seq(LogEntry), NEW b \in BOOLEAN
  PROVE  /\ vote_response(i, p, b) \in RequestVoteResponse
         /\ append_entries_response(i, p, b) \in AppendEntriesResponse
         /\ vote_response(i, p, b).type # "AppendEntries"
         /\ append_entries_response(i, p, b).type # "AppendEntries"
<1>1. last_log_index(log'[i]) \in Nat
  BY LastEntry DEF LogEntry
<1> QED BY <1>1 DEF vote_response, append_entries_response,
                    RequestVoteResponse, AppendEntriesResponse

(***************************************************************************)
(* What clearing the candidate or leader state, and entering a term, leave.*)
(***************************************************************************)
LEMMA EnterTermTypes ==
  ASSUME TypeOK, NEW i \in Node, NEW term \in Nat, EnterTerm(i, term)
  PROVE  /\ current_term' \in [Node -> Nat]
         /\ current_term'[i] = term
         /\ role' \in [Node -> Role]
         /\ votes_received' \in [Node -> SUBSET Node]
         /\ votes_granted' \in [Node -> SUBSET Node]
         /\ next_index' \in [Node -> [Node -> Nat \ {0}]]
         /\ match_index' \in [Node -> [Node -> Nat]]
BY SMTT(60) DEF TypeOK, EnterTerm, ClearCandidateState, ClearLeaderState, Role

\* become_leader fills next_index and match_index for every peer.
LEMMA BecomeLeaderTypes ==
  ASSUME TypeOK, NEW i \in Node, become_leader(i)
  PROVE  /\ role' \in [Node -> Role]
         /\ known_leader' \in [Node -> Node \cup {None}]
         /\ votes_received' \in [Node -> SUBSET Node]
         /\ votes_granted' \in [Node -> SUBSET Node]
         /\ next_index' \in [Node -> [Node -> Nat \ {0}]]
         /\ match_index' \in [Node -> [Node -> Nat]]
<1> DEFINE next == [p \in Node |-> last_log_index(log[i]) + 1]
<1>1. last_log_index(log[i]) \in Nat
  BY LastEntry DEF TypeOK, LogEntry
<1>2. next \in [Node -> Nat \ {0}]
  BY <1>1
<1>3. next_index' = [next_index EXCEPT ![i] = next]
  BY DEF become_leader
<1> HIDE DEF next
<1>4. next_index' \in [Node -> [Node -> Nat \ {0}]]
  BY <1>2, <1>3 DEF TypeOK
<1> QED BY <1>4 DEF TypeOK, become_leader, ClearCandidateState, Role

(***************************************************************************)
(* Applying keeps the state machine's input a sequence of commands.        *)
(***************************************************************************)
LEMMA CommitAndApplyTypes ==
  ASSUME TypeOK, NEW i \in Node, NEW l \in Seq(LogEntry), Contiguous(l, 0),
         NEW commit \in Nat, CommitAndApply(i, l, commit)
  PROVE  /\ commit_index' \in [Node -> Nat]
         /\ last_applied' \in [Node -> Nat]
         /\ applied' \in [Node -> Seq(Command)]
<1> DEFINE new == CommandsToApply(l, last_applied[i], commit)
<1>1. new \in Seq(Command)
  BY CommandsToApplyType DEF TypeOK, LogEntry
<1>2. applied[i] \o new \in Seq(Command)
  BY <1>1 DEF TypeOK
<1> HIDE DEF new
<1>3. applied' = [applied EXCEPT ![i] = applied[i] \o new]
  BY DEF CommitAndApply, new
<1>4. applied' \in [Node -> Seq(Command)]
  BY <1>2, <1>3, ZenonT(60) DEF TypeOK
<1> QED BY <1>4, SMTT(60) DEF TypeOK, CommitAndApply

----------------------------------------------------------------------------
(* Every action preserves TypeInv.                                         *)

\* start_election, alone or with peers to ask.
LEMMA ElectionTimeoutTypeInv ==
  ASSUME TypeInv, NEW i \in Node, Campaign(i) \/ LeadAlone(i)
  PROVE  TypeInv'
<1> USE DEF TypeInv
<1>1. BecomeCandidate(i)
  BY DEF Campaign, LeadAlone
<1>2. /\ current_term' \in [Node -> Nat]
      /\ voted_for' \in [Node -> Node \cup {None}]
      /\ log' = log
  BY <1>1 DEF BecomeCandidate, TypeOK
<1>3. last_log_index(log[i]) \in Nat /\ last_log_term(log[i]) \in Nat
  BY LastEntry DEF TypeOK, LogEntry
<1>4. /\ role' \in [Node -> Role]
      /\ known_leader' \in [Node -> Node \cup {None}]
      /\ votes_received' \in [Node -> SUBSET Node]
      /\ votes_granted' \in [Node -> SUBSET Node]
      /\ next_index' \in [Node -> [Node -> Nat \ {0}]]
      /\ match_index' \in [Node -> [Node -> Nat]]
  <2>1. CASE Campaign(i)
    BY <2>1, SMTT(60) DEF Campaign, TypeOK, ClearLeaderState, Role
  <2>2. CASE LeadAlone(i)
    BY <2>2, BecomeLeaderTypes DEF LeadAlone
  <2> QED BY <2>1, <2>2
<1>5. /\ disk' \in [Node -> PersistentState]
      /\ \A j \in Node : Contiguous(disk'[j].log, 0)
  <2>1. PersistState(i)
    BY DEF Campaign, LeadAlone
  <2>2. log'[i] \in Seq(LogEntry) /\ Contiguous(log'[i], 0)
    BY <1>2 DEF TypeOK, LogContiguous
  <2> QED BY <2>1, <2>2, <1>2, PersistTypeInv
<1>6. /\ messages' \subseteq Message
      /\ \A m \in Appends' : Contiguous(m.entries, m.prev_log_index)
  <2>1. CASE Campaign(i)
    <3> DEFINE ms == {VoteRequest(i, p, current_term[i] + 1) : p \in Peers(i)}
    <3>1. Send(ms)
      BY <2>1 DEF Campaign
    <3>2. \A p \in Peers(i) : VoteRequest(i, p, current_term[i] + 1) \in RequestVote
      <4>1. current_term[i] + 1 \in Nat
        BY DEF TypeOK
      <4>2. ASSUME NEW p \in Node
            PROVE  VoteRequest(i, p, current_term[i] + 1) \in RequestVote
        <5> HIDE DEF TypeInv
        <5> QED BY <1>3, <4>1, <4>2, SMTT(60) DEF VoteRequest, RequestVote
      <4> QED BY <4>2, Zenon DEF Peers
    <3>3. ms \subseteq Message /\ \A m \in ms : m.type # "AppendEntries"
      BY <3>2 DEF Message, RequestVote
    <3> HIDE DEF ms
    <3> QED BY <3>1, <3>3, SendTypeInv
  <2>2. CASE LeadAlone(i)
    BY <2>2 DEF LeadAlone, TypeOK, LogContiguous, Appends
  <2> QED BY <2>1, <2>2
<1>7. TypeOK'
  BY <1>1, <1>2, <1>4, <1>5, <1>6 DEF TypeOK, BecomeCandidate, volatileVars
<1>8. LogContiguous'
  BY <1>2, <1>5, <1>6 DEF LogContiguous
<1> QED BY <1>7, <1>8

\* handle_request_vote, refused.
LEMMA RejectVoteTypeInv ==
  ASSUME TypeInv, NEW i \in Node, NEW m \in messages, RejectVote(i, m)
  PROVE  TypeInv'
<1> USE DEF TypeInv
<1>1. m.from \in Node /\ m.term \in Nat
  BY MessageKinds DEF TypeOK
<1>2. /\ current_term' \in [Node -> Nat]
      /\ voted_for' \in [Node -> Node \cup {None}]
      /\ known_leader' \in [Node -> Node \cup {None}]
      /\ role' \in [Node -> Role]
      /\ votes_received' \in [Node -> SUBSET Node]
      /\ votes_granted' \in [Node -> SUBSET Node]
      /\ next_index' \in [Node -> [Node -> Nat \ {0}]]
      /\ match_index' \in [Node -> [Node -> Nat]]
  <2>1. StepDownIfNewer(i, m.term)
    BY DEF RejectVote
  <2>2. CASE m.term > current_term[i]
    <3>1. step_down(i, m.term)
      BY <2>1, <2>2 DEF StepDownIfNewer
    <3> QED BY <3>1, <1>1, EnterTermTypes DEF step_down, TypeOK
  <2>3. CASE ~ (m.term > current_term[i])
    BY <2>1, <2>3 DEF StepDownIfNewer, TypeOK, candidateVars, leaderVars
  <2> QED BY <2>2, <2>3
<1>3. UNCHANGED <<log, commit_index, last_applied, applied, disk, restarts, stale_ack>>
  BY DEF RejectVote, volatileVars
<1>4. /\ messages' \subseteq Message
      /\ \A n \in Appends' : Contiguous(n.entries, n.prev_log_index)
  <2>1. Send({vote_response(i, m.from, FALSE)})
    BY DEF RejectVote
  <2>2. /\ vote_response(i, m.from, FALSE) \in Message
        /\ vote_response(i, m.from, FALSE).type # "AppendEntries"
    BY <1>1, <1>2, <1>3, ReplyTypes DEF Message, TypeOK
  <2> QED BY <2>1, <2>2, SendTypeInv
<1>5. TypeOK'
  BY <1>2, <1>3, <1>4 DEF TypeOK
<1>6. LogContiguous'
  BY <1>3, <1>4 DEF LogContiguous
<1> QED BY <1>5, <1>6

\* handle_request_vote, granted.
LEMMA GrantVoteTypeInv ==
  ASSUME TypeInv, NEW i \in Node, NEW m \in messages, GrantVote(i, m)
  PROVE  TypeInv'
<1> USE DEF TypeInv
<1>1. m.from \in Node /\ m.term \in Nat
  BY MessageKinds DEF TypeOK
<1>2. /\ current_term' \in [Node -> Nat]
      /\ role' \in [Node -> Role]
      /\ votes_received' \in [Node -> SUBSET Node]
      /\ votes_granted' \in [Node -> SUBSET Node]
      /\ next_index' \in [Node -> [Node -> Nat \ {0}]]
      /\ match_index' \in [Node -> [Node -> Nat]]
  <2>1. CASE m.term > current_term[i]
    <3>1. EnterTerm(i, m.term)
      BY <2>1 DEF GrantVote
    <3> QED BY <3>1, <1>1, EnterTermTypes
  <2>2. CASE ~ (m.term > current_term[i])
    BY <2>2 DEF GrantVote, TypeOK, candidateVars, leaderVars
  <2> QED BY <2>1, <2>2
<1>3. /\ voted_for' \in [Node -> Node \cup {None}]
      /\ known_leader' \in [Node -> Node \cup {None}]
  BY <1>1, ZenonT(60) DEF GrantVote, LeaderAt, TypeOK
<1>4. UNCHANGED <<log, commit_index, last_applied, applied, restarts, stale_ack>>
  BY DEF GrantVote, volatileVars
<1>5. /\ disk' \in [Node -> PersistentState]
      /\ \A j \in Node : Contiguous(disk'[j].log, 0)
  <2>1. PersistState(i)
    BY DEF GrantVote
  <2>2. log'[i] \in Seq(LogEntry) /\ Contiguous(log'[i], 0)
    BY <1>4 DEF TypeOK, LogContiguous
  <2> QED BY <2>1, <2>2, <1>2, <1>3, PersistTypeInv
<1>6. /\ messages' \subseteq Message
      /\ \A n \in Appends' : Contiguous(n.entries, n.prev_log_index)
  <2>1. Send({vote_response(i, m.from, TRUE)})
    BY DEF GrantVote
  <2>2. /\ vote_response(i, m.from, TRUE) \in Message
        /\ vote_response(i, m.from, TRUE).type # "AppendEntries"
    BY <1>1, <1>2, <1>4, ReplyTypes DEF Message, TypeOK
  <2> QED BY <2>1, <2>2, SendTypeInv
<1>7. TypeOK'
  BY <1>2, <1>3, <1>4, <1>5, <1>6 DEF TypeOK
<1>8. LogContiguous'
  BY <1>4, <1>5, <1>6 DEF LogContiguous
<1> QED BY <1>7, <1>8

\* A reply of a higher term.
LEMMA StepDownOnReplyTypeInv ==
  ASSUME TypeInv, NEW i \in Node, NEW m \in messages, StepDownOnReply(i, m)
  PROVE  TypeInv'
<1> USE DEF TypeInv
<1>1. m.term \in Nat /\ step_down(i, m.term)
  BY MessageKinds DEF TypeOK, StepDownOnReply
<1>2. UNCHANGED <<log, commit_index, last_applied, applied, disk, messages,
                  restarts, stale_ack>>
  BY DEF StepDownOnReply, volatileVars
<1>3. TypeOK'
  BY <1>1, <1>2, EnterTermTypes DEF TypeOK, step_down
<1>4. LogContiguous'
  BY <1>2 DEF LogContiguous, Appends
<1> QED BY <1>3, <1>4

\* handle_vote_reply, below quorum and at it.
LEMMA VoteCountTypeInv ==
  ASSUME TypeInv, NEW i \in Node, NEW m \in messages,
         CountVote(i, m) \/ WinElection(i, m)
  PROVE  TypeInv'
<1> USE DEF TypeInv
<1>1. m.from \in Node
  BY MessageKinds DEF TypeOK
<1>3. UNCHANGED <<current_term, voted_for, log, commit_index, last_applied,
                  applied, disk, messages, restarts, stale_ack>>
  BY DEF CountVote, WinElection, persistentVars, volatileVars
<1>4. /\ role' \in [Node -> Role]
      /\ known_leader' \in [Node -> Node \cup {None}]
      /\ votes_received' \in [Node -> SUBSET Node]
      /\ votes_granted' \in [Node -> SUBSET Node]
      /\ next_index' \in [Node -> [Node -> Nat \ {0}]]
      /\ match_index' \in [Node -> [Node -> Nat]]
  <2>1. CASE CountVote(i, m)
    BY <2>1, <1>1, ZenonT(90) DEF CountVote, GrantedAfter, TypeOK, leaderVars
  <2>2. CASE WinElection(i, m)
    BY <2>2, BecomeLeaderTypes DEF WinElection
  <2> QED BY <2>1, <2>2
<1>5. TypeOK'
  BY <1>3, <1>4 DEF TypeOK
<1>6. LogContiguous'
  BY <1>3 DEF LogContiguous, Appends
<1> QED BY <1>5, <1>6

\* handle_heartbeat_timeout sends well-formed AppendEntries.
LEMMA HeartbeatTypeInv ==
  ASSUME TypeInv, NEW i \in Node, HeartbeatTimeout(i)
  PROVE  TypeInv'
<1> USE DEF TypeInv
<1> DEFINE ms == {AppendEntriesFor(i, p) : p \in Peers(i)}
<1>1. Send(ms) /\ UNCHANGED <<nodeVars, disk, restarts, stale_ack>>
  BY DEF HeartbeatTimeout
<1>2. ASSUME NEW p \in Peers(i)
      PROVE  /\ AppendEntriesFor(i, p) \in AppendEntries
             /\ Contiguous(AppendEntriesFor(i, p).entries,
                           AppendEntriesFor(i, p).prev_log_index)
  <2> DEFINE next == next_index[i][p]
  <2>1. p \in Node /\ next \in Nat \ {0}
    BY DEF Peers, TypeOK
  <2>2. /\ EntriesFrom(log[i], next) \in Seq(LogEntry)
        /\ Contiguous(EntriesFrom(log[i], next), PrevLogIndex(next))
        /\ PrevLogIndex(next) \in Nat
        /\ PrevLogTerm(log[i], next) \in Nat
    <3>1. log[i] \in Seq(LogEntryOf(Command)) /\ Contiguous(log[i], 0)
      BY DEF TypeOK, LogEntry, LogContiguous
    <3> HIDE DEF next
    <3> QED BY <2>1, <3>1, EntriesFromContinue DEF LogEntry
  <2>3. current_term[i] \in Nat /\ commit_index[i] \in Nat
    BY DEF TypeOK
  <2> QED BY <2>1, <2>2, <2>3 DEF AppendEntriesFor, AppendEntries
<1>3. ms \subseteq Message /\ \A m \in ms : Contiguous(m.entries, m.prev_log_index)
  BY <1>2 DEF Message
<1> HIDE DEF ms
<1>4. /\ messages' \subseteq Message
      /\ \A m \in Appends' : Contiguous(m.entries, m.prev_log_index)
  BY <1>1, <1>3, SendTypeInv
<1>5. TypeOK'
  BY <1>1, <1>4 DEF TypeOK, nodeVars, persistentVars, volatileVars,
                    candidateVars, leaderVars
<1>6. LogContiguous'
  BY <1>1, <1>4 DEF LogContiguous, nodeVars, persistentVars
<1> QED BY <1>5, <1>6

\* handle_client_request appends the next index.
LEMMA ClientRequestTypeInv ==
  ASSUME TypeInv, NEW i \in Node, NEW command \in Command,
         ClientRequest(i, command)
  PROVE  TypeInv'
<1> USE DEF TypeInv
<1> DEFINE entry == [term    |-> current_term[i],
                     index   |-> last_log_index(log[i]) + 1,
                     command |-> command]
<1>1. log[i] \in Seq(LogEntry) /\ Contiguous(log[i], 0)
  BY DEF TypeOK, LogContiguous
<1>2. last_log_index(log[i]) = Len(log[i]) /\ Len(log[i]) \in Nat
  BY <1>1, LastEntry DEF LogEntry
<1>3. entry \in LogEntry /\ entry.index = Len(log[i]) + 1
  BY <1>2 DEF LogEntry, LogEntryOf, TypeOK
<1>4. log' = [log EXCEPT ![i] = Append(log[i], entry)]
  BY DEF ClientRequest
<1> HIDE DEF entry
<1>5. Append(log[i], entry) \in Seq(LogEntry)
      /\ Contiguous(Append(log[i], entry), 0)
  BY <1>1, <1>2, <1>3, AppendProperties DEF Contiguous
<1>6. /\ log' \in [Node -> Seq(LogEntry)]
      /\ \A j \in Node : Contiguous(log'[j], 0)
  BY <1>4, <1>5 DEF TypeOK, LogContiguous
<1>7. /\ commit_index' \in [Node -> Nat]
      /\ last_applied' \in [Node -> Nat]
      /\ applied' \in [Node -> Seq(Command)]
  <2>1. CASE Peers(i) = {}
    <3> DEFINE commit == LeaderCommit(log'[i], current_term[i],
                           commit_index[i], match_index[i], Peers(i))
    <3>1. CommitAndApply(i, log'[i], commit)
      BY <2>1 DEF ClientRequest
    <3>2. commit \in Nat
      BY <1>6, CommitIndexType DEF TypeOK, LogEntry
    <3> HIDE DEF commit
    <3> QED BY <3>1, <3>2, <1>6, CommitAndApplyTypes
  <2>2. CASE Peers(i) # {}
    BY <2>2 DEF ClientRequest, volatileVars, TypeOK
  <2> QED BY <2>1, <2>2
<1>8. UNCHANGED <<role, known_leader, current_term, voted_for, votes_received,
                  votes_granted, next_index, match_index, messages, restarts,
                  stale_ack>>
  BY DEF ClientRequest, candidateVars, leaderVars
<1>9. /\ disk' \in [Node -> PersistentState]
      /\ \A j \in Node : Contiguous(disk'[j].log, 0)
  <2>1. PersistState(i)
    BY DEF ClientRequest
  <2>2. current_term'[i] \in Nat /\ voted_for'[i] \in Node \cup {None}
    BY <1>8 DEF TypeOK
  <2> QED BY <2>1, <2>2, <1>6, PersistTypeInv
<1>10. TypeOK'
  BY <1>6, <1>7, <1>8, <1>9 DEF TypeOK
<1>11. LogContiguous'
  BY <1>6, <1>8, <1>9 DEF LogContiguous, Appends
<1> QED BY <1>10, <1>11

\* What every AppendEntries of a current term does first.
LEMMA FollowTermTypes ==
  ASSUME TypeOK, NEW i \in Node, NEW term \in Nat, FollowTerm(i, term)
  PROVE  /\ current_term' \in [Node -> Nat]
         /\ voted_for' \in [Node -> Node \cup {None}]
         /\ role' \in [Node -> Role]
         /\ votes_received' \in [Node -> SUBSET Node]
         /\ votes_granted' \in [Node -> SUBSET Node]
         /\ next_index' \in [Node -> [Node -> Nat \ {0}]]
         /\ match_index' \in [Node -> [Node -> Nat]]
<1>1. voted_for' \in [Node -> Node \cup {None}]
  BY DEF FollowTerm, VotedAt, TypeOK
<1>2. CASE term > current_term[i]
  <2>1. EnterTerm(i, term)
    BY <1>2 DEF FollowTerm
  <2> QED BY <1>1, <2>1, EnterTermTypes
<1>3. CASE ~ (term > current_term[i])
  BY <1>1, <1>3, ZenonT(90) DEF FollowTerm, TypeOK, ClearCandidateState, candidateVars,
                    leaderVars, Role
<1> QED BY <1>2, <1>3

\* handle_append_entries, stale or without the previous entry.
LEMMA RejectAppendTypeInv ==
  ASSUME TypeInv, NEW i \in Node, NEW m \in messages,
         RejectStaleAppend(i, m) \/ RejectMismatch(i, m)
  PROVE  TypeInv'
<1> USE DEF TypeInv
<1>1. m.from \in Node /\ m.term \in Nat
  BY MessageKinds DEF TypeOK
<1>2. UNCHANGED <<log, commit_index, last_applied, applied, disk, restarts,
                  stale_ack>>
  BY DEF RejectStaleAppend, RejectMismatch, nodeVars, persistentVars,
         volatileVars
<1>3. /\ current_term' \in [Node -> Nat]
      /\ voted_for' \in [Node -> Node \cup {None}]
      /\ known_leader' \in [Node -> Node \cup {None}]
      /\ role' \in [Node -> Role]
      /\ votes_received' \in [Node -> SUBSET Node]
      /\ votes_granted' \in [Node -> SUBSET Node]
      /\ next_index' \in [Node -> [Node -> Nat \ {0}]]
      /\ match_index' \in [Node -> [Node -> Nat]]
  <2>1. CASE RejectStaleAppend(i, m)
    BY <2>1 DEF RejectStaleAppend, nodeVars, persistentVars, candidateVars,
                leaderVars, TypeOK
  <2>2. CASE RejectMismatch(i, m)
    <3>1. known_leader' \in [Node -> Node \cup {None}]
      BY <2>2, ZenonT(60) DEF RejectMismatch, LeaderAt, TypeOK
    <3> QED BY <2>2, <3>1, <1>1, FollowTermTypes DEF RejectMismatch
  <2> QED BY <2>1, <2>2
<1>4. /\ messages' \subseteq Message
      /\ \A n \in Appends' : Contiguous(n.entries, n.prev_log_index)
  <2>1. Send({append_entries_response(i, m.from, FALSE)})
    BY DEF RejectStaleAppend, RejectMismatch
  <2>2. /\ append_entries_response(i, m.from, FALSE) \in Message
        /\ append_entries_response(i, m.from, FALSE).type # "AppendEntries"
    BY <1>1, <1>2, <1>3, ReplyTypes DEF Message, TypeOK
  <2> QED BY <2>1, <2>2, SendTypeInv
<1>5. TypeOK'
  BY <1>2, <1>3, <1>4 DEF TypeOK
<1>6. LogContiguous'
  BY <1>2, <1>4 DEF LogContiguous
<1> QED BY <1>5, <1>6

\* handle_append_entries, reconciling and applying.
LEMMA AcceptAppendTypeInv ==
  ASSUME TypeInv, NEW i \in Node, NEW m \in messages, AcceptAppend(i, m)
  PROVE  TypeInv'
<1> USE DEF TypeInv
<1>1. m.from \in Node /\ m.term \in Nat /\ m \in AppendEntries
  BY MessageKinds DEF TypeOK, AcceptAppend
<1>2. /\ m.prev_log_index \in Nat /\ m.leader_commit \in Nat
      /\ m.entries \in Seq(LogEntry)
      /\ Contiguous(m.entries, m.prev_log_index)
  BY <1>1 DEF AppendEntries, LogContiguous, Appends
<1>3. log[i] \in Seq(LogEntry) /\ Contiguous(log[i], 0)
  BY DEF TypeOK, LogContiguous
<1>4. m.prev_log_index <= Len(log[i])
  BY <1>2, <1>3, MatchedPrevExists DEF AcceptAppend, LogEntry
<1>5. /\ Reconcile(log[i], m.entries) \in Seq(LogEntry)
      /\ Contiguous(Reconcile(log[i], m.entries), 0)
  BY <1>2, <1>3, <1>4, ReconcileContiguous DEF LogEntry
<1>6. /\ log' \in [Node -> Seq(LogEntry)]
      /\ \A j \in Node : Contiguous(log'[j], 0)
  BY <1>5 DEF AcceptAppend, TypeOK, LogContiguous
<1>7. /\ commit_index' \in [Node -> Nat]
      /\ last_applied' \in [Node -> Nat]
      /\ applied' \in [Node -> Seq(Command)]
  <2> DEFINE commit == FollowerCommit(commit_index[i], m.leader_commit,
                         LastNewIndex(m.prev_log_index, m.entries))
  <2>1. CommitAndApply(i, log'[i], commit)
    BY DEF AcceptAppend
  <2>2. commit \in Nat
    BY <1>2, <1>3, CommitIndexType DEF TypeOK, LogEntry
  <2> HIDE DEF commit
  <2> QED BY <2>1, <2>2, <1>6, CommitAndApplyTypes
<1>8. /\ current_term' \in [Node -> Nat]
      /\ voted_for' \in [Node -> Node \cup {None}]
      /\ role' \in [Node -> Role]
      /\ votes_received' \in [Node -> SUBSET Node]
      /\ votes_granted' \in [Node -> SUBSET Node]
      /\ next_index' \in [Node -> [Node -> Nat \ {0}]]
      /\ match_index' \in [Node -> [Node -> Nat]]
  BY <1>1, FollowTermTypes DEF AcceptAppend
<1>9. /\ known_leader' \in [Node -> Node \cup {None}]
      /\ restarts' = restarts
      /\ stale_ack' \in BOOLEAN
  BY <1>1 DEF AcceptAppend, TypeOK
<1>10. /\ disk' \in [Node -> PersistentState]
       /\ \A j \in Node : Contiguous(disk'[j].log, 0)
  <2>1. PersistState(i)
    BY DEF AcceptAppend
  <2> QED BY <2>1, <1>6, <1>8, PersistTypeInv
<1>11. /\ messages' \subseteq Message
       /\ \A n \in Appends' : Contiguous(n.entries, n.prev_log_index)
  <2>1. Send({append_entries_response(i, m.from, TRUE)})
    BY DEF AcceptAppend
  <2>2. /\ append_entries_response(i, m.from, TRUE) \in Message
        /\ append_entries_response(i, m.from, TRUE).type # "AppendEntries"
    BY <1>1, <1>6, <1>8, ReplyTypes DEF Message
  <2> QED BY <2>1, <2>2, SendTypeInv
<1>12. TypeOK'
  BY <1>6, <1>7, <1>8, <1>9, <1>10, <1>11 DEF TypeOK
<1>13. LogContiguous'
  BY <1>6, <1>10, <1>11 DEF LogContiguous
<1> QED BY <1>12, <1>13

\* handle_append_reply, success and failure.
LEMMA AppendReplyTypeInv ==
  ASSUME TypeInv, NEW i \in Node, NEW m \in messages,
         Backoff(i, m) \/ Advance(i, m)
  PROVE  TypeInv'
<1> USE DEF TypeInv
<1>1. m.from \in Node /\ m \in AppendEntriesResponse
  BY MessageKinds DEF TypeOK, Backoff, Advance, CountsAppend
<1>2. m.match_index \in Nat
  BY <1>1 DEF AppendEntriesResponse
<1>3. UNCHANGED <<role, known_leader, current_term, voted_for, log,
                  votes_received, votes_granted, disk, messages, restarts,
                  stale_ack>>
  BY DEF Backoff, Advance, persistentVars, candidateVars
<1>4. /\ next_index' \in [Node -> [Node -> Nat \ {0}]]
      /\ match_index' \in [Node -> [Node -> Nat]]
  <2>1. /\ next_index \in [Node -> [Node -> Nat \ {0}]]
        /\ match_index \in [Node -> [Node -> Nat]]
    BY DEF TypeOK
  <2>2. CASE Backoff(i, m)
    <3>1. OneEarlier(next_index[i][m.from]) \in Nat \ {0}
      BY <2>1, <1>1 DEF OneEarlier
    <3> QED BY <2>1, <2>2, <3>1 DEF Backoff
  <2>3. CASE Advance(i, m)
    <3>1. m.match_index + 1 \in Nat \ {0}
      BY <1>2
    <3>2. CASE m.match_index > match_index[i][m.from]
      <4>1. /\ match_index' = [match_index EXCEPT ![i][m.from] = m.match_index]
            /\ next_index' = [next_index EXCEPT ![i][m.from] = m.match_index + 1]
        BY <2>3, <3>2 DEF Advance
      <4> QED BY <2>1, <4>1, <3>1, <1>2
    <3>3. CASE ~ (m.match_index > match_index[i][m.from])
      BY <2>1, <2>3, <3>3 DEF Advance, leaderVars
    <3> QED BY <3>2, <3>3
  <2> QED BY <2>2, <2>3
<1>5. /\ commit_index' \in [Node -> Nat]
      /\ last_applied' \in [Node -> Nat]
      /\ applied' \in [Node -> Seq(Command)]
  <2>1. CASE Backoff(i, m)
    BY <2>1 DEF Backoff, volatileVars, TypeOK
  <2>2. CASE Advance(i, m)
    <3> DEFINE commit == LeaderCommit(log[i], current_term[i],
                           commit_index[i], match_index'[i], Peers(i))
    <3>1. CommitAndApply(i, log[i], commit)
      BY <2>2 DEF Advance
    <3>2. log[i] \in Seq(LogEntry) /\ Contiguous(log[i], 0)
      BY DEF TypeOK, LogContiguous
    <3>3. commit \in Nat
      BY <3>2, CommitIndexType DEF TypeOK, LogEntry
    <3> HIDE DEF commit
    <3> QED BY <3>1, <3>2, <3>3, CommitAndApplyTypes
  <2> QED BY <2>1, <2>2
<1>6. TypeOK'
  BY <1>3, <1>4, <1>5 DEF TypeOK
<1>7. LogContiguous'
  BY <1>3 DEF LogContiguous, Appends
<1> QED BY <1>6, <1>7

\* restore from a stored state of the right type.
LEMMA RestartTypeInv ==
  ASSUME TypeInv, NEW i \in Node, Restart(i)
  PROVE  TypeInv'
<1> USE DEF TypeInv
<1>1. disk[i] \in PersistentState /\ Contiguous(disk[i].log, 0)
  BY DEF TypeOK, LogContiguous
<1>2. /\ disk[i].current_term \in Nat
      /\ disk[i].voted_for \in Node \cup {None}
      /\ disk[i].log \in Seq(LogEntry)
  BY <1>1 DEF PersistentState
<1>3. << >> \in Seq(Command)
  OBVIOUS
<1>4. /\ current_term' \in [Node -> Nat]
      /\ voted_for' \in [Node -> Node \cup {None}]
      /\ log' \in [Node -> Seq(LogEntry)]
      /\ applied' \in [Node -> Seq(Command)]
      /\ commit_index' \in [Node -> Nat]
      /\ last_applied' \in [Node -> Nat]
      /\ role' \in [Node -> Role]
      /\ known_leader' \in [Node -> Node \cup {None}]
  BY <1>2, <1>3 DEF Restart, TypeOK, Role
<1>5. /\ votes_received' \in [Node -> SUBSET Node]
      /\ votes_granted' \in [Node -> SUBSET Node]
      /\ next_index' \in [Node -> [Node -> Nat \ {0}]]
      /\ match_index' \in [Node -> [Node -> Nat]]
  BY DEF Restart, ClearCandidateState, ClearLeaderState, TypeOK
<1>6. TypeOK'
  <2>1. restarts' \in Nat /\ UNCHANGED <<disk, messages, stale_ack>>
    BY DEF Restart, TypeOK
  <2> QED BY <1>4, <1>5, <2>1 DEF TypeOK
<1>7. LogContiguous'
  BY <1>1 DEF Restart, LogContiguous, Appends, TypeOK
<1> QED BY <1>6, <1>7

----------------------------------------------------------------------------

(***************************************************************************)
(* The inductive step.                                                     *)
(***************************************************************************)
LEMMA NextTypeInv == TypeInv /\ [Next]_vars => TypeInv'
<1> SUFFICES ASSUME TypeInv, [Next]_vars PROVE TypeInv'
  OBVIOUS
<1>1. CASE UNCHANGED vars
  BY <1>1 DEF vars, nodeVars, persistentVars, volatileVars, candidateVars,
              leaderVars, TypeInv, TypeOK, LogContiguous, Appends
<1>2. ASSUME NEW i \in Node, Step(i) PROVE TypeInv'
  <2>1. CASE ElectionTimeout(i)
    BY <2>1, ElectionTimeoutTypeInv DEF ElectionTimeout
  <2>2. CASE HeartbeatTimeout(i)
    BY <2>2, HeartbeatTypeInv
  <2>3. CASE IgnoreTimeout(i)
    BY <2>3, <1>1 DEF IgnoreTimeout
  <2>4. CASE \E command \in Command : ClientRequest(i, command)
    BY <2>4, ClientRequestTypeInv
  <2>5. ASSUME NEW m \in messages, HandleMessage(i, m) PROVE TypeInv'
    BY <2>5, RejectVoteTypeInv, GrantVoteTypeInv, StepDownOnReplyTypeInv,
       VoteCountTypeInv, RejectAppendTypeInv, AcceptAppendTypeInv,
       AppendReplyTypeInv
       DEF HandleMessage
  <2>6. CASE Restart(i)
    BY <2>6, RestartTypeInv
  <2> QED BY <1>2, <2>1, <2>2, <2>3, <2>4, <2>5, <2>6 DEF Step
<1> QED BY <1>1, <1>2 DEF Next

(***************************************************************************)
(* Types and contiguous logs, whatever the cluster, the saves and the      *)
(* bounds.                                                                 *)
(***************************************************************************)
THEOREM TypeCorrect == Spec => []TypeInv
<1> QED BY InitTypeInv, NextTypeInv, PTL DEF Spec

(***************************************************************************)
(* The two parts, by name.                                                 *)
(***************************************************************************)
THEOREM TypeSafety == Spec => []TypeOK
<1>1. TypeInv => TypeOK
  BY DEF TypeInv
<1> QED BY <1>1, TypeCorrect, PTL

(***************************************************************************)
(* No log ever has a gap, in memory, in storage or in a message.           *)
(***************************************************************************)
THEOREM LogsStayContiguous == Spec => []LogContiguous
<1>1. TypeInv => LogContiguous
  BY DEF TypeInv
<1> QED BY <1>1, TypeCorrect, PTL

----------------------------------------------------------------------------
(* Elections                                                               *)

SavesSucceed == SaveResults = {TRUE}

\* The turn left the node's term and vote in storage.
Saved(i) == /\ disk'[i].current_term = current_term'[i]
            /\ disk'[i].voted_for = voted_for'[i]

\* What the turn of i leaves of the other nodes.
OthersKeep(i) ==
  \A j \in Node \ {i} :
    /\ role'[j] = role[j]
    /\ current_term'[j] = current_term[j]
    /\ voted_for'[j] = voted_for[j]
    /\ votes_granted'[j] = votes_granted[j]
    /\ disk'[j] = disk[j]

\* A vote is given once in a term, and a term is never left for an older one.
TermAndVote(i) ==
  \/ current_term'[i] > current_term[i]
  \/ current_term'[i] = current_term[i] /\ voted_for[i] \in {None, voted_for'[i]}

\* Storage gets the new term and vote, or is left alone; in the latter case
\* the turn gave no vote.
Storage(i) ==
  \/ Saved(i)
  \/ /\ disk'[i] = disk[i]
     /\ current_term'[i] > current_term[i] \/ voted_for'[i] = voted_for[i]

\* What i may send: votes that are in storage, and AppendEntries of a leader.
Sends(i) ==
  /\ messages \subseteq messages'
  /\ \A m \in messages' \ messages :
       /\ m.from = i
       /\ m.type = "RequestVoteResponse" /\ m.vote_granted =>
            Saved(i) /\ m.term = current_term'[i] /\ m.to = voted_for'[i]
       /\ m.type = "RequestVote" =>
            Saved(i) /\ m.term = current_term'[i] /\ i = voted_for'[i]
       /\ m.type = "AppendEntries" =>
            role[i] = "Leader" /\ m.term = current_term[i]

\* How one becomes or stays a candidate.
Candidacy(i) ==
  role'[i] = "Candidate" =>
    \/ /\ role[i] = "Candidate" /\ current_term'[i] = current_term[i]
       /\ \A v \in votes_granted'[i] :
            v \in votes_granted[i] \/ Cast(v, i, current_term[i])
    \/ /\ votes_granted'[i] = {i}
       /\ \E m \in messages' : /\ m.type = "RequestVote" /\ m.from = i
                               /\ m.term = current_term'[i]

\* How one becomes or stays leader.
Leadership(i) ==
  role'[i] = "Leader" =>
    /\ current_term'[i] = current_term[i]
    /\ \/ role[i] = "Leader"
       \/ /\ role[i] = "Candidate"
          /\ \E Q \in SUBSET Node :
               /\ Cardinality(Q) >= Quorum(i)
               /\ \A v \in Q :
                    v \in votes_granted[i] \/ Cast(v, i, current_term[i])

VoteStep(i) ==
  /\ OthersKeep(i)
  /\ TermAndVote(i)
  /\ Storage(i)
  /\ Sends(i)
  /\ Candidacy(i)
  /\ Leadership(i)

\* A crash: the node is what storage says.
RestartStep(i) ==
  /\ OthersKeep(i)
  /\ disk' = disk
  /\ messages' = messages
  /\ current_term'[i] = disk[i].current_term
  /\ voted_for'[i] = disk[i].voted_for
  /\ role'[i] = "Follower"

----------------------------------------------------------------------------
(* Every action is one of the two.                                         *)

(***************************************************************************)
(* With saves that succeed, PersistState leaves term and vote in storage.  *)
(***************************************************************************)
LEMMA PersistSaves ==
  ASSUME SavesSucceed, TypeOK, NEW i \in Node, PersistState(i)
  PROVE  Saved(i) /\ \A j \in Node \ {i} : disk'[j] = disk[j]
<1> DEFINE saved == [current_term |-> current_term'[i],
                     voted_for |-> voted_for'[i], log |-> log'[i]]
<1>1. disk' = [disk EXCEPT ![i] = saved]
  BY DEF PersistState, SavesSucceed
<1>2. /\ saved.current_term = current_term'[i]
      /\ saved.voted_for = voted_for'[i]
  OBVIOUS
<1>3. disk'[i] = saved /\ \A j \in Node \ {i} : disk'[j] = disk[j]
  <2> HIDE DEF saved
  <2> QED BY <1>1 DEF TypeOK
<1> HIDE DEF saved
<1> QED BY <1>2, <1>3 DEF Saved

\* start_election raises the term and votes for the node itself.
LEMMA CampaignVoteStep ==
  ASSUME SavesSucceed, TypeOK, NEW i \in Node, Campaign(i)
  PROVE  VoteStep(i)
<1>1. /\ current_term'[i] = current_term[i] + 1
      /\ voted_for'[i] = i
      /\ role'[i] = "Candidate"
      /\ votes_granted'[i] = {i}
      /\ \A j \in Node \ {i} :
           /\ role'[j] = role[j] /\ current_term'[j] = current_term[j]
           /\ voted_for'[j] = voted_for[j]
           /\ votes_granted'[j] = votes_granted[j]
  BY DEF Campaign, BecomeCandidate, TypeOK
<1>2. Saved(i) /\ \A j \in Node \ {i} : disk'[j] = disk[j]
  BY PersistSaves DEF Campaign
<1>3. /\ messages' =
           messages \cup {VoteRequest(i, p, current_term[i] + 1) : p \in Peers(i)}
      /\ Peers(i) # {}
  BY DEF Campaign, Send
<1>4. \A p \in Peers(i) :
        LET m == VoteRequest(i, p, current_term[i] + 1)
        IN  m.from = i /\ m.type = "RequestVote" /\ m.term = current_term[i] + 1
  BY DEF VoteRequest
<1>5. Sends(i)
  BY <1>1, <1>2, <1>3, <1>4 DEF Sends
<1>6. Candidacy(i)
  BY <1>1, <1>3, <1>4 DEF Candidacy
<1> QED BY <1>1, <1>2, <1>5, <1>6
        DEF VoteStep, OthersKeep, TermAndVote, Storage, Leadership, TypeOK

(***************************************************************************)
(* What entering a newer term does to votes: none are given or kept.       *)
(***************************************************************************)
LEMMA EnterTermVotes ==
  ASSUME TypeOK, NEW i \in Node, NEW term, EnterTerm(i, term)
  PROVE  /\ current_term'[i] = term /\ role'[i] = "Follower"
         /\ \A j \in Node \ {i} :
              /\ role'[j] = role[j] /\ current_term'[j] = current_term[j]
              /\ votes_granted'[j] = votes_granted[j]
BY DEF EnterTerm, ClearCandidateState, TypeOK

\* A refused RequestVote may raise the term and casts nothing.
LEMMA RejectVoteStep ==
  ASSUME TypeOK, NEW i \in Node, NEW m \in messages, RejectVote(i, m)
  PROVE  VoteStep(i)
<1>1. StepDownIfNewer(i, m.term) /\ disk' = disk
      /\ messages' = messages \cup {vote_response(i, m.from, FALSE)}
  BY DEF RejectVote, Send
<1>2. /\ vote_response(i, m.from, FALSE).from = i
      /\ vote_response(i, m.from, FALSE).type = "RequestVoteResponse"
      /\ vote_response(i, m.from, FALSE).vote_granted = FALSE
  BY DEF vote_response
<1>3. Sends(i)
  BY <1>1, <1>2 DEF Sends
<1>4. CASE m.term > current_term[i]
  <2>1. step_down(i, m.term)
    BY <1>1, <1>4 DEF StepDownIfNewer
  <2>2. \A j \in Node \ {i} : voted_for'[j] = voted_for[j]
    BY <2>1 DEF step_down, TypeOK
  <2> QED BY <2>1, <2>2, <1>1, <1>3, <1>4, EnterTermVotes, ZenonT(90)
          DEF step_down, VoteStep, OthersKeep, TermAndVote, Storage, Candidacy,
              Leadership
<1>5. CASE ~ (m.term > current_term[i])
  <2>1. UNCHANGED <<role, current_term, voted_for, votes_granted>>
    BY <1>1, <1>5 DEF StepDownIfNewer, candidateVars
  <2> QED BY <2>1, <1>1, <1>3
          DEF VoteStep, OthersKeep, TermAndVote, Storage, Candidacy, Leadership
<1> QED BY <1>4, <1>5

\* A granted RequestVote casts the first vote of its term.
LEMMA GrantVoteStep ==
  ASSUME SavesSucceed, TypeOK, NEW i \in Node, NEW m \in messages,
         GrantVote(i, m)
  PROVE  VoteStep(i)
<1>1. /\ m.term \in Nat /\ m.from \in Node /\ m.term >= current_term[i]
      /\ current_term[i] \in Nat
  BY MessageKinds DEF TypeOK, GrantVote
<1>2. /\ voted_for'[i] = m.from
      /\ \A j \in Node \ {i} : voted_for'[j] = voted_for[j]
      /\ VotedAt(i, m.term) \in {None, m.from}
  BY DEF GrantVote, MayGrant, TypeOK
<1>3. Saved(i) /\ \A j \in Node \ {i} : disk'[j] = disk[j]
  BY PersistSaves DEF GrantVote
<1>4. current_term'[i] = m.term
      /\ \A j \in Node \ {i} :
           /\ role'[j] = role[j] /\ current_term'[j] = current_term[j]
           /\ votes_granted'[j] = votes_granted[j]
  <2>1. CASE m.term > current_term[i]
    <3>1. EnterTerm(i, m.term)
      BY <2>1 DEF GrantVote
    <3> QED BY <3>1, EnterTermVotes
  <2>2. CASE ~ (m.term > current_term[i])
    <3>1. UNCHANGED <<role, current_term, votes_granted>>
      BY <2>2 DEF GrantVote, candidateVars
    <3> QED BY <3>1, <2>2, <1>1
  <2> QED BY <2>1, <2>2
<1>5. /\ messages' = messages \cup {vote_response(i, m.from, TRUE)}
      /\ vote_response(i, m.from, TRUE).from = i
      /\ vote_response(i, m.from, TRUE).to = m.from
      /\ vote_response(i, m.from, TRUE).term = current_term'[i]
      /\ vote_response(i, m.from, TRUE).type = "RequestVoteResponse"
  BY DEF GrantVote, Send, vote_response
<1>6. Sends(i)
  BY <1>2, <1>3, <1>5 DEF Sends
<1>7. TermAndVote(i)
  BY <1>1, <1>2, <1>4 DEF TermAndVote, VotedAt
<1>8. Candidacy(i) /\ Leadership(i)
  <2>1. CASE m.term > current_term[i]
    <3>1. EnterTerm(i, m.term)
      BY <2>1 DEF GrantVote
    <3> QED BY <3>1, EnterTermVotes DEF Candidacy, Leadership
  <2>2. CASE ~ (m.term > current_term[i])
    <3>1. UNCHANGED <<role, current_term, votes_granted>>
      BY <2>2 DEF GrantVote, candidateVars
    <3> QED BY <3>1 DEF Candidacy, Leadership
  <2> QED BY <2>1, <2>2
<1> QED BY <1>2, <1>3, <1>4, <1>6, <1>7, <1>8
        DEF VoteStep, OthersKeep, Storage

\* A VoteReply of a higher term raises the term and casts nothing.
LEMMA StepDownOnReplyVoteStep ==
  ASSUME TypeOK, NEW i \in Node, NEW m \in messages, StepDownOnReply(i, m)
  PROVE  VoteStep(i)
<1>1. step_down(i, m.term) /\ m.term > current_term[i]
      /\ UNCHANGED <<disk, messages>>
  BY DEF StepDownOnReply
<1>2. \A j \in Node \ {i} : voted_for'[j] = voted_for[j]
  BY <1>1 DEF step_down, TypeOK
<1> QED BY <1>1, <1>2, EnterTermVotes
        DEF step_down, VoteStep, OthersKeep, TermAndVote, Storage, Sends,
            Candidacy, Leadership

(***************************************************************************)
(* A vote handle_vote_response counts was cast.                            *)
(***************************************************************************)
LEMMA CountedVoteWasCast ==
  ASSUME TypeOK, NEW i \in Node, NEW m \in messages, CountsVote(i, m),
         NEW v \in GrantedAfter(i, m)
  PROVE  v \in votes_granted[i] \/ Cast(v, i, current_term[i])
<1>1. CASE m.vote_granted /\ v = m.from
  <2>1. m \in CastBy(v, i) /\ m.term = current_term[i]
    BY <1>1 DEF CountsVote, CastBy
  <2> QED BY <2>1 DEF Cast
<1>2. CASE ~ (m.vote_granted /\ v = m.from)
  BY <1>2 DEF GrantedAfter
<1> QED BY <1>1, <1>2

\* A VoteReply below quorum only adds its sender.
LEMMA CountVoteStep ==
  ASSUME TypeOK, NEW i \in Node, NEW m \in messages, CountVote(i, m)
  PROVE  VoteStep(i)
<1>1. /\ UNCHANGED <<role, current_term, voted_for, disk, messages>>
      /\ role[i] = "Candidate" /\ CountsVote(i, m)
      /\ votes_granted'[i] = GrantedAfter(i, m)
      /\ \A j \in Node \ {i} : votes_granted'[j] = votes_granted[j]
  BY DEF CountVote, CountsVote, persistentVars, TypeOK
<1>2. Candidacy(i)
  BY <1>1, CountedVoteWasCast DEF Candidacy
<1> QED BY <1>1, <1>2
        DEF VoteStep, OthersKeep, TermAndVote, Storage, Sends, Leadership

\* The VoteReply that completes the quorum makes a leader of its candidate.
LEMMA WinElectionStep ==
  ASSUME TypeOK, NEW i \in Node, NEW m \in messages, WinElection(i, m)
  PROVE  VoteStep(i)
<1>1. /\ UNCHANGED <<current_term, voted_for, disk, messages>>
      /\ role[i] = "Candidate" /\ CountsVote(i, m) /\ role'[i] = "Leader"
      /\ \A j \in Node \ {i} :
           role'[j] = role[j] /\ votes_granted'[j] = votes_granted[j]
  BY DEF WinElection, CountsVote, persistentVars, become_leader,
         ClearCandidateState, TypeOK
<1>2. /\ GrantedAfter(i, m) \in SUBSET Node
      /\ Cardinality(GrantedAfter(i, m)) >= Quorum(i)
  <2>1. m.from \in Node
    BY MessageKinds DEF TypeOK
  <2> QED BY <2>1 DEF WinElection, has_majority, GrantedAfter, TypeOK
<1>3. Leadership(i)
  BY <1>1, <1>2, CountedVoteWasCast DEF Leadership
<1> QED BY <1>1, <1>3
        DEF VoteStep, OthersKeep, TermAndVote, Storage, Sends, Candidacy

\* A heartbeat touches no vote.
LEMMA HeartbeatStep ==
  ASSUME TypeOK, NEW i \in Node, HeartbeatTimeout(i)
  PROVE  VoteStep(i)
<1>1. /\ role[i] = "Leader"
      /\ UNCHANGED <<role, current_term, voted_for, votes_granted, disk>>
      /\ messages' = messages \cup {AppendEntriesFor(i, p) : p \in Peers(i)}
  BY DEF HeartbeatTimeout, Send, nodeVars, persistentVars, candidateVars
<1>2. \A p \in Peers(i) :
        /\ AppendEntriesFor(i, p).from = i
        /\ AppendEntriesFor(i, p).type = "AppendEntries"
        /\ AppendEntriesFor(i, p).term = current_term[i]
  BY DEF AppendEntriesFor
<1>3. Sends(i)
  BY <1>1, <1>2 DEF Sends
<1> QED BY <1>1, <1>3
        DEF VoteStep, OthersKeep, TermAndVote, Storage, Candidacy, Leadership

\* A client request touches no vote.
LEMMA ClientRequestStep ==
  ASSUME SavesSucceed, TypeOK, NEW i \in Node, NEW command \in Command,
         ClientRequest(i, command)
  PROVE  VoteStep(i)
<1>1. UNCHANGED <<role, current_term, voted_for, votes_granted, messages>>
  BY DEF ClientRequest, candidateVars
<1>2. Saved(i) /\ \A j \in Node \ {i} : disk'[j] = disk[j]
  BY PersistSaves DEF ClientRequest
<1> QED BY <1>1, <1>2
        DEF VoteStep, OthersKeep, TermAndVote, Storage, Sends, Candidacy,
            Leadership

(***************************************************************************)
(* Following a leader's term gives no vote and ends a candidacy.           *)
(***************************************************************************)
LEMMA FollowTermVotes ==
  ASSUME TypeOK, NEW i \in Node, NEW term \in Nat, term >= current_term[i],
         FollowTerm(i, term)
  PROVE  /\ TermAndVote(i)
         /\ current_term'[i] > current_term[i] \/ voted_for'[i] = voted_for[i]
         /\ Candidacy(i)
         /\ Leadership(i)
         /\ \A j \in Node \ {i} :
              /\ role'[j] = role[j] /\ current_term'[j] = current_term[j]
              /\ votes_granted'[j] = votes_granted[j]
              /\ voted_for'[j] = voted_for[j]
<1>1. /\ voted_for'[i] = VotedAt(i, term)
      /\ \A j \in Node \ {i} : voted_for'[j] = voted_for[j]
  BY DEF FollowTerm, TypeOK
<1>2. CASE term > current_term[i]
  <2>1. EnterTerm(i, term)
    BY <1>2 DEF FollowTerm
  <2> QED BY <1>1, <1>2, <2>1, EnterTermVotes
          DEF TermAndVote, Candidacy, Leadership
<1>3. CASE ~ (term > current_term[i])
  <2>1. /\ current_term' = current_term /\ voted_for'[i] = voted_for[i]
        /\ role'[i] # "Candidate"
        /\ role'[i] = "Leader" => role[i] = "Leader"
        /\ \A j \in Node \ {i} :
             role'[j] = role[j] /\ votes_granted'[j] = votes_granted[j]
    BY <1>1, <1>3 DEF FollowTerm, VotedAt, ClearCandidateState, candidateVars,
                      TypeOK
  <2> QED BY <1>1, <2>1 DEF TermAndVote, Candidacy, Leadership
<1> QED BY <1>2, <1>3

\* An AppendEntries follows its term and casts nothing.
LEMMA HandleAppendStep ==
  ASSUME SavesSucceed, TypeOK, NEW i \in Node, NEW m \in messages,
         \/ RejectStaleAppend(i, m)
         \/ RejectMismatch(i, m)
         \/ AcceptAppend(i, m)
  PROVE  VoteStep(i)
<1>1. m.term \in Nat
  BY MessageKinds DEF TypeOK
<1>2. Sends(i)
  <2>1. \E b \in BOOLEAN :
          messages' = messages \cup {append_entries_response(i, m.from, b)}
    BY DEF RejectStaleAppend, RejectMismatch, AcceptAppend, Send
  <2>2. \A b \in BOOLEAN :
          /\ append_entries_response(i, m.from, b).from = i
          /\ append_entries_response(i, m.from, b).type = "AppendEntriesResponse"
    BY DEF append_entries_response
  <2> QED BY <2>1, <2>2 DEF Sends
<1>3. CASE RejectStaleAppend(i, m)
  <2>1. UNCHANGED <<role, current_term, voted_for, votes_granted, disk>>
    BY <1>3 DEF RejectStaleAppend, nodeVars, persistentVars, candidateVars
  <2> QED BY <2>1, <1>2
          DEF VoteStep, OthersKeep, TermAndVote, Storage, Candidacy, Leadership
<1>4. CASE RejectMismatch(i, m)
  <2>1. FollowTerm(i, m.term) /\ m.term >= current_term[i] /\ disk' = disk
    BY <1>1, <1>4 DEF RejectMismatch, StaleLeader, TypeOK
  <2> QED BY <2>1, <1>1, <1>2, FollowTermVotes
          DEF VoteStep, OthersKeep, Storage
<1>5. CASE AcceptAppend(i, m)
  <2>1. FollowTerm(i, m.term) /\ m.term >= current_term[i]
    BY <1>1, <1>5 DEF AcceptAppend, StaleLeader, TypeOK
  <2>2. Saved(i) /\ \A j \in Node \ {i} : disk'[j] = disk[j]
    BY <1>5, PersistSaves DEF AcceptAppend
  <2> QED BY <2>1, <2>2, <1>1, <1>2, FollowTermVotes
          DEF VoteStep, OthersKeep, Storage
<1> QED BY <1>3, <1>4, <1>5

\* An AppendReply of the current term touches no vote.
LEMMA AppendReplyStep ==
  ASSUME NEW i \in Node, NEW m \in messages, Backoff(i, m) \/ Advance(i, m)
  PROVE  VoteStep(i)
<1>1. UNCHANGED <<role, current_term, voted_for, votes_granted, disk, messages>>
  BY DEF Backoff, Advance, persistentVars, candidateVars
<1> QED BY <1>1
        DEF VoteStep, OthersKeep, TermAndVote, Storage, Sends, Candidacy,
            Leadership

\* restore brings back the stored term and vote.
LEMMA RestartIsRestartStep ==
  ASSUME TypeOK, NEW i \in Node, Restart(i)
  PROVE  RestartStep(i)
BY DEF Restart, RestartStep, OthersKeep, TypeOK, ClearCandidateState

(***************************************************************************)
(* In a cluster of two nodes or more, every turn is a VoteStep, a restart  *)
(* or nothing.                                                             *)
(***************************************************************************)
LEMMA StepIsVoteStep ==
  ASSUME SavesSucceed, \A i \in Node : Peers(i) # {}, TypeOK,
         NEW i \in Node, Step(i)
  PROVE  UNCHANGED vars \/ VoteStep(i) \/ RestartStep(i)
<1>2. CASE ElectionTimeout(i)
  BY <1>2, CampaignVoteStep DEF ElectionTimeout
<1>4. CASE HeartbeatTimeout(i)
  BY <1>4, HeartbeatStep
<1>5. CASE IgnoreTimeout(i)
  BY <1>5 DEF IgnoreTimeout
<1>6. CASE \E command \in Command : ClientRequest(i, command)
  BY <1>6, ClientRequestStep
<1>7. ASSUME NEW m \in messages, HandleMessage(i, m) PROVE VoteStep(i)
  BY <1>7, RejectVoteStep, GrantVoteStep, StepDownOnReplyVoteStep,
     CountVoteStep, WinElectionStep, HandleAppendStep, AppendReplyStep
     DEF HandleMessage
<1>8. CASE Restart(i)
  BY <1>8, RestartIsRestartStep
<1> QED BY <1>2, <1>4, <1>5, <1>6, <1>7, <1>8 DEF Step

\* The same of the cluster.
LEMMA NextIsVoteStep ==
  ASSUME SavesSucceed, \A i \in Node : Peers(i) # {}, TypeOK, Next
  PROVE  \/ UNCHANGED vars
         \/ \E i \in Node : VoteStep(i) \/ RestartStep(i)
BY StepIsVoteStep DEF Next

----------------------------------------------------------------------------
(* ElectionInv survives both.                                              *)

(***************************************************************************)
(* The only vote a turn can cast is the one it left in memory and storage. *)
(***************************************************************************)
LEMMA NewCasts ==
  ASSUME NEW i \in Node, Sends(i), NEW v \in Node, NEW c \in Node
  PROVE  /\ CastBy(v, c) \subseteq CastBy(v, c)'
         /\ \A m \in CastBy(v, c)' \ CastBy(v, c) :
              v = i /\ c = voted_for'[i] /\ m.term = current_term'[i] /\ Saved(i)
BY DEF Sends, CastBy

(***************************************************************************)
(* Votes once cast stay cast, so an election once won stays won.           *)
(***************************************************************************)
LEMMA ElectedStays ==
  ASSUME NEW i \in Node, Sends(i)
  PROVE  /\ \A v, c \in Node : \A term : Cast(v, c, term) => Cast(v, c, term)'
         /\ \A c \in Node : \A term : Elected(c, term) => Elected(c, term)'
<1>1. ASSUME NEW v \in Node, NEW c \in Node, NEW term, Cast(v, c, term)
      PROVE  Cast(v, c, term)'
  BY <1>1, NewCasts DEF Cast
<1>2. ASSUME NEW c \in Node, NEW term, Elected(c, term)
      PROVE  Elected(c, term)'
  <2>1. PICK Q \in SUBSET Node :
          Cardinality(Q) >= Quorum(c) /\ \A v \in Q : Cast(v, c, term)
    BY <1>2 DEF Elected
  <2>2. \A v \in Q : Cast(v, c, term)'
    BY <2>1, <1>1
  <2> QED BY <2>1, <2>2 DEF Elected
<1> QED BY <1>1, <1>2

\* The storage never runs ahead of the memory.
LEMMA VoteStepKeepsStorageBehind ==
  ASSUME TypeOK, TypeOK', StorageBehind, NEW i \in Node, VoteStep(i)
  PROVE  StorageBehind'
<1> SUFFICES ASSUME NEW v \in Node
             PROVE  /\ disk'[v].current_term <= current_term'[v]
                    /\ disk'[v].current_term = current_term'[v]
                       => disk'[v].voted_for = voted_for'[v]
  BY DEF StorageBehind
<1>1. /\ current_term[v] \in Nat /\ current_term'[v] \in Nat
      /\ disk[v].current_term \in Nat
  BY DEF TypeOK, PersistentState
<1>2. CASE v # i
  BY <1>2 DEF VoteStep, OthersKeep, StorageBehind
<1>3. CASE v = i
  BY <1>1, <1>3 DEF VoteStep, TermAndVote, Storage, Saved, StorageBehind
<1> QED BY <1>2, <1>3

\* Every vote that was sent is in storage, one to a term.
LEMMA VoteStepKeepsCasts ==
  ASSUME TypeOK, TypeOK', StorageBehind, CastsStored, CastOnce,
         NEW i \in Node, VoteStep(i)
  PROVE  CastsStored' /\ CastOnce'
<1>1. /\ current_term[i] \in Nat /\ current_term'[i] \in Nat
      /\ disk[i].current_term \in Nat
      /\ disk[i].current_term <= current_term[i]
  BY DEF TypeOK, PersistentState, StorageBehind
<1>2. \A v, c \in Node : \A m \in CastBy(v, c) : m.term \in Nat
  BY MessageKinds DEF TypeOK, CastBy
<1>3. Sends(i)
  BY DEF VoteStep
\* An earlier vote of i is still the one in storage, or out of date.
<1>4. ASSUME NEW c \in Node, NEW m \in CastBy(i, c)
      PROVE  /\ \/ disk'[i].current_term > m.term
                \/ disk'[i].current_term = m.term /\ disk'[i].voted_for = c
             /\ Saved(i) /\ m.term = current_term'[i] => c = voted_for'[i]
  <2>1. \/ disk[i].current_term > m.term
        \/ disk[i].current_term = m.term /\ disk[i].voted_for = c
    BY DEF CastsStored
  <2>2. disk[i].current_term = current_term[i]
        => disk[i].voted_for = voted_for[i]
    BY DEF StorageBehind
  <2>3. c # None
    BY NodeAssumption
  <2>4. m.term \in Nat
    BY <1>2
  <2>5. TermAndVote(i) /\ Storage(i)
    BY DEF VoteStep
  <2> QED BY <1>1, <2>1, <2>2, <2>3, <2>4, <2>5 DEF TermAndVote, Storage, Saved
<1>5. CastsStored'
  <2> SUFFICES ASSUME NEW v \in Node, NEW c \in Node, NEW m \in CastBy(v, c)'
               PROVE  \/ disk'[v].current_term > m.term
                      \/ disk'[v].current_term = m.term
                           /\ disk'[v].voted_for = c
    BY DEF CastsStored
  <2>1. CASE m \in CastBy(v, c) /\ v = i
    BY <2>1, <1>4
  <2>2. CASE m \in CastBy(v, c) /\ v # i
    BY <2>2 DEF CastsStored, VoteStep, OthersKeep
  <2>3. CASE m \notin CastBy(v, c)
    BY <2>3, <1>3, NewCasts DEF Saved
  <2> QED BY <2>1, <2>2, <2>3
<1>6. CastOnce'
  <2> SUFFICES ASSUME NEW v \in Node, NEW c \in Node, NEW d \in Node,
                      NEW m \in CastBy(v, c)', NEW n \in CastBy(v, d)',
                      m.term = n.term
               PROVE  c = d
    BY DEF CastOnce
  <2>1. CASE m \in CastBy(v, c) /\ n \in CastBy(v, d)
    BY <2>1 DEF CastOnce
  <2>2. CASE m \notin CastBy(v, c) /\ n \in CastBy(v, d)
    <3>1. v = i /\ c = voted_for'[i] /\ m.term = current_term'[i] /\ Saved(i)
      BY <2>2, <1>3, NewCasts
    <3> QED BY <2>2, <3>1, <1>4
  <2>3. CASE m \in CastBy(v, c) /\ n \notin CastBy(v, d)
    <3>1. v = i /\ d = voted_for'[i] /\ n.term = current_term'[i] /\ Saved(i)
      BY <2>3, <1>3, NewCasts
    <3> QED BY <2>3, <3>1, <1>4
  <2>4. CASE m \notin CastBy(v, c) /\ n \notin CastBy(v, d)
    BY <2>4, <1>3, NewCasts
  <2> QED BY <2>1, <2>2, <2>3, <2>4
<1> QED BY <1>5, <1>6

\* Every leader keeps the quorum of votes that elected it.
LEMMA VoteStepKeepsLeaders ==
  ASSUME TypeOK, TypeOK', CountedWereCast, LeadersElected,
         NEW i \in Node, VoteStep(i)
  PROVE  CountedWereCast' /\ LeadersElected'
<1>1. /\ \A v, c \in Node : \A term : Cast(v, c, term) => Cast(v, c, term)'
      /\ \A c \in Node : \A term : Elected(c, term) => Elected(c, term)'
  BY ElectedStays DEF VoteStep
<1>2. CountedWereCast'
  <2> SUFFICES ASSUME NEW j \in Node, role'[j] = "Candidate",
                      NEW v \in votes_granted'[j],
                      NEW term, term = current_term'[j]
               PROVE  Cast(v, j, term)'
    BY DEF CountedWereCast, Cast
  <2>1. v \in Node
    BY DEF TypeOK
  <2>2. CASE j # i
    <3>1. Cast(v, j, current_term[j]) /\ current_term'[j] = current_term[j]
      BY <2>2 DEF CountedWereCast, VoteStep, OthersKeep
    <3> QED BY <3>1, <2>1, <1>1
  <2>3. CASE j = i /\ role[i] = "Candidate" /\ current_term'[i] = current_term[i]
                   /\ \A w \in votes_granted'[i] :
                        w \in votes_granted[i] \/ Cast(w, i, current_term[i])
    <3>1. Cast(v, i, current_term[i])
      BY <2>3 DEF CountedWereCast
    <3> QED BY <3>1, <2>3, <2>1, <1>1
  <2>4. CASE j = i /\ votes_granted'[i] = {i}
                   /\ \E m \in messages' : /\ m.type = "RequestVote"
                                           /\ m.from = i
                                           /\ m.term = current_term'[i]
    <3>1. v = i /\ j = i
      BY <2>4
    <3>2. PICK m \in messages' : m.type = "RequestVote" /\ m.from = i
                                   /\ m.term = current_term'[i]
      BY <2>4
    <3>3. m \in CastBy(i, i)'
      BY <3>2 DEF CastBy
    <3> QED BY <3>1, <3>2, <3>3 DEF Cast
  <2> QED BY <2>2, <2>3, <2>4 DEF VoteStep, Candidacy
<1>3. ASSUME NEW j \in Node, role'[j] = "Leader",
             NEW term, term = current_term'[j]
      PROVE  Elected(j, term)'
  <2>1. CASE j # i
    <3>1. Elected(j, term)
      BY <1>3, <2>1 DEF LeadersElected, VoteStep, OthersKeep
    <3> QED BY <3>1, <1>1
  <2>2. CASE j = i
    <3>1. current_term'[i] = current_term[i] /\ Leadership(i)
      BY <1>3, <2>2 DEF VoteStep, Leadership
    <3>2. Elected(i, current_term[i])
      <4>1. CASE role[i] = "Leader"
        BY <4>1 DEF LeadersElected
      <4>2. CASE role[i] # "Leader"
        <5>1. role[i] = "Candidate"
          BY <1>3, <2>2, <3>1, <4>2 DEF Leadership
        <5>2. PICK Q \in SUBSET Node :
                /\ Cardinality(Q) >= Quorum(i)
                /\ \A v \in Q : v \in votes_granted[i]
                                  \/ Cast(v, i, current_term[i])
          BY <1>3, <2>2, <3>1, <4>2 DEF Leadership
        <5>3. \A v \in Q : Cast(v, i, current_term[i])
          BY <5>1, <5>2 DEF CountedWereCast
        <5> QED BY <5>2, <5>3 DEF Elected
      <4> QED BY <4>1, <4>2
    <3> QED BY <1>3, <2>2, <3>1, <3>2, <1>1
  <2> QED BY <2>1, <2>2
<1>4. ASSUME NEW m \in Appends', NEW c, NEW term,
             c = m.from, term = m.term
      PROVE  Elected(c, term)'
  <2>1. c \in Node
    BY <1>4, MessageKinds DEF Appends, TypeOK
  <2>2. Elected(c, term)
    <3>1. CASE m \in messages
      BY <1>4, <3>1 DEF LeadersElected, Appends
    <3>2. CASE m \notin messages
      <4>1. c = i /\ role[i] = "Leader" /\ term = current_term[i]
        BY <1>4, <3>2 DEF Appends, VoteStep, Sends
      <4> QED BY <4>1 DEF LeadersElected
    <3> QED BY <3>1, <3>2
  <2> QED BY <2>1, <2>2, <1>1
<1>5. LeadersElected'
  BY <1>3, <1>4 DEF LeadersElected, Elected, Cast, CastBy
<1> QED BY <1>2, <1>5

\* A restart forgets no vote that was cast.
LEMMA RestartKeepsElectionInv ==
  ASSUME TypeOK, ElectionInv, NEW i \in Node, RestartStep(i)
  PROVE  ElectionInv'
<1> USE DEF ElectionInv
<1>1. \A v, c \in Node : CastBy(v, c)' = CastBy(v, c)
  BY DEF RestartStep, CastBy
<1>2. /\ \A v, c \in Node : \A term : Cast(v, c, term) => Cast(v, c, term)'
      /\ \A c \in Node : \A term : Elected(c, term) => Elected(c, term)'
  <2>1. Sends(i)
    BY DEF RestartStep, Sends
  <2> QED BY <2>1, ElectedStays
<1>3. StorageBehind'
  <2> SUFFICES ASSUME NEW v \in Node
               PROVE  /\ disk'[v].current_term <= current_term'[v]
                      /\ disk'[v].current_term = current_term'[v]
                         => disk'[v].voted_for = voted_for'[v]
    BY DEF StorageBehind
  <2>1. disk[v].current_term \in Nat
    BY DEF TypeOK, PersistentState
  <2> QED BY <2>1 DEF RestartStep, OthersKeep, StorageBehind
<1>4. CastsStored' /\ CastOnce'
  BY <1>1 DEF RestartStep, CastsStored, CastOnce
<1>5. CountedWereCast'
  <2> SUFFICES ASSUME NEW j \in Node, role'[j] = "Candidate",
                      NEW v \in votes_granted'[j],
                      NEW term, term = current_term'[j]
               PROVE  Cast(v, j, term)'
    BY DEF CountedWereCast, Cast
  <2>1. j # i /\ role[j] = "Candidate" /\ current_term'[j] = current_term[j]
        /\ votes_granted'[j] = votes_granted[j]
    BY DEF RestartStep, OthersKeep
  <2>2. v \in Node /\ Cast(v, j, current_term[j])
    BY <2>1 DEF CountedWereCast, TypeOK
  <2> QED BY <2>1, <2>2, <1>2
<1>6. LeadersElected'
  <2>1. ASSUME NEW j \in Node, role'[j] = "Leader",
               NEW term, term = current_term'[j]
        PROVE  Elected(j, term)'
    <3>1. j # i /\ role[j] = "Leader" /\ current_term'[j] = current_term[j]
      BY <2>1 DEF RestartStep, OthersKeep
    <3> QED BY <2>1, <3>1, <1>2 DEF LeadersElected
  <2>2. ASSUME NEW m \in Appends', NEW c, NEW term,
               c = m.from, term = m.term
        PROVE  Elected(c, term)'
    <3>1. m \in Appends /\ c \in Node
      BY <2>2, MessageKinds DEF Appends, RestartStep, TypeOK
    <3> QED BY <2>2, <3>1, <1>2 DEF LeadersElected
  <2> QED BY <2>1, <2>2 DEF LeadersElected, Elected, Cast, CastBy
<1> QED BY <1>3, <1>4, <1>5, <1>6

----------------------------------------------------------------------------

(***************************************************************************)
(* The initial state: no votes, no candidates, no leaders.                 *)
(***************************************************************************)
LEMMA InitElectionInv == Init => ElectionInv
BY DEF Init, ElectionInv, StorageBehind, CastsStored, CastOnce,
       CountedWereCast, LeadersElected, CastBy, Appends

(***************************************************************************)
(* The inductive step.                                                     *)
(***************************************************************************)
LEMMA NextElectionInv ==
  ASSUME SavesSucceed, \A i \in Node : Peers(i) # {}
  PROVE  TypeInv /\ ElectionInv /\ [Next]_vars => ElectionInv'
<1> SUFFICES ASSUME TypeInv, ElectionInv, [Next]_vars PROVE ElectionInv'
  OBVIOUS
<1>1. TypeOK /\ TypeOK'
  BY NextTypeInv DEF TypeInv
<1>2. CASE UNCHANGED vars
  BY <1>2, SMTT(60)
          DEF vars, nodeVars, persistentVars, candidateVars, ElectionInv,
              StorageBehind, CastsStored, CastOnce, CountedWereCast,
              LeadersElected, Elected, Cast, CastBy, Appends
<1>3. ASSUME NEW i \in Node, VoteStep(i) PROVE ElectionInv'
  BY <1>1, <1>3, VoteStepKeepsStorageBehind, VoteStepKeepsCasts,
     VoteStepKeepsLeaders DEF ElectionInv
<1>4. ASSUME NEW i \in Node, RestartStep(i) PROVE ElectionInv'
  BY <1>1, <1>4, RestartKeepsElectionInv
<1> QED BY <1>1, <1>2, <1>3, <1>4, NextIsVoteStep

(***************************************************************************)
(* Two nodes elected in one term are the same node: their quorums share a  *)
(* voter, and the voter cast one vote.                                     *)
(***************************************************************************)
LEMMA ElectedOnce ==
  ASSUME CastOnce, NEW c \in Node, NEW d \in Node, NEW term,
         Elected(c, term), Elected(d, term)
  PROVE  c = d
<1>1. PICK Q \in SUBSET Node :
        Cardinality(Q) >= Quorum(c) /\ \A v \in Q : Cast(v, c, term)
  BY DEF Elected
<1>2. PICK R \in SUBSET Node :
        Cardinality(R) >= Quorum(d) /\ \A v \in R : Cast(v, d, term)
  BY DEF Elected
<1>3. PICK v \in Node : v \in Q /\ v \in R
  <2>1. Q \cap R # {}
    BY <1>1, <1>2, NodeAssumption, QuorumsIntersect DEF Quorum, Peers
  <2> QED BY <2>1
<1> QED BY <1>1, <1>2, <1>3 DEF CastOnce, Cast

\* Two leaders of a term would need two quorums, which share a voter.
LEMMA ElectionInvSafe ==
  ASSUME TypeOK, ElectionInv
  PROVE  ElectionSafety /\ DurableVotes
<1> USE DEF ElectionInv
<1>1. \A m \in Appends : m.from \in Node
  BY MessageKinds DEF Appends, TypeOK
<1>2. ElectionSafety
  BY <1>1, ElectedOnce DEF ElectionSafety, LeadersElected
<1>3. DurableVotes
  <2> SUFFICES ASSUME NEW m \in Grants
               PROVE  \/ disk[m.from].current_term > m.term
                      \/ disk[m.from].current_term = m.term
                           /\ disk[m.from].voted_for = m.to
    BY DEF DurableVotes
  <2>1. m.from \in Node /\ m.to \in Node /\ m \in CastBy(m.from, m.to)
    BY MessageKinds DEF Grants, TypeOK, CastBy
  <2> QED BY <2>1 DEF CastsStored
<1> QED BY <1>2, <1>3

----------------------------------------------------------------------------

(***************************************************************************)
(* The votes' bookkeeping is an invariant of every cluster with peers.     *)
(***************************************************************************)
THEOREM ElectionInvariant ==
  ASSUME SavesSucceed, \A i \in Node : Peers(i) # {}
  PROVE  Spec => []ElectionInv
<1>1. Init => ElectionInv
  BY InitElectionInv
<1>2. TypeInv /\ ElectionInv /\ [Next]_vars => ElectionInv'
  BY NextElectionInv
<1> QED BY <1>1, <1>2, TypeCorrect, PTL DEF Spec

(***************************************************************************)
(* With saves that succeed, one leader per term and durable votes, in a    *)
(* cluster of any size with any number of crashes, and whatever the        *)
(* network loses, repeats or reorders.                                     *)
(***************************************************************************)
THEOREM ElectionsAreSafe ==
  ASSUME SavesSucceed, \A i \in Node : Peers(i) # {}
  PROVE  Spec => [](ElectionSafety /\ DurableVotes)
<1>1. TypeInv /\ ElectionInv => ElectionSafety /\ DurableVotes
  BY ElectionInvSafe DEF TypeInv
<1> QED BY <1>1, ElectionInvariant, TypeCorrect, PTL

(***************************************************************************)
(* A vote that left a node is in its storage, or a later term is.          *)
(***************************************************************************)
THEOREM VotesAreDurable ==
  ASSUME SavesSucceed, \A i \in Node : Peers(i) # {}
  PROVE  Spec => []DurableVotes
<1>1. ElectionSafety /\ DurableVotes => DurableVotes
  OBVIOUS
<1> QED BY <1>1, ElectionsAreSafe, PTL

(***************************************************************************)
(* One leader per term in every cluster, the single node included.         *)
(***************************************************************************)
THEOREM OneLeaderPerTerm ==
  ASSUME SavesSucceed
  PROVE  Spec => []ElectionSafety
<1>1. CASE \A i \in Node : Peers(i) # {}
  <2>1. ElectionSafety /\ DurableVotes => ElectionSafety
    OBVIOUS
  <2>2. Spec => [](ElectionSafety /\ DurableVotes)
    BY <1>1, ElectionsAreSafe
  <2> QED BY <2>1, <2>2, PTL
<1>2. CASE \E i \in Node : Peers(i) = {}
  <2>1. \A i, j \in Node : i = j
    BY <1>2 DEF Peers
  <2>2. TypeOK => ElectionSafety
    <3> SUFFICES ASSUME TypeOK PROVE ElectionSafety
      OBVIOUS
    <3>1. \A m \in Appends : m.from \in Node
      BY MessageKinds DEF Appends, TypeOK
    <3> QED BY <2>1, <3>1 DEF ElectionSafety
  <2> QED BY <2>2, TypeSafety, PTL
<1> QED BY <1>1, <1>2
=============================================================================
