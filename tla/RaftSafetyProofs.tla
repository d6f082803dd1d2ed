-------------------------- MODULE RaftSafetyProofs --------------------------
(***************************************************************************)
(* What is committed stays committed, when saves succeed, for every        *)
(* cluster of two nodes or more, with any number of crashes and whatever   *)
(* the network loses, repeats or reorders, as long as no success reply     *)
(* acknowledged a foreign suffix (stale_ack).                              *)
(*                                                                         *)
(* The invariant adds CommitInv to the ledger of RaftReplicationProofs.    *)
(* Again CommitStep says what a turn may do (to replies, match and commit  *)
(* indices and state machines, beyond LogStep), every action is one, and a *)
(* CommitStep takes a ledger with CommitInv to the next one.               *)
(***************************************************************************)
EXTENDS RaftReplicationProofs

\* A node's commit index and state machine are left alone.
VolatileKept(j) ==
  /\ commit_index'[j] = commit_index[j]
  /\ last_applied'[j] = last_applied[j]
  /\ applied'[j] = applied[j]

\* What the turn of i leaves of the other nodes, beyond OthersKeep.
OthersKeepVolatile(i) ==
  \A j \in Node \ {i} : VolatileKept(j) /\ match_index'[j] = match_index[j]

\* Votes are asked for on entering a term, and describe the sender's log.
AsksForVotes(i) ==
  \A m \in messages' \ messages : m.type = "RequestVote" =>
    /\ current_term'[i] > current_term[i]
    /\ log'[i] = log[i]
    /\ m.last_log_index = last_log_index(log[i])
    /\ m.last_log_term = last_log_term(log[i])

\* A vote goes to a candidate whose request describes a log up to date.
GivesVotes(i) ==
  \A m \in messages' \ messages :
    m.type = "RequestVoteResponse" /\ m.vote_granted =>
      \E r \in messages :
        /\ r.type = "RequestVote" /\ r.from = m.to /\ r.term = m.term
        /\ candidate_log_up_to_date(log[i], r.last_log_term, r.last_log_index)

\* A success reply acknowledges the log as the accepted message left it.
AcksSent(i) ==
  \A m \in Acks' \ Acks :
    /\ m.from = i /\ m.match_index = Len(log'[i])
    /\ \E a \in Appends :
         /\ AcceptsLog(i, a) /\ m.term = a.term
         /\ stale_ack' \/ UnverifiedSuffix(log'[i], a) = {}

\* A leader's match indices are reset, kept or acknowledged.
MatchStep(i) ==
  role'[i] = "Leader" =>
    \A p \in Peers(i) :
      \/ match_index'[i][p] = 0
      \/ role[i] = "Leader" /\ match_index'[i][p] = match_index[i][p]
      \/ Acked(p, match_index'[i][p], current_term[i])

\* A follower learns of commits, or a leader decides on one.
FollowerCommits(i, a) ==
  /\ AcceptsLog(i, a)
  /\ commit_index'[i] =
       FollowerCommit(commit_index[i], a.leader_commit,
                      LastNewIndex(a.prev_log_index, a.entries))

LeaderCommits(i) ==
  /\ role[i] = "Leader" /\ role'[i] = "Leader"
  /\ log'[i] = log[i]
  /\ commit_index'[i] =
       LeaderCommit(log[i], current_term[i], commit_index[i],
                    match_index'[i], Peers(i))

\* The state machine follows the commit index.
Applies(i) ==
  /\ last_applied'[i] = IF commit_index'[i] > last_applied[i]
                        THEN commit_index'[i] ELSE last_applied[i]
  /\ applied'[i] = applied[i] \o
       CommandsToApply(log'[i], last_applied[i], commit_index'[i])

CommitMoves(i) ==
  \/ VolatileKept(i)
  \/ LeaderCommits(i) /\ Applies(i)
  \/ (\E a \in Appends : FollowerCommits(i, a)) /\ Applies(i)

CommitStep(i) ==
  /\ LogStep(i)
  /\ stale_ack => stale_ack'
  /\ OthersKeepVolatile(i)
  /\ AsksForVotes(i)
  /\ GivesVotes(i)
  /\ AcksSent(i)
  /\ MatchStep(i)
  /\ CommitMoves(i)

\* Nothing leaves a node and what is stored stays: a crash, or no step.  A
\* node keeps its role, or it comes back as a follower that applied nothing.
CommitRestart ==
  /\ disk' = disk /\ messages' = messages /\ stale_ack' = stale_ack
  /\ \A j \in Node :
       /\ log'[j] = log[j]
       /\ \/ /\ role'[j] = role[j] /\ current_term'[j] = current_term[j]
             /\ match_index'[j] = match_index[j] /\ VolatileKept(j)
          \/ /\ role'[j] = "Follower"
             /\ commit_index'[j] = 0 /\ last_applied'[j] = 0
             /\ applied'[j] = << >>

----------------------------------------------------------------------------
(* Every action is one of the two.                                         *)

\* A turn whose new messages are no votes, no requests for votes and no
\* acknowledgements.
LEMMA SendsNothingSafe ==
  ASSUME NEW i \in Node,
         \A m \in messages' \ messages :
           /\ m.type # "RequestVote"
           /\ m.type = "RequestVoteResponse" => ~ m.vote_granted
           /\ m.type = "AppendEntriesResponse" => ~ m.success
  PROVE  AsksForVotes(i) /\ GivesVotes(i) /\ AcksSent(i)
BY DEF AsksForVotes, GivesVotes, AcksSent, Acks

\* A turn that leaves commit indices and state machines alone.
LEMMA VolatileUnchanged ==
  ASSUME NEW i \in Node, UNCHANGED volatileVars,
         \A j \in Node \ {i} : match_index'[j] = match_index[j]
  PROVE  OthersKeepVolatile(i) /\ CommitMoves(i)
BY DEF volatileVars, OthersKeepVolatile, VolatileKept, CommitMoves

\* What CommitAndApply does to a node and leaves of the others.
LEMMA CommitAndApplyStep ==
  ASSUME TypeOK, NEW i \in Node, NEW l, NEW commit,
         CommitAndApply(i, l, commit), l = log'[i]
  PROVE  /\ commit_index'[i] = commit
         /\ Applies(i)
         /\ \A j \in Node \ {i} : VolatileKept(j)
<1>1. /\ commit_index' = [commit_index EXCEPT ![i] = commit]
      /\ last_applied' = [last_applied EXCEPT
                            ![i] = IF commit > @ THEN commit ELSE @]
      /\ applied' = [applied EXCEPT
                       ![i] = @ \o CommandsToApply(l, last_applied[i], commit)]
  BY DEF CommitAndApply
<1>2. /\ commit_index'[i] = commit
      /\ \A j \in Node \ {i} : commit_index'[j] = commit_index[j]
  BY <1>1 DEF TypeOK
<1>3. /\ last_applied'[i] = IF commit > last_applied[i]
                            THEN commit ELSE last_applied[i]
      /\ \A j \in Node \ {i} : last_applied'[j] = last_applied[j]
  BY <1>1 DEF TypeOK
<1>4. /\ applied'[i] = applied[i] \o
           CommandsToApply(log'[i], last_applied[i], commit)
      /\ \A j \in Node \ {i} : applied'[j] = applied[j]
  BY <1>1 DEF TypeOK
<1> QED BY <1>2, <1>3, <1>4 DEF Applies, VolatileKept

\* Entering a term touches the node's own match indices only.
LEMMA EnterTermMatch ==
  ASSUME TypeOK, NEW i \in Node, NEW term, EnterTerm(i, term)
  PROVE  /\ role'[i] = "Follower"
         /\ \A j \in Node \ {i} : match_index'[j] = match_index[j]
<1>1. match_index' = [match_index EXCEPT ![i] = [p \in Node |-> 0]]
  BY DEF EnterTerm, ClearLeaderState
<1> QED BY <1>1, EnterTermVotes DEF TypeOK

\* handle_election_timeout asks for votes with the log it has.
LEMMA CampaignCommitStep ==
  ASSUME SavesSucceed, TypeOK, NEW i \in Node, Campaign(i)
  PROVE  CommitStep(i)
<1>1. /\ UNCHANGED <<log, volatileVars, stale_ack>>
      /\ current_term'[i] > current_term[i] /\ role'[i] = "Candidate"
  BY DEF Campaign, BecomeCandidate, TypeOK
<1>2. \A j \in Node \ {i} : match_index'[j] = match_index[j]
  BY DEF Campaign, ClearLeaderState, TypeOK
<1>3. messages' = messages \cup
        {VoteRequest(i, p, current_term[i] + 1) : p \in Peers(i)}
  BY DEF Campaign, Send
<1>4. \A p \in Peers(i) :
        LET m == VoteRequest(i, p, current_term[i] + 1)
        IN  /\ m.type = "RequestVote"
            /\ m.last_log_index = last_log_index(log[i])
            /\ m.last_log_term = last_log_term(log[i])
  BY DEF VoteRequest
<1>5. AsksForVotes(i) /\ GivesVotes(i) /\ AcksSent(i)
  BY <1>1, <1>3, <1>4 DEF AsksForVotes, GivesVotes, AcksSent, Acks
<1> QED BY <1>1, <1>2, <1>5, CandidateLogStep, VolatileUnchanged
        DEF CommitStep, MatchStep

\* Counting votes; become_leader starts with match indices of 0.
LEMMA VoteCountCommitStep ==
  ASSUME SavesSucceed, TypeOK, NEW i \in Node, NEW m \in messages,
         CountVote(i, m) \/ WinElection(i, m)
  PROVE  CommitStep(i)
<1>1. UNCHANGED <<volatileVars, stale_ack, messages>>
  BY DEF CountVote, WinElection
<1>2. /\ \A j \in Node \ {i} : match_index'[j] = match_index[j]
      /\ MatchStep(i)
  <2>1. CASE CountVote(i, m)
    <3>1. match_index' = match_index /\ role'[i] = "Candidate"
      BY <2>1 DEF CountVote, CountsVote, leaderVars
    <3> QED BY <3>1 DEF MatchStep
  <2>2. CASE WinElection(i, m)
    <3>1. match_index' = [match_index EXCEPT ![i] = [p \in Node |-> 0]]
      BY <2>2 DEF WinElection, become_leader
    <3>2. match_index'[i] = [p \in Node |-> 0]
          /\ \A j \in Node \ {i} : match_index'[j] = match_index[j]
      BY <3>1 DEF TypeOK
    <3> QED BY <3>2 DEF MatchStep, Peers
  <2> QED BY <2>1, <2>2
<1>3. AsksForVotes(i) /\ GivesVotes(i) /\ AcksSent(i)
  BY <1>1, SendsNothingSafe
<1> QED BY <1>1, <1>2, <1>3, CandidateLogStep, VolatileUnchanged DEF CommitStep

\* A voter that refuses, and a node that steps down.
LEMMA RefusalCommitStep ==
  ASSUME SavesSucceed, TypeOK, NEW i \in Node, NEW m \in messages,
         RejectVote(i, m) \/ StepDownOnReply(i, m)
  PROVE  CommitStep(i)
<1>1. UNCHANGED <<volatileVars, stale_ack>>
  BY DEF RejectVote, StepDownOnReply
<1>2. /\ \A j \in Node \ {i} : match_index'[j] = match_index[j]
      /\ MatchStep(i)
  <2>1. CASE UNCHANGED <<role, current_term, leaderVars>>
    BY <2>1 DEF MatchStep, leaderVars
  <2>2. CASE step_down(i, m.term)
    BY <2>2, EnterTermMatch DEF step_down, MatchStep
  <2> QED BY <2>1, <2>2 DEF RejectVote, StepDownIfNewer, StepDownOnReply
<1>3. AsksForVotes(i) /\ GivesVotes(i) /\ AcksSent(i)
  <2>1. \A n \in messages' \ messages : n = vote_response(i, m.from, FALSE)
    BY DEF RejectVote, StepDownOnReply, Send
  <2>2. /\ vote_response(i, m.from, FALSE).type = "RequestVoteResponse"
        /\ ~ vote_response(i, m.from, FALSE).vote_granted
    BY DEF vote_response
  <2> QED BY <2>1, <2>2, SendsNothingSafe
<1> QED BY <1>1, <1>2, <1>3, VoterLogStep, VolatileUnchanged DEF CommitStep

\* A voter that grants its vote has compared the logs.
LEMMA GrantCommitStep ==
  ASSUME SavesSucceed, TypeOK, NEW i \in Node, NEW m \in messages,
         GrantVote(i, m)
  PROVE  CommitStep(i)
<1>1. UNCHANGED <<volatileVars, stale_ack>>
  BY DEF GrantVote
<1>2. /\ \A j \in Node \ {i} : match_index'[j] = match_index[j]
      /\ MatchStep(i)
  <2>1. CASE UNCHANGED <<role, current_term, candidateVars, leaderVars>>
    BY <2>1 DEF MatchStep, leaderVars
  <2>2. CASE EnterTerm(i, m.term)
    BY <2>2, EnterTermMatch DEF MatchStep
  <2> QED BY <2>1, <2>2 DEF GrantVote
<1>3. /\ current_term'[i] = m.term
      /\ m.type = "RequestVote"
      /\ candidate_log_up_to_date(log[i], m.last_log_term, m.last_log_index)
  <2>1. m.term \in Nat /\ current_term[i] \in Nat /\ m.term >= current_term[i]
    BY MessageKinds DEF TypeOK, GrantVote
  <2>2. current_term'[i] = m.term
    BY <2>1, EnterTermVotes DEF GrantVote
  <2> QED BY <2>2 DEF GrantVote, MayGrant
<1>4. /\ messages' = messages \cup {vote_response(i, m.from, TRUE)}
      /\ vote_response(i, m.from, TRUE).type = "RequestVoteResponse"
      /\ vote_response(i, m.from, TRUE).to = m.from
      /\ vote_response(i, m.from, TRUE).term = current_term'[i]
  BY DEF GrantVote, Send, vote_response
<1>5. AsksForVotes(i) /\ GivesVotes(i) /\ AcksSent(i)
  BY <1>3, <1>4 DEF AsksForVotes, GivesVotes, AcksSent, Acks
<1> QED BY <1>1, <1>2, <1>5, VoterLogStep, VolatileUnchanged DEF CommitStep

\* Heartbeats send AppendEntries only.
LEMMA HeartbeatCommitStep ==
  ASSUME SavesSucceed, TypeOK, NEW i \in Node, HeartbeatTimeout(i)
  PROVE  CommitStep(i)
<1>1. UNCHANGED <<volatileVars, stale_ack, match_index, role>>
      /\ role[i] = "Leader"
  BY DEF HeartbeatTimeout, nodeVars, leaderVars
<1>2. AsksForVotes(i) /\ GivesVotes(i) /\ AcksSent(i)
  <2>1. \A m \in messages' \ messages : \E p \in Peers(i) : m = AppendEntriesFor(i, p)
    BY DEF HeartbeatTimeout, Send
  <2>2. \A p \in Peers(i) : AppendEntriesFor(i, p).type = "AppendEntries"
    BY DEF AppendEntriesFor
  <2> QED BY <2>1, <2>2, SendsNothingSafe
<1> QED BY <1>1, <1>2, LeaderLogStep, VolatileUnchanged DEF CommitStep, MatchStep

\* A client's entry is not yet acknowledged by anyone.
LEMMA ClientCommitStep ==
  ASSUME SavesSucceed, TypeInv, NEW i \in Node, Peers(i) # {},
         NEW command \in Command, ClientRequest(i, command)
  PROVE  CommitStep(i)
<1>1. UNCHANGED <<volatileVars, stale_ack, messages, match_index>>
      /\ role[i] = "Leader"
  BY DEF ClientRequest, leaderVars
<1>2. AsksForVotes(i) /\ GivesVotes(i) /\ AcksSent(i)
  BY <1>1, SendsNothingSafe
<1> QED BY <1>1, <1>2, ClientLogStep, VolatileUnchanged DEF CommitStep, MatchStep

\* Following a term touches the node's own match indices only.
LEMMA FollowTermMatch ==
  ASSUME TypeOK, NEW i \in Node, NEW term \in Nat, FollowTerm(i, term)
  PROVE  /\ \A j \in Node \ {i} : match_index'[j] = match_index[j]
         /\ MatchStep(i)
<1>1. CASE term > current_term[i]
  BY <1>1, EnterTermMatch DEF FollowTerm, MatchStep
<1>2. CASE ~ (term > current_term[i])
  <2>1. match_index' = match_index /\ (role'[i] = "Leader" => role[i] = "Leader")
    BY <1>2 DEF FollowTerm, leaderVars, TypeOK
  <2> QED BY <2>1 DEF MatchStep
<1> QED BY <1>1, <1>2

\* handle_append_entries, refused.
LEMMA RejectAppendCommitStep ==
  ASSUME SavesSucceed, TypeInv, NEW i \in Node, NEW m \in messages,
         RejectStaleAppend(i, m) \/ RejectMismatch(i, m)
  PROVE  CommitStep(i)
<1>1. UNCHANGED <<volatileVars, stale_ack>> /\ TypeOK /\ m.term \in Nat
  BY MessageKinds DEF RejectStaleAppend, RejectMismatch, nodeVars, TypeInv, TypeOK
<1>2. /\ \A j \in Node \ {i} : match_index'[j] = match_index[j]
      /\ MatchStep(i)
  <2>1. CASE RejectStaleAppend(i, m)
    BY <2>1 DEF RejectStaleAppend, nodeVars, leaderVars, MatchStep
  <2>2. CASE RejectMismatch(i, m)
    BY <1>1, <2>2, FollowTermMatch DEF RejectMismatch
  <2> QED BY <2>1, <2>2
<1>3. AsksForVotes(i) /\ GivesVotes(i) /\ AcksSent(i)
  <2>1. \A n \in messages' \ messages :
          n = append_entries_response(i, m.from, FALSE)
    BY DEF RejectStaleAppend, RejectMismatch, Send
  <2>2. /\ append_entries_response(i, m.from, FALSE).type = "AppendEntriesResponse"
        /\ ~ append_entries_response(i, m.from, FALSE).success
    BY DEF append_entries_response
  <2> QED BY <2>1, <2>2, SendsNothingSafe
<1> QED BY <1>1, <1>2, <1>3, FollowerLogStep, VolatileUnchanged DEF CommitStep

\* handle_append_entries, accepted: what FollowerLogStep says of the message.
LEMMA AcceptAppendAccepts ==
  ASSUME SavesSucceed, TypeInv, NEW i \in Node, NEW m \in messages,
         AcceptAppend(i, m)
  PROVE  m \in Appends /\ AcceptsLog(i, m)
<1>1. TypeOK /\ m.term \in Nat /\ current_term[i] \in Nat
  BY MessageKinds DEF TypeInv, TypeOK
<1>2. m \in Appends /\ m.to = i /\ current_term[i] <= m.term
  BY <1>1 DEF AcceptAppend, StaleLeader, Appends
<1>3. /\ current_term'[i] = m.term
      /\ role'[i] # "Candidate"
      /\ role'[i] = "Leader" => role[i] = "Leader" /\ current_term[i] = m.term
  BY <1>1, <1>2, FollowTermStanding DEF AcceptAppend
<1>4. AllSaved(i)
  BY <1>1, PersistSavesAll DEF AcceptAppend
<1>5. /\ log'[i] = Reconcile(log[i], m.entries)
      /\ log_matches(log[i], m.prev_log_index, m.prev_log_term)
  BY <1>1 DEF AcceptAppend, TypeOK
<1>6. Appends' = Appends
  BY RepliesAreNotAppends DEF AcceptAppend, Send
<1> QED BY <1>2, <1>3, <1>4, <1>5, <1>6 DEF AcceptsLog

\* The accepted message moves log, commit index and state machine together.
LEMMA AcceptAppendCommitStep ==
  ASSUME SavesSucceed, TypeInv, TypeInv', NEW i \in Node, NEW m \in messages,
         AcceptAppend(i, m)
  PROVE  CommitStep(i)
<1>1. /\ TypeOK /\ m.term \in Nat /\ m \in Appends /\ AcceptsLog(i, m)
      /\ LogStep(i)
  BY MessageKinds, AcceptAppendAccepts, FollowerLogStep DEF TypeInv, TypeOK
<1>2. stale_ack' = (stale_ack \/ UnverifiedSuffix(log'[i], m) # {})
  BY DEF AcceptAppend
<1>3. /\ \A j \in Node \ {i} : match_index'[j] = match_index[j]
      /\ MatchStep(i)
  BY <1>1, FollowTermMatch DEF AcceptAppend
<1>4. last_log_index(log'[i]) = Len(log'[i])
  <2>1. log'[i] \in Seq(LogEntry) /\ Contiguous(log'[i], 0)
    BY DEF TypeInv, TypeOK, LogContiguous
  <2> QED BY <2>1, LastEntry DEF LogEntry
<1>5. /\ messages' = messages \cup {append_entries_response(i, m.from, TRUE)}
      /\ append_entries_response(i, m.from, TRUE).type = "AppendEntriesResponse"
      /\ append_entries_response(i, m.from, TRUE).from = i
      /\ append_entries_response(i, m.from, TRUE).term = current_term'[i]
      /\ append_entries_response(i, m.from, TRUE).match_index = Len(log'[i])
  BY <1>4 DEF AcceptAppend, Send, append_entries_response
<1>6. AsksForVotes(i) /\ GivesVotes(i)
  BY <1>5 DEF AsksForVotes, GivesVotes
<1>7. AcksSent(i)
  <2> SUFFICES ASSUME NEW n \in Acks' \ Acks
               PROVE  /\ n.from = i /\ n.match_index = Len(log'[i])
                      /\ AcceptsLog(i, m) /\ n.term = m.term
                      /\ stale_ack' \/ UnverifiedSuffix(log'[i], m) = {}
    BY <1>1 DEF AcksSent
  <2>1. n = append_entries_response(i, m.from, TRUE)
    BY <1>5 DEF Acks
  <2>2. current_term'[i] = m.term
    BY <1>1 DEF AcceptsLog
  <2>3. stale_ack' \/ UnverifiedSuffix(log'[i], m) = {}
    BY <1>2
  <2> QED BY <1>1, <1>5, <2>1, <2>2, <2>3
<1>8. OthersKeepVolatile(i) /\ CommitMoves(i)
  <2> DEFINE commit == FollowerCommit(commit_index[i], m.leader_commit,
                         LastNewIndex(m.prev_log_index, m.entries))
  <2>1. CommitAndApply(i, log'[i], commit)
    BY DEF AcceptAppend
  <2>2. /\ commit_index'[i] = commit
        /\ Applies(i)
        /\ \A j \in Node \ {i} : VolatileKept(j)
    <3> HIDE DEF commit
    <3> QED BY <1>1, <2>1, CommitAndApplyStep
  <2> QED BY <1>1, <1>3, <2>2 DEF OthersKeepVolatile, CommitMoves, FollowerCommits
<1> QED BY <1>1, <1>2, <1>3, <1>6, <1>7, <1>8 DEF CommitStep

\* A leader counts an acknowledgement, and may commit.
LEMMA AppendReplyCommitStep ==
  ASSUME SavesSucceed, TypeOK, NEW i \in Node, NEW m \in messages,
         Backoff(i, m) \/ Advance(i, m)
  PROVE  CommitStep(i)
<1>1. /\ LogStep(i) /\ UNCHANGED <<stale_ack, messages, role, log>>
      /\ role[i] = "Leader" /\ m.from \in Node
  BY LeaderLogStep, MessageKinds
     DEF Backoff, Advance, CountsAppend, persistentVars, TypeOK
<1>2. AsksForVotes(i) /\ GivesVotes(i) /\ AcksSent(i)
  BY <1>1, SendsNothingSafe
<1>3. CASE Backoff(i, m)
  <2>1. UNCHANGED <<volatileVars, match_index>>
    BY <1>3 DEF Backoff
  <2> QED BY <1>1, <1>2, <2>1, VolatileUnchanged DEF CommitStep, MatchStep
<1>4. CASE Advance(i, m)
  <2>1. m \in Acks /\ m.term = current_term[i] /\ m.match_index \in Nat
    BY <1>4, MessageKinds
       DEF Advance, CountsAppend, Acks, TypeOK, AppendEntriesResponse
  <2>2. Acked(m.from, m.match_index, current_term[i])
    BY <2>1 DEF Acked
  <2>3. /\ \A j \in Node \ {i} : match_index'[j] = match_index[j]
        /\ \A p \in Peers(i) :
             \/ match_index'[i][p] = match_index[i][p]
             \/ p = m.from /\ match_index'[i][p] = m.match_index
    <3>1. \/ match_index' = match_index
          \/ match_index' = [match_index EXCEPT ![i][m.from] = m.match_index]
      BY <1>4 DEF Advance, leaderVars
    <3>2. CASE match_index' = match_index
      BY <3>2
    <3>3. CASE match_index' = [match_index EXCEPT ![i][m.from] = m.match_index]
      <4>1. match_index \in [Node -> [Node -> Nat]]
        BY DEF TypeOK
      <4>2. /\ match_index'[i] = [match_index[i] EXCEPT ![m.from] = m.match_index]
            /\ \A j \in Node \ {i} : match_index'[j] = match_index[j]
        BY <3>3, <4>1
      <4>3. \A p \in Node :
              \/ match_index'[i][p] = match_index[i][p]
              \/ p = m.from /\ match_index'[i][p] = m.match_index
        BY <4>1, <4>2
      <4> QED BY <4>2, <4>3 DEF Peers
    <3> QED BY <3>1, <3>2, <3>3
  <2>4. MatchStep(i)
    BY <1>1, <2>2, <2>3 DEF MatchStep
  <2>5. OthersKeepVolatile(i) /\ CommitMoves(i)
    <3> DEFINE commit == LeaderCommit(log[i], current_term[i], commit_index[i],
                                      match_index'[i], Peers(i))
    <3>1. CommitAndApply(i, log[i], commit) /\ log[i] = log'[i]
      BY <1>1, <1>4 DEF Advance
    <3>2. /\ commit_index'[i] = commit
          /\ Applies(i)
          /\ \A j \in Node \ {i} : VolatileKept(j)
      <4> HIDE DEF commit
      <4> QED BY <3>1, CommitAndApplyStep
    <3> QED BY <1>1, <2>3, <3>2 DEF OthersKeepVolatile, CommitMoves, LeaderCommits
  <2> QED BY <1>1, <1>2, <2>4, <2>5 DEF CommitStep
<1> QED BY <1>3, <1>4

(***************************************************************************)
(* In a cluster of two nodes or more, every turn is a CommitStep, a        *)
(* restart or nothing.                                                     *)
(***************************************************************************)
LEMMA StepIsCommitStep ==
  ASSUME SavesSucceed, \A i \in Node : Peers(i) # {}, TypeInv, TypeInv',
         \A i \in Node : disk[i].log = log[i], NEW i \in Node, Step(i)
  PROVE  \/ UNCHANGED vars
         \/ CommitStep(i)
         \/ Restart(i) /\ LogRestart(i) /\ CommitRestart
<1>2. TypeOK
  BY DEF TypeInv
<1>3. CASE ElectionTimeout(i)
  BY <1>2, <1>3, CampaignCommitStep DEF ElectionTimeout
<1>4. CASE HeartbeatTimeout(i)
  BY <1>2, <1>4, HeartbeatCommitStep
<1>5. CASE IgnoreTimeout(i)
  BY <1>5 DEF IgnoreTimeout
<1>6. CASE \E command \in Command : ClientRequest(i, command)
  BY <1>6, ClientCommitStep
<1>7. ASSUME NEW m \in messages, HandleMessage(i, m) PROVE CommitStep(i)
  BY <1>2, <1>7, VoteCountCommitStep, RefusalCommitStep, GrantCommitStep,
     RejectAppendCommitStep, AcceptAppendCommitStep, AppendReplyCommitStep
     DEF HandleMessage
<1>8. CASE Restart(i)
  <2>1. LogRestart(i)
    BY <1>2, <1>8, RestartIsLogRestart
  <2>2. CommitRestart
    BY <1>2, <1>8, SMTT(60)
       DEF Restart, CommitRestart, VolatileKept, ClearLeaderState, TypeOK
  <2> QED BY <1>8, <2>1, <2>2
<1> QED BY <1>3, <1>4, <1>5, <1>6, <1>7, <1>8 DEF Step

\* The same of the cluster.
LEMMA NextIsCommitStep ==
  ASSUME SavesSucceed, \A i \in Node : Peers(i) # {}, TypeInv, TypeInv', Next,
         \A i \in Node : disk[i].log = log[i]
  PROVE  \/ UNCHANGED vars
         \/ \E i \in Node : CommitStep(i)
         \/ \E i \in Node : Restart(i) /\ LogRestart(i) /\ CommitRestart
BY StepIsCommitStep DEF Next

----------------------------------------------------------------------------
(* Who took part in replicating an entry                                   *)

\* The terms of a log on the ledger do not fall.
LEMMA LedgerMonotone ==
  ASSUME NEW L \in Ledger, LedgerWellFormed(L),
         NEW l \in Seq(LogEntry), OnLedger(L, l),
         NEW k \in 1 .. Len(l), NEW j \in 1 .. k
  PROVE  l[j].term <= l[k].term /\ l[j].term \in Nat /\ l[k].term \in Nat
<1>1. /\ l[k] \in LogEntry /\ l[j] \in LogEntry /\ k \in DOMAIN l
      /\ j \in 1 .. Len(l) /\ j \in Nat /\ k \in Nat
  OBVIOUS
<1>2. l[k].term \in Nat /\ l[j].term \in Nat
  BY <1>1 DEF LogEntry, LogEntryOf
<1> DEFINE t == l[k].term
<1>3. Agree(l, L[t], k) /\ L[t] \in Seq(LogEntry) /\ TermsUpTo(L[t], t)
  BY <1>1, <1>2 DEF OnLedger, Ledger, LedgerWellFormed
<1> HIDE DEF t
<1>4. l[j] = L[t][j] /\ j \in DOMAIN L[t]
  BY <1>1, <1>3 DEF Agree
<1>5. l[j].term \in 1 .. t
  BY <1>3, <1>4 DEF TermsUpTo
<1> QED BY <1>2, <1>5 DEF t

\* An entry of term t, in a log on the ledger, is the one of the ledger.
LEMMA HasAgrees ==
  ASSUME NEW L \in Ledger, NEW l \in Seq(LogEntry), OnLedger(L, l),
         NEW n, NEW t, Has(l, n, t)
  PROVE  /\ n \in Nat /\ n \in 1 .. Len(l) /\ n \in DOMAIN l
         /\ Agree(l, L[t], n)
<1>1. n \in DOMAIN l /\ l[n].term = t
  BY DEF Has
<1> QED BY <1>1 DEF OnLedger

\* Logs that agree have the same entries.
LEMMA AgreeHas ==
  ASSUME NEW l \in Seq(LogEntry), NEW r \in Seq(LogEntry),
         NEW k \in Nat, Agree(l, r, k), NEW n, NEW t, Has(l, n, t), n <= k
  PROVE  Has(r, n, t)
BY DEF Agree, Has

\* All quorums are of one size, and any two share a node.
LEMMA AnyQuorums ==
  ASSUME NEW Q \in SUBSET Node, NEW R \in SUBSET Node,
         \E i \in Node : Cardinality(Q) >= Quorum(i),
         \E i \in Node : Cardinality(R) >= Quorum(i)
  PROVE  \E v \in Node : v \in Q /\ v \in R
<1>1. PICK i \in Node : Cardinality(Q) >= Quorum(i)
  OBVIOUS
<1>2. PICK j \in Node : Cardinality(R) >= Quorum(j)
  OBVIOUS
<1>3. Q \cap R # {}
  BY <1>1, <1>2, NodeAssumption, QuorumsIntersect DEF Quorum, Peers
<1> QED BY <1>3

(***************************************************************************)
(* What a quorum took part in cannot be blocked by another.                *)
(***************************************************************************)
LEMMA ChosenNotBlocked ==
  ASSUME NEW L, NEW n, NEW t, Chosen(L, n, t), Blocked(L, n, t)
  PROVE  FALSE
<1>1. PICK Q \in SUBSET Node :
        /\ \E i \in Node : Cardinality(Q) >= Quorum(i)
        /\ \A v \in Q : Holder(L, v, n, t)
  BY DEF Chosen
<1>2. PICK R \in SUBSET Node :
        /\ \E i \in Node : Cardinality(R) >= Quorum(i)
        /\ \A v \in R : ~ Holder(L, v, n, t)
  BY DEF Blocked
<1>3. PICK v \in Node : v \in Q /\ v \in R
  BY <1>1, <1>2, AnyQuorums
<1> QED BY <1>1, <1>2, <1>3

\* A chosen entry is on the ledger.
LEMMA ChosenHas ==
  ASSUME NEW L, NEW n, NEW t, Chosen(L, n, t)
  PROVE  Has(L[t], n, t)
<1>1. PICK Q \in SUBSET Node :
        /\ \E i \in Node : Cardinality(Q) >= Quorum(i)
        /\ \A v \in Q : Holder(L, v, n, t)
  BY DEF Chosen
<1>2. PICK v \in Node : v \in Q
  BY <1>1, AnyQuorums
<1> QED BY <1>1, <1>2 DEF Holder

\* Whoever elected a leader has left the terms before it.
LEMMA ElectorsLeft ==
  ASSUME TypeOK, CastsStored, NEW c \in Node, NEW u \in Nat, Elected(c, u)
  PROVE  \E Q \in SUBSET Node :
           /\ \E i \in Node : Cardinality(Q) >= Quorum(i)
           /\ \A v \in Q : Cast(v, c, u) /\ disk[v].current_term >= u
<1>1. PICK Q \in SUBSET Node :
        Cardinality(Q) >= Quorum(c) /\ \A v \in Q : Cast(v, c, u)
  BY DEF Elected
<1>2. ASSUME NEW v \in Q PROVE disk[v].current_term >= u
  <2>1. PICK m \in CastBy(v, c) : m.term = u
    BY <1>1 DEF Cast
  <2>2. disk[v].current_term \in Nat /\ v \in Node
    BY DEF TypeOK, PersistentState
  <2> QED BY <2>1, <2>2 DEF CastsStored
<1> QED BY <1>1, <1>2

----------------------------------------------------------------------------
(* A turn of i takes the ledger L to M, and acknowledges no foreign suffix *)

Turn(L, M, i) ==
  /\ i \in Node
  /\ L \in Ledger /\ M \in Ledger /\ M = LedgerAfter(L, i)
  /\ TypeInv /\ TypeInv' /\ ElectionInv /\ ElectionInv'
  /\ LedgerInv(L) /\ LedgerInv(M)'
  /\ CommitInv(L)
  /\ CommitStep(i)
  /\ ~ stale_ack'

\* What a turn does to the ledger, to messages and to stored terms.
LEMMA TurnGrows ==
  ASSUME NEW L, NEW M, NEW i, Turn(L, M, i)
  PROVE  /\ \A t \in Nat : /\ L[t] \in Seq(LogEntry) /\ M[t] \in Seq(LogEntry)
                           /\ Agree(L[t], M[t], Len(L[t]))
         /\ \A t \in Nat : M[t] # L[t] =>
              /\ t = current_term[i] /\ current_term'[i] = t
              /\ role'[i] = "Leader" /\ M[t] = log'[i]
         /\ messages \subseteq messages' /\ Acks \subseteq Acks'
         /\ \A j \in Node : /\ disk[j].current_term \in Nat
                            /\ disk'[j].current_term \in Nat
                            /\ disk[j].current_term <= disk'[j].current_term
<1>1. /\ i \in Node /\ L \in Ledger /\ M = LedgerAfter(L, i) /\ TypeInv /\ TypeInv'
      /\ ElectionInv /\ LedgerInv(L) /\ LogStep(i) /\ M \in Ledger
  BY DEF Turn, CommitStep
<1>2. /\ Grows(L, M)
      /\ role'[i] = "Leader" => M[current_term'[i]] = log'[i]
      /\ \A t \in Nat : M[t] # L[t] =>
           t = current_term[i] /\ current_term'[i] = t /\ role'[i] = "Leader"
  BY <1>1, LedgerGrows
<1>3. /\ TypeOK /\ TypeOK' /\ StorageBehind /\ VoteStep(i) /\ Sends(i)
  BY <1>1 DEF TypeInv, ElectionInv, LogStep, VoteStep
<1>4. \A j \in Node : disk[j].current_term <= disk'[j].current_term
  BY <1>1, <1>3, StoredTermGrows
<1>5. messages \subseteq messages' /\ Acks \subseteq Acks'
  BY <1>3 DEF Sends, Acks
<1>6. \A j \in Node : disk[j].current_term \in Nat /\ disk'[j].current_term \in Nat
  BY <1>3 DEF TypeOK, PersistentState
<1> QED BY <1>1, <1>2, <1>4, <1>5, <1>6 DEF Grows, Ledger

\* Elections and acknowledgements are never undone.
LEMMA TurnKeepsMessages ==
  ASSUME NEW L, NEW M, NEW i, Turn(L, M, i), NEW v \in Node, NEW t
  PROVE  /\ \A c \in Node : Cast(v, c, t) => Cast(v, c, t)'
         /\ Elected(v, t) => Elected(v, t)'
         /\ \A n : Acked(v, n, t) => Acked(v, n, t)'
<1>1. i \in Node /\ Sends(i)
  BY DEF Turn, CommitStep, LogStep, VoteStep
<1>2. Acks \subseteq Acks'
  BY TurnGrows
<1>3. \A n : Acked(v, n, t) => Acked(v, n, t)'
  BY <1>2 DEF Acked
<1> QED BY <1>1, <1>3, ElectedStays

\* Who took part keeps having taken part.
LEMMA HolderStays ==
  ASSUME NEW L, NEW M, NEW i, Turn(L, M, i), NEW v \in Node, NEW n,
         NEW t \in Nat, Holder(L, v, n, t)
  PROVE  Holder(M, v, n, t)'
<1>1. Has(M[t], n, t)
  <2>1. /\ L[t] \in Seq(LogEntry) /\ M[t] \in Seq(LogEntry)
        /\ Agree(L[t], M[t], Len(L[t])) /\ Has(L[t], n, t)
    BY TurnGrows DEF Holder
  <2>2. n <= Len(L[t]) /\ Len(L[t]) \in Nat
    BY <2>1 DEF Has
  <2> QED BY <2>1, <2>2, AgreeHas
<1>2. Elected(v, t)' \/ Acked(v, n, t)'
  BY TurnKeepsMessages DEF Holder
<1> QED BY <1>1, <1>2 DEF Holder

(***************************************************************************)
(* A log without an unverified suffix is, after accepting a message, all   *)
(* of it a piece of the sender's log.                                      *)
(***************************************************************************)
LEMMA AcknowledgedAgrees ==
  ASSUME TypeInv, TypeInv', NEW L \in Ledger, LedgerInv(L), StorageBehind,
         NEW i \in Node, NEW a \in Appends, AcceptsLog(i, a),
         UnverifiedSuffix(log'[i], a) = {}
  PROVE  /\ Agree(log'[i], L[a.term], Len(log'[i]))
         /\ log'[i] \in Seq(LogEntry) /\ L[a.term] \in Seq(LogEntry)
<1> DEFINE n == a.prev_log_index + Len(a.entries)
<1>1. a \in AppendEntries /\ Contiguous(a.entries, a.prev_log_index)
  BY MessageKinds DEF Appends, TypeInv, TypeOK, LogContiguous
<1>2. LastNewIndex(a.prev_log_index, a.entries) = n
  BY <1>1, LastNewIs DEF AppendEntries
<1>3. /\ log'[i] \in Seq(LogEntry) /\ L[a.term] \in Seq(LogEntry)
      /\ OnLedger(L, log'[i])
      /\ n \in Nat /\ Agree(log'[i], L[a.term], n)
  BY AcceptedOnLedger
<1> HIDE DEF n
<1>4. n <= Len(log'[i]) /\ Len(log'[i]) \in Nat
  BY <1>3 DEF Agree
<1>5. CASE Len(log'[i]) = n
  BY <1>3, <1>5
<1>6. CASE Len(log'[i]) # n
  <2> DEFINE k == Len(log'[i])
  <2>1. k \in DOMAIN log'[i] /\ k > n
    BY <1>3, <1>4, <1>6
  <2>2. log'[i][k].index = k
    BY <2>1 DEF TypeInv, LogContiguous, Contiguous
  <2>3. log'[i][k].term = a.term
    BY <1>2, <2>1, <2>2 DEF UnverifiedSuffix
  <2>4. Agree(log'[i], L[log'[i][k].term], k)
    BY <1>3, <2>1 DEF OnLedger
  <2> QED BY <1>3, <2>3, <2>4
<1> QED BY <1>5, <1>6

\* What a turn acknowledges anew.
LEMMA NewAcks ==
  ASSUME NEW L, NEW M, NEW i, Turn(L, M, i), NEW m \in Acks' \ Acks
  PROVE  /\ m.from = i /\ m.term \in Nat /\ m.match_index = Len(log'[i])
         /\ disk'[i].current_term = m.term
         /\ Agree(log'[i], L[m.term], Len(log'[i]))
<1>1. /\ i \in Node /\ AcksSent(i) /\ ~ stale_ack' /\ StorageBehind
      /\ TypeInv /\ TypeInv' /\ L \in Ledger /\ LedgerInv(L)
  BY DEF Turn, CommitStep, ElectionInv
<1>2. m.from = i /\ m.match_index = Len(log'[i])
  BY <1>1 DEF AcksSent
<1>3. PICK a \in Appends : /\ AcceptsLog(i, a) /\ m.term = a.term
                           /\ UnverifiedSuffix(log'[i], a) = {}
  BY <1>1 DEF AcksSent
<1>4. Agree(log'[i], L[a.term], Len(log'[i]))
  BY <1>1, <1>3, AcknowledgedAgrees
<1>5. a.term \in Nat /\ disk'[i].current_term = a.term
  BY <1>1, <1>3, MessageKinds DEF AcceptsLog, AllSaved, Saved, Appends, TypeInv, TypeOK
<1> QED BY <1>2, <1>3, <1>4, <1>5

\* An entry that a turn puts on the ledger was appended by the leader.
LEMMA NewEntry ==
  ASSUME NEW L, NEW M, NEW i, Turn(L, M, i), NEW n, NEW t \in Nat,
         Has(M[t], n, t), ~ Has(L[t], n, t)
  PROVE  /\ t = current_term[i] /\ current_term'[i] = t
         /\ role[i] = "Leader" /\ role'[i] = "Leader"
         /\ M[t] = log'[i] /\ disk'[i].current_term = t
         /\ messages' = messages
         /\ n > Len(L[t])
<1>1. /\ i \in Node /\ L \in Ledger /\ TypeOK /\ ElectionInv /\ LedgerInv(L)
      /\ LogStep(i) /\ ActiveStored'
  BY DEF Turn, CommitStep, TypeInv, LedgerInv
<1>2. /\ L[t] \in Seq(LogEntry) /\ M[t] \in Seq(LogEntry)
      /\ Agree(L[t], M[t], Len(L[t])) /\ Len(L[t]) \in Nat
      /\ t = current_term[i] /\ current_term'[i] = t
      /\ role'[i] = "Leader" /\ M[t] = log'[i]
  BY TurnGrows
<1>3. n > Len(L[t])
  <2>1. n \in Nat /\ n \in DOMAIN M[t]
    BY <1>2 DEF Has
  <2>2. ASSUME n <= Len(L[t]) PROVE FALSE
    <3>1. n \in DOMAIN L[t] /\ L[t][n] = M[t][n]
      BY <1>2, <2>1, <2>2 DEF Agree
    <3> QED BY <3>1 DEF Has
  <2> QED BY <1>2, <2>1, <2>2
<1>4. disk'[i].current_term = t
  BY <1>1, <1>2 DEF ActiveStored
<1>5. log[i] \in Seq(LogEntry) /\ OnLedger(L, log[i])
  BY <1>1 DEF TypeOK, LedgerInv, LogsOnLedger
<1>6. role[i] = "Leader" /\ ExtendsLog(i)
  <2>1. CASE log'[i] = log[i]
    <3>1. Agree(log[i], L[t], n) /\ n \in Nat
      BY <1>2, <1>5, <2>1, HasAgrees, <1>1
    <3> QED BY <1>2, <1>3, <3>1 DEF Agree
  <2>2. CASE log'[i] # log[i]
    BY <1>1, <1>2, <2>2, LeaderTurn DEF KeepsLog
  <2> QED BY <2>1, <2>2
<1>7. messages' = messages
  BY <1>6 DEF ExtendsLog
<1> QED BY <1>2, <1>3, <1>4, <1>6, <1>7

\* ElectedOnce, of the state after a turn.
LEMMA ElectedOnceAfter ==
  ASSUME CastOnce', NEW c \in Node, NEW d \in Node, NEW term,
         Elected(c, term)', Elected(d, term)'
  PROVE  c = d
<1>1. PICK Q \in SUBSET Node :
        Cardinality(Q) >= Quorum(c) /\ \A v \in Q : Cast(v, c, term)'
  BY DEF Elected
<1>2. PICK R \in SUBSET Node :
        Cardinality(R) >= Quorum(d) /\ \A v \in R : Cast(v, d, term)'
  BY DEF Elected
<1>3. PICK v \in Node : v \in Q /\ v \in R
  BY <1>1, <1>2, AnyQuorums
<1> QED BY <1>1, <1>2, <1>3 DEF CastOnce, Cast

(***************************************************************************)
(* Who takes part anew in replicating an entry is the node whose turn it   *)
(* is; it has the entry, and the entry's term is the one it has stored.    *)
(***************************************************************************)
LEMMA NewHolder ==
  ASSUME NEW L, NEW M, NEW i, Turn(L, M, i), NEW v \in Node, NEW n,
         NEW t \in Nat, Holder(M, v, n, t)', ~ Holder(L, v, n, t)
  PROVE  v = i /\ disk'[i].current_term = t /\ Has(log'[i], n, t)
<1>1. /\ i \in Node /\ L \in Ledger /\ TypeInv' /\ ElectionInv /\ ElectionInv'
      /\ LedgerInv(L) /\ AcksOnLedger(L)
  BY DEF Turn, CommitInv
<1>2. Has(M[t], n, t) /\ (Elected(v, t)' \/ Acked(v, n, t)')
  BY DEF Holder
<1>3. CASE ~ Has(L[t], n, t)
  <2>1. /\ t = current_term[i] /\ role[i] = "Leader"
        /\ M[t] = log'[i] /\ disk'[i].current_term = t
        /\ messages' = messages /\ n > Len(L[t])
    BY <1>2, <1>3, NewEntry
  <2>2. Elected(v, t)' = Elected(v, t) /\ Acked(v, n, t)' = Acked(v, n, t)
    BY <2>1 DEF Elected, Cast, CastBy, Acked, Acks
  <2>3. ASSUME Acked(v, n, t) PROVE FALSE
    <3>1. PICK m \in Acks : m.term = t /\ m.match_index >= n
      BY <2>3 DEF Acked
    <3>2. m.match_index <= Len(L[t])
      BY <1>1, <3>1 DEF AcksOnLedger
    <3>3. m.match_index \in Nat /\ Len(L[t]) \in Nat /\ n \in Nat
      <4>1. m \in AppendEntriesResponse
        BY MessageKinds DEF Acks, Turn, TypeInv, TypeOK
      <4>2. L[t] \in Seq(LogEntry) /\ M[t] \in Seq(LogEntry)
        BY TurnGrows
      <4> QED BY <1>2, <4>1, <4>2 DEF AppendEntriesResponse, Has
    <3> QED BY <2>1, <3>1, <3>2, <3>3
  <2>4. v = i
    <3>1. Elected(v, t) /\ Elected(i, t)
      BY <1>1, <1>2, <2>1, <2>2, <2>3 DEF ElectionInv, LeadersElected
    <3> QED BY <1>1, <3>1, ElectedOnce DEF ElectionInv
  <2> QED BY <1>2, <2>1, <2>4
<1>4. CASE Has(L[t], n, t)
  <2>1. ~ Elected(v, t) /\ ~ Acked(v, n, t)
    BY <1>4 DEF Holder
  <2>2. ~ Elected(v, t)'
    <3>1. L[t] # << >>
      BY <1>4 DEF Has
    <3>2. PICK c \in Node : Elected(c, t)
      BY <1>1, <3>1 DEF LedgerInv, LedgerElected, Ledger
    <3>3. Elected(c, t)'
      BY <3>2, TurnKeepsMessages
    <3>4. Elected(v, t)' => v = c
      BY <1>1, <3>3, ElectedOnceAfter DEF ElectionInv
    <3> QED BY <2>1, <3>2, <3>4
  <2>3. PICK m \in Acks' : m.from = v /\ m.term = t /\ m.match_index >= n
    BY <1>2, <2>2 DEF Acked
  <2>4. m \notin Acks
    BY <2>1, <2>3 DEF Acked
  <2>5. /\ v = i /\ disk'[i].current_term = t
        /\ m.match_index = Len(log'[i]) /\ Agree(log'[i], L[t], Len(log'[i]))
    BY <2>3, <2>4, NewAcks
  <2>6. Has(log'[i], n, t)
    <3>1. log'[i] \in Seq(LogEntry) /\ L[t] \in Seq(LogEntry)
      BY <1>1, TurnGrows DEF TypeInv, TypeOK
    <3>2. Len(log'[i]) \in Nat /\ n <= Len(log'[i]) /\ Agree(L[t], log'[i], Len(log'[i]))
      BY <2>3, <2>5, <3>1, AgreeSym
    <3> QED BY <1>4, <3>1, <3>2, AgreeHas
  <2> QED BY <2>5, <2>6
<1> QED BY <1>3, <1>4

(***************************************************************************)
(* Blocked entries stay blocked: the nodes of the blocking quorum have     *)
(* stored a later term, and will not take part any more.                   *)
(***************************************************************************)
LEMMA BlockedStays ==
  ASSUME NEW L, NEW M, NEW i, Turn(L, M, i), NEW n, NEW t \in Nat,
         Blocked(L, n, t)
  PROVE  Blocked(M, n, t)'
<1>1. PICK Q \in SUBSET Node :
        /\ \E j \in Node : Cardinality(Q) >= Quorum(j)
        /\ \A v \in Q : disk[v].current_term > t /\ ~ Holder(L, v, n, t)
  BY DEF Blocked
<1>2. ASSUME NEW v \in Q
      PROVE  disk'[v].current_term > t /\ ~ Holder(M, v, n, t)'
  <2>1. v \in Node /\ disk[v].current_term > t /\ ~ Holder(L, v, n, t)
    BY <1>1
  <2>2. disk'[v].current_term > t
    BY <2>1, TurnGrows
  <2>3. ~ Holder(M, v, n, t)'
    <3> SUFFICES ASSUME Holder(M, v, n, t)' PROVE FALSE
      OBVIOUS
    <3>1. disk'[v].current_term = t
      BY <2>1, NewHolder
    <3> QED BY <2>2, <3>1
  <2> QED BY <2>2, <2>3
<1> QED BY <1>1, <1>2 DEF Blocked

\* Chosen entries stay chosen.
LEMMA ChosenStays ==
  ASSUME NEW L, NEW M, NEW i, Turn(L, M, i), NEW n, NEW t \in Nat,
         Chosen(L, n, t)
  PROVE  Chosen(M, n, t)'
<1>1. PICK Q \in SUBSET Node :
        /\ \E j \in Node : Cardinality(Q) >= Quorum(j)
        /\ \A v \in Q : Holder(L, v, n, t)
  BY DEF Chosen
<1>2. \A v \in Q : Holder(M, v, n, t)'
  BY <1>1, HolderStays
<1> QED BY <1>1, <1>2 DEF Chosen

\* A committed prefix stays committed, in every log that has it.
LEMMA CommittedStays ==
  ASSUME NEW L, NEW M, NEW i, Turn(L, M, i),
         NEW l \in Seq(LogEntry), NEW r \in Seq(LogEntry), NEW n \in Nat,
         NEW t \in Nat, NEW u \in Nat, t <= u,
         CommittedBy(L, l, n, t), n = 0 \/ Agree(r, l, n)
  PROVE  CommittedBy(M, r, n, u)'
<1>1. CASE n = 0
  BY <1>1 DEF CommittedBy
<1>2. CASE n # 0
  <2>1. PICK x \in DOMAIN L : \E k \in DOMAIN L[x] :
          x <= t /\ n <= k /\ Chosen(L, k, x) /\ Agree(l, L[x], n)
    BY <1>2 DEF CommittedBy
  <2>2. PICK k \in DOMAIN L[x] :
          x <= t /\ n <= k /\ Chosen(L, k, x) /\ Agree(l, L[x], n)
    BY <2>1
  <2>3. /\ x \in Nat /\ x \in DOMAIN M /\ L[x] \in Seq(LogEntry)
        /\ M[x] \in Seq(LogEntry) /\ Agree(L[x], M[x], Len(L[x]))
    BY TurnGrows DEF Turn, Ledger
  <2>4. Chosen(M, k, x)'
    BY <2>2, <2>3, ChosenStays
  <2>5. k \in DOMAIN M[x] /\ k \in Nat /\ k <= Len(L[x]) /\ Len(L[x]) \in Nat
    BY <2>3 DEF Agree
  <2>6. Agree(r, L[x], n)
    BY <1>2, <2>2, <2>3, AgreeTrans
  <2>7. Agree(r, M[x], n)
    <3>1. n <= Len(L[x])
      BY <2>2, <2>5
    <3>2. Agree(L[x], M[x], n)
      BY <2>3, <2>5, <3>1, AgreeLess
    <3> QED BY <2>3, <2>6, <3>2, AgreeTrans
  <2>8. x <= u /\ x \in DOMAIN M
    BY <2>2, <2>3
  <2>9. n <= k
    BY <2>2
  <2>10. \E y \in DOMAIN M : \E b \in DOMAIN M[y] :
           y <= u /\ n <= b /\ Chosen(M, b, y)' /\ Agree(r, M[y], n)
    BY <2>4, <2>5, <2>7, <2>8, <2>9
  <2> QED BY <2>10 DEF CommittedBy
<1> QED BY <1>1, <1>2

\* Acknowledgements stay within the leader's log.
LEMMA TurnKeepsAcks ==
  ASSUME NEW L, NEW M, NEW i, Turn(L, M, i)
  PROVE  AcksOnLedger(M)'
<1> SUFFICES ASSUME NEW m \in Acks'
             PROVE  /\ m.match_index <= Len(M[m.term])
                    /\ disk'[m.from].current_term >= m.term
  BY DEF AcksOnLedger
<1>1. m.from \in Node /\ m.term \in Nat /\ m.match_index \in Nat
  <2>1. m \in Message /\ m.type = "AppendEntriesResponse"
    BY DEF Acks, Turn, TypeInv, TypeOK
  <2> QED BY <2>1, MessageKinds DEF AppendEntriesResponse
<1>2. /\ L[m.term] \in Seq(LogEntry) /\ M[m.term] \in Seq(LogEntry)
      /\ Len(L[m.term]) \in Nat /\ Len(M[m.term]) \in Nat
      /\ Len(L[m.term]) <= Len(M[m.term])
  BY <1>1, TurnGrows DEF Agree
<1>3. CASE m \in Acks
  <2>1. m.match_index <= Len(L[m.term]) /\ disk[m.from].current_term >= m.term
    BY <1>3 DEF Turn, CommitInv, AcksOnLedger
  <2>2. m.match_index <= Len(M[m.term])
    BY <1>1, <1>2, <2>1
  <2>3. /\ disk'[m.from].current_term >= disk[m.from].current_term
        /\ disk'[m.from].current_term \in Nat /\ disk[m.from].current_term \in Nat
    BY <1>1, TurnGrows DEF Turn, TypeInv, TypeOK, PersistentState
  <2> QED BY <1>1, <2>1, <2>2, <2>3
<1>4. CASE m \notin Acks
  <2>1. /\ m.from = i /\ m.match_index = Len(log'[i])
        /\ disk'[i].current_term = m.term
        /\ Agree(log'[i], L[m.term], Len(log'[i]))
    BY <1>4, NewAcks
  <2> QED BY <1>1, <1>2, <2>1 DEF Agree
<1> QED BY <1>3, <1>4

\* Match indices stay acknowledged.
LEMMA TurnKeepsMatch ==
  ASSUME NEW L, NEW M, NEW i, Turn(L, M, i)
  PROVE  MatchAcked'
<1>1. /\ i \in Node /\ MatchAcked /\ VoteStep(i) /\ MatchStep(i)
      /\ OthersKeepVolatile(i)
  BY DEF Turn, CommitInv, CommitStep, LogStep
<1> SUFFICES ASSUME NEW j \in Node, role'[j] = "Leader", NEW p \in Peers(j)
             PROVE  \/ match_index'[j][p] = 0
                    \/ Acked(p, match_index[j][p], current_term[j])'
  BY DEF MatchAcked
<1>2. p \in Node
  BY DEF Peers
<1>3. PICK n, t : n = match_index'[j][p] /\ t = current_term'[j]
  OBVIOUS
<1>4. n = 0 \/ Acked(p, n, t)
  <2>1. CASE j = i
    <3>1. current_term'[i] = current_term[i]
      BY <1>1, <2>1 DEF VoteStep, Leadership
    <3> QED BY <1>1, <1>3, <2>1, <3>1 DEF MatchStep, MatchAcked
  <2>2. CASE j # i
    <3>1. /\ role[j] = "Leader" /\ current_term'[j] = current_term[j]
          /\ match_index'[j] = match_index[j]
      BY <1>1, <2>2 DEF VoteStep, OthersKeep, OthersKeepVolatile
    <3> QED BY <1>1, <1>3, <3>1 DEF MatchAcked
  <2> QED BY <2>1, <2>2
<1>5. n = 0 \/ Acked(p, n, t)'
  BY <1>2, <1>4, TurnKeepsMessages
<1> QED BY <1>3, <1>5 DEF Acked

(***************************************************************************)
(* What a node shares with a leader up to its own term it keeps, unless it *)
(* is blocked: a later leader, whose message could overwrite it, has it.   *)
(***************************************************************************)
LEMMA TurnKeepsPrefix ==
  ASSUME NEW L, NEW M, NEW i, Turn(L, M, i), NEW u \in Nat, NEW n \in Nat,
         NEW k, Has(L[u], k, u), n <= k, ~ Blocked(L, k, u),
         u <= current_term[i], Agree(log[i], L[u], n)
  PROVE  Agree(log'[i], log[i], n)
<1>1. /\ i \in Node /\ L \in Ledger /\ TypeInv /\ StorageBehind /\ LedgerInv(L)
      /\ log[i] \in Seq(LogEntry) /\ log'[i] \in Seq(LogEntry)
      /\ current_term[i] \in Nat /\ LogStep(i) /\ LedgerComplete(L)
      /\ L[u] \in Seq(LogEntry) /\ Len(log[i]) \in Nat
  <2>1. /\ i \in Node /\ L \in Ledger /\ TypeInv /\ TypeInv' /\ ElectionInv
        /\ LedgerInv(L) /\ LogStep(i) /\ CommitInv(L)
    BY DEF Turn, CommitStep
  <2>2. /\ log[i] \in Seq(LogEntry) /\ log'[i] \in Seq(LogEntry)
        /\ current_term[i] \in Nat
    BY <2>1 DEF TypeInv, TypeOK
  <2>3. StorageBehind /\ LedgerComplete(L)
    BY <2>1 DEF ElectionInv, CommitInv
  <2>4. L[u] \in Seq(LogEntry)
    BY <2>1 DEF Ledger
  <2> QED BY <2>1, <2>2, <2>3, <2>4
<1>2. n <= Len(log[i])
  BY DEF Agree
<1>3. CASE log'[i] = log[i]
  BY <1>1, <1>2, <1>3 DEF Agree
<1>4. CASE ExtendsLog(i)
  <2>1. PICK entry \in LogEntry : log'[i] = Append(log[i], entry)
    BY <1>4 DEF ExtendsLog
  <2>2. Len(log'[i]) = Len(log[i]) + 1
        /\ \A j \in 1 .. Len(log[i]) : log'[i][j] = log[i][j]
    BY <1>1, <2>1
  <2> QED BY <1>1, <1>2, <2>2 DEF Agree
<1>5. ASSUME NEW a \in Appends, AcceptsLog(i, a), log'[i] # log[i]
      PROVE  Agree(log'[i], log[i], n)
  <2>1. /\ L[a.term] \in Seq(LogEntry)
        /\ PieceOf(a, L[a.term])
        /\ Agree(log[i], L[a.term], n) => Agree(log'[i], log[i], n)
    BY <1>1, <1>5, AcceptedOnLedger
  <2>2. a.term \in Nat /\ u <= a.term /\ a \in AppendEntries
    BY <1>1, <1>5, MessageKinds DEF AcceptsLog, Appends, TypeInv, TypeOK
  <2>3. L[a.term] # << >>
    <3>1. a.entries # << >>
      BY <1>5 DEF AcceptsLog, Reconcile
    <3>2. /\ a.entries \in Seq(LogEntry) /\ a.prev_log_index \in Nat
          /\ a.prev_log_index + Len(a.entries) <= Len(L[a.term])
      BY <2>1, <2>2 DEF AppendEntries, PieceOf
    <3>3. Len(a.entries) > 0
      BY <3>1, <3>2
    <3> QED BY <3>2, <3>3
  <2>4. CASE u = a.term
    BY <2>1, <2>4
  <2>5. CASE u # a.term
    <3>1. Has(L[a.term], k, u)
      <4>1. u < a.term /\ Led(L, a.term) /\ k \in DOMAIN L[u]
        BY <2>2, <2>3, <2>5 DEF Led, Has
      <4> QED BY <1>1, <2>2, <4>1 DEF LedgerComplete, Ledger
    <3>2. OnLedger(L, L[a.term])
      BY <1>1, <2>2 DEF LedgerInv, LedgerWellFormed, Ledger
    <3>3. k \in Nat /\ Agree(L[a.term], L[u], k)
      BY <1>1, <2>1, <3>1, <3>2, HasAgrees
    <3>4. Agree(L[u], L[a.term], k)
      BY <3>3, AgreeSym
    <3>5. Agree(log[i], L[a.term], n)
      BY <1>1, <2>1, <3>3, <3>4, AgreeTrans
    <3> QED BY <2>1, <3>5
  <2> QED BY <2>4, <2>5
<1> QED BY <1>1, <1>3, <1>4, <1>5 DEF LogStep, KeepsLog

\* Whoever took part still has the entry, or it can never be committed.
LEMMA TurnKeepsHolders ==
  ASSUME NEW L, NEW M, NEW i, Turn(L, M, i)
  PROVE  HoldersHold(M)'
<1>1. /\ i \in Node /\ L \in Ledger /\ M \in Ledger /\ TypeInv /\ TypeInv'
      /\ StorageBehind /\ LedgerInv(L) /\ HoldersHold(L) /\ LogStep(i)
  BY DEF Turn, ElectionInv, CommitInv, CommitStep
<1> SUFFICES ASSUME NEW v \in Node, NEW t \in Nat, NEW n \in DOMAIN M[t],
                    Holder(M, v, n, t)'
             PROVE  Has(log'[v], n, t) \/ Blocked(M, n, t)'
  BY <1>1 DEF HoldersHold, Ledger
<1>2. CASE ~ Holder(L, v, n, t)
  BY <1>2, NewHolder
<1>3. CASE Holder(L, v, n, t) /\ Blocked(L, n, t)
  BY <1>3, BlockedStays
<1>4. CASE Holder(L, v, n, t) /\ ~ Blocked(L, n, t)
  <2>1. Has(L[t], n, t) /\ n \in DOMAIN L[t]
    BY <1>4 DEF Holder, Has
  <2>2. Has(log[v], n, t)
    BY <1>1, <1>4, <2>1 DEF HoldersHold, Ledger
  <2>3. CASE v # i
    BY <1>1, <2>2, <2>3 DEF LogStep
  <2>4. CASE v = i
    <3>1. /\ log[i] \in Seq(LogEntry) /\ log'[i] \in Seq(LogEntry)
          /\ OnLedger(L, log[i]) /\ TermsUpTo(log[i], disk[i].current_term)
          /\ disk[i].current_term <= current_term[i]
          /\ disk[i].current_term \in Nat /\ current_term[i] \in Nat
      BY <1>1 DEF TypeInv, TypeOK, PersistentState, LedgerInv, LogsOnLedger,
                  StorageBehind
    <3>2. n \in Nat /\ Agree(log[i], L[t], n)
      BY <1>1, <2>2, <2>4, <3>1, HasAgrees
    <3>3. t <= current_term[i]
      BY <2>2, <2>4, <3>1 DEF TermsUpTo, Has
    <3>4. Agree(log'[i], log[i], n)
      BY <1>4, <2>1, <3>2, <3>3, TurnKeepsPrefix
    <3>5. Agree(log[i], log'[i], n)
      BY <3>4, AgreeSym
    <3> QED BY <2>2, <2>4, <3>1, <3>2, <3>5, AgreeHas
  <2> QED BY <2>3, <2>4
<1> QED BY <1>2, <1>3, <1>4

\* A candidate's requests keep describing its log.
LEMMA TurnKeepsRequests ==
  ASSUME NEW L, NEW M, NEW i, Turn(L, M, i)
  PROVE  RequestsDescribeLog'
<1>1. /\ i \in Node /\ TypeOK /\ TypeOK' /\ StorageBehind /\ CastsStored
      /\ RequestsDescribeLog /\ LogStep(i) /\ VoteStep(i) /\ Sends(i)
      /\ AsksForVotes(i) /\ GivesVotes(i)
  BY DEF Turn, TypeInv, ElectionInv, CommitInv, CommitStep, LogStep, VoteStep
<1>2. ASSUME NEW v \in Node, NEW c \in Node, NEW m \in CastBy(v, c)'
      PROVE  \E r \in CastBy(c, c)' : r.term = m.term
  <2>1. CASE m \in messages
    <3>1. Cast(c, c, m.term)
      BY <1>1, <1>2, <2>1 DEF RequestsDescribeLog, CastBy
    <3> QED BY <3>1, TurnGrows DEF Cast, CastBy
  <2>2. CASE m \notin messages /\ m.type = "RequestVote"
    BY <1>2, <2>2 DEF CastBy
  <2>3. CASE m \notin messages /\ m.type # "RequestVote"
    <3>1. PICK r \in messages :
            r.type = "RequestVote" /\ r.from = m.to /\ r.term = m.term
      <4>1. /\ m \in messages' \ messages
            /\ m.type = "RequestVoteResponse" /\ m.vote_granted
        BY <1>2, <2>3 DEF CastBy
      <4> QED BY <1>1, <4>1 DEF GivesVotes
    <3>2. m.to = c
      BY <1>2, <2>3 DEF CastBy
    <3> QED BY <3>1, <3>2, TurnGrows DEF CastBy
  <2> QED BY <2>1, <2>2, <2>3
<1>3. ASSUME NEW m \in messages', m.type = "RequestVote",
             role'[m.from] = "Candidate", current_term'[m.from] = m.term
      PROVE  /\ m.last_log_index = last_log_index(log'[m.from])
             /\ m.last_log_term = last_log_term(log'[m.from])
  <2>1. m.from \in Node /\ m.term \in Nat
    BY <1>1, <1>3, MessageKinds DEF TypeOK
  <2>2. log'[m.from] = log[m.from]
    BY <1>1, <1>3, <2>1 DEF LogStep, KeepsLog, ExtendsLog, AcceptsLog
  <2>3. CASE m \notin messages
    <3>1. m.from = i
      BY <1>1, <1>3, <2>3 DEF Sends
    <3> QED BY <1>1, <1>3, <2>2, <2>3, <3>1 DEF AsksForVotes
  <2>4. CASE m \in messages
    <3>1. disk[m.from].current_term >= m.term
      <4>1. m \in CastBy(m.from, m.from)
        BY <1>3, <2>4 DEF CastBy
      <4>2. disk[m.from].current_term \in Nat
        BY <1>1, <2>1 DEF TypeOK, PersistentState
      <4> QED BY <1>1, <2>1, <4>1, <4>2 DEF CastsStored
    <3>2. current_term[m.from] >= m.term
      <4>1. /\ disk[m.from].current_term <= current_term[m.from]
            /\ disk[m.from].current_term \in Nat /\ current_term[m.from] \in Nat
        BY <1>1, <2>1 DEF StorageBehind, TypeOK, PersistentState
      <4> QED BY <2>1, <3>1, <4>1
    <3>3. role[m.from] = "Candidate" /\ current_term[m.from] = m.term
      <4>1. CASE m.from # i
        BY <1>1, <1>3, <2>1, <4>1 DEF VoteStep, OthersKeep
      <4>2. CASE m.from = i
        <5>1. current_term[i] \in Nat /\ current_term'[i] \in Nat
          BY <1>1 DEF TypeOK
        <5> QED BY <1>1, <1>3, <2>1, <3>2, <4>2, <5>1 DEF LogStep, Standing
      <4> QED BY <4>1, <4>2
    <3> QED BY <1>1, <1>3, <2>2, <2>4, <3>3 DEF RequestsDescribeLog
  <2> QED BY <2>3, <2>4
<1> QED BY <1>2, <1>3 DEF RequestsDescribeLog, Cast

\* Whoever leads or led a term was elected in it.
LEMMA LedElected ==
  ASSUME ElectionInv, NEW L \in Ledger, LedgerInv(L), NEW u \in Nat, Led(L, u)
  PROVE  \E c \in Node : Elected(c, u)
<1>1. CASE L[u] # << >>
  BY <1>1 DEF LedgerInv, LedgerElected, Ledger
<1>2. CASE L[u] = << >>
  BY <1>2 DEF Led, ElectionInv, LeadersElected
<1> QED BY <1>1, <1>2

(***************************************************************************)
(* A new leader's log has every entry that could still be committed: a     *)
(* quorum voted for it, and left the entry's term.  A voter that took part *)
(* had the entry, so the leader's log has it; if none did, they block it.  *)
(***************************************************************************)
LEMMA NewLeaderComplete ==
  ASSUME NEW L, NEW M, NEW i, Turn(L, M, i), role[i] = "Candidate",
         NEW u \in Nat, u = current_term[i], Elected(i, u),
         NEW t \in Nat, t < u, NEW n \in DOMAIN L[t], Has(L[t], n, t)
  PROVE  Has(log[i], n, t) \/ Blocked(L, n, t)
<1>1. /\ i \in Node /\ TypeOK /\ CastsStored /\ VotesAreSafe(L) /\ L \in Ledger
  BY DEF Turn, TypeInv, ElectionInv, CommitInv
<1>2. PICK Q \in SUBSET Node :
        /\ \E j \in Node : Cardinality(Q) >= Quorum(j)
        /\ \A v \in Q : Cast(v, i, u) /\ disk[v].current_term >= u
  BY <1>1, ElectorsLeft
<1>3. CASE \E v \in Q : Holder(L, v, n, t)
  BY <1>1, <1>2, <1>3 DEF VotesAreSafe, Ledger
<1>4. CASE \A v \in Q : ~ Holder(L, v, n, t)
  <2>1. \A v \in Q : disk[v].current_term > t
    <3>1. \A v \in Q : disk[v].current_term \in Nat
      BY <1>1 DEF TypeOK, PersistentState
    <3> QED BY <1>2, <3>1
  <2> QED BY <1>2, <1>4, <2>1 DEF Blocked
<1> QED BY <1>3, <1>4

\* Later leaders have every entry that could still be committed.
LEMMA TurnKeepsComplete ==
  ASSUME NEW L, NEW M, NEW i, Turn(L, M, i)
  PROVE  LedgerComplete(M)'
<1>1. /\ i \in Node /\ L \in Ledger /\ M \in Ledger /\ TypeOK /\ TypeOK'
      /\ ElectionInv /\ ElectionInv' /\ LedgerInv(L) /\ LedgerInv(M)'
      /\ LedgerComplete(L) /\ LogStep(i) /\ VoteStep(i)
  BY DEF Turn, TypeInv, CommitInv, CommitStep, LogStep
<1> SUFFICES ASSUME NEW t \in Nat, NEW u \in Nat, NEW n \in DOMAIN M[t],
                    t < u, Led(M, u)', Has(M[t], n, t)
             PROVE  Has(M[u], n, t) \/ Blocked(M, n, t)'
  BY <1>1 DEF LedgerComplete, Ledger
<1>2. /\ L[t] \in Seq(LogEntry) /\ L[u] \in Seq(LogEntry)
      /\ M[u] \in Seq(LogEntry) /\ Agree(L[u], M[u], Len(L[u]))
  BY TurnGrows
<1>3. CASE ~ Has(L[t], n, t)
  \* A leader of t appends it after the quorum of u has left t.
  <2>1. t = current_term[i] /\ disk'[i].current_term = t /\ role'[i] = "Leader"
        /\ current_term'[i] = t /\ M[t] = log'[i] /\ role[i] = "Leader"
    BY <1>3, NewEntry
  <2>2. Led(L, u)
    <3>1. CASE M[u] # << >>
      <4>1. M[u] = L[u]
        BY <2>1, TurnGrows
      <4> QED BY <3>1, <4>1 DEF Led
    <3>2. CASE M[u] = << >>
      <4>1. PICK j \in Node : role'[j] = "Leader" /\ current_term'[j] = u
        BY <3>2 DEF Led
      <4>2. j # i
        BY <2>1, <4>1
      <4>3. role[j] = "Leader" /\ current_term[j] = u
        BY <1>1, <4>1, <4>2 DEF VoteStep, OthersKeep
      <4> QED BY <4>3 DEF Led
    <3> QED BY <3>1, <3>2
  <2>3. PICK c \in Node : Elected(c, u)
    BY <1>1, <2>2, LedElected
  <2>4. PICK Q \in SUBSET Node :
          /\ \E j \in Node : Cardinality(Q) >= Quorum(j)
          /\ \A v \in Q : disk[v].current_term >= u
    BY <1>1, <2>3, ElectorsLeft DEF ElectionInv
  <2>5. ASSUME NEW v \in Q
        PROVE  disk'[v].current_term > t /\ ~ Holder(M, v, n, t)'
    <3>1. v \in Node /\ disk'[v].current_term > t
      BY <2>4, TurnGrows
    <3>2. ~ Holder(L, v, n, t)
      BY <1>3 DEF Holder
    <3>3. ASSUME Holder(M, v, n, t)' PROVE FALSE
      <4>1. disk'[v].current_term = t
        BY <3>1, <3>2, <3>3, NewHolder
      <4> QED BY <3>1, <4>1
    <3> QED BY <3>1, <3>3
  <2> QED BY <2>4, <2>5 DEF Blocked
<1>4. CASE Has(L[t], n, t) /\ Led(L, u)
  <2>1. n \in DOMAIN L[t] /\ n \in Nat
    BY <1>2, <1>4 DEF Has
  <2>2. Has(L[u], n, t) \/ Blocked(L, n, t)
    BY <1>1, <1>4, <2>1 DEF LedgerComplete, Ledger
  <2>3. Has(L[u], n, t) => n <= Len(L[u]) /\ Len(L[u]) \in Nat
    BY <1>2 DEF Has
  <2>4. Has(L[u], n, t) => Has(M[u], n, t)
    BY <1>2, <2>3, AgreeHas
  <2> QED BY <2>2, <2>4, BlockedStays
<1>5. CASE Has(L[t], n, t) /\ ~ Led(L, u)
  <2>1. u = current_term'[i] /\ role'[i] = "Leader"
    <3>1. CASE M[u] # << >>
      <4>1. M[u] # L[u]
        BY <1>5, <3>1 DEF Led
      <4> QED BY <4>1, TurnGrows
    <3>2. CASE M[u] = << >>
      <4>1. PICK j \in Node : role'[j] = "Leader" /\ current_term'[j] = u
        BY <3>2 DEF Led
      <4>2. ASSUME j # i PROVE FALSE
        <5>1. role[j] = "Leader" /\ current_term[j] = u
          BY <1>1, <4>1, <4>2 DEF VoteStep, OthersKeep
        <5> QED BY <1>5, <5>1 DEF Led
      <4> QED BY <4>1, <4>2
    <3> QED BY <3>1, <3>2
  <2>2. /\ role[i] = "Candidate" /\ current_term[i] = u /\ Elected(i, u)
        /\ log'[i] = log[i]
    BY <1>1, <1>5, <2>1, LeaderTurn DEF Led, KeepsLog
  <2>3. n \in DOMAIN L[t]
    BY <1>5 DEF Has
  <2>4. Has(log[i], n, t) \/ Blocked(L, n, t)
    BY <1>5, <2>2, <2>3, NewLeaderComplete
  <2>5. log'[i] = M[u]
    BY <1>1, <2>1 DEF LedgerInv, LeadersOnLedger
  <2> QED BY <2>2, <2>4, <2>5, BlockedStays
<1> QED BY <1>3, <1>4, <1>5

(***************************************************************************)
(* The comparison of logs in handle_request_vote: a candidate at least as  *)
(* up to date as a voter has what the voter has, except what can never be  *)
(* committed.                                                              *)
(***************************************************************************)
LEMMA UpToDateHas ==
  ASSUME NEW L \in Ledger, LedgerInv(L), LedgerComplete(L), TypeInv,
         NEW v \in Node, NEW c \in Node,
         candidate_log_up_to_date(log[v], last_log_term(log[c]),
                                  last_log_index(log[c])),
         NEW t \in Nat, NEW n \in DOMAIN L[t], Has(log[v], n, t)
  PROVE  Has(log[c], n, t) \/ Blocked(L, n, t)
<1> DEFINE lv == log[v]
           lc == log[c]
           kv == Len(lv)
           kc == Len(lc)
           x == last_log_term(lv)
           y == last_log_term(lc)
<1>1. /\ lv \in Seq(LogEntry) /\ lc \in Seq(LogEntry)
      /\ OnLedger(L, lv) /\ OnLedger(L, lc) /\ LedgerWellFormed(L)
      /\ Contiguous(lv, 0) /\ Contiguous(lc, 0)
      /\ TermsUpTo(lv, disk[v].current_term) /\ disk[v].current_term \in Nat
  BY DEF TypeInv, TypeOK, PersistentState, LedgerInv, LogsOnLedger, LogContiguous
<1>2. /\ last_log_index(lv) = kv /\ last_log_index(lc) = kc
      /\ x \in Nat /\ y \in Nat /\ kv \in Nat /\ kc \in Nat
  BY <1>1, LastEntry DEF LogEntry
<1>3. n \in 1 .. kv /\ lv[n].term = t /\ n \in Nat
  BY <1>1 DEF Has
<1>4. kv \in 1 .. kv /\ lv # << >> /\ x = lv[kv].term
  BY <1>2, <1>3 DEF last_log_term
<1>5. t <= x /\ x > 0
  <2>1. lv[n].term <= lv[kv].term
    BY <1>1, <1>3, <1>4, LedgerMonotone
  <2>2. lv[kv].term \in 1 .. disk[v].current_term
    BY <1>1, <1>4 DEF TermsUpTo
  <2> QED BY <1>1, <1>3, <1>4, <2>1, <2>2
<1>6. \/ y > x
      \/ y = x /\ kc >= kv
  BY <1>2 DEF candidate_log_up_to_date
<1>7. lc # << >> /\ kc \in 1 .. kc /\ y = lc[kc].term
  <2>1. lc # << >>
    BY <1>2, <1>5, <1>6 DEF last_log_term
  <2> QED BY <1>1, <2>1 DEF last_log_term
<1> HIDE DEF x, y
<1>8. Agree(lc, L[y], kc) /\ L[y] \in Seq(LogEntry)
  <2>1. kc \in DOMAIN lc
    BY <1>1, <1>7
  <2> QED BY <1>1, <1>2, <1>7, <2>1 DEF OnLedger, Ledger
<1>9. CASE y = x /\ kc >= kv
  <2>1. Agree(lv, L[x], kv)
    BY <1>1, <1>4 DEF OnLedger
  <2>2. lv[n] = L[x][n] /\ lc[n] = L[x][n] /\ n \in DOMAIN lc
    BY <1>1, <1>2, <1>3, <1>8, <1>9, <2>1 DEF Agree
  <2> QED BY <1>3, <2>2 DEF Has
<1>10. CASE y > x
  <2>1. L[y] # << >> /\ y \in DOMAIN L /\ t \in DOMAIN L /\ t < y
    <3>1. kc <= Len(L[y]) /\ kc >= 1
      BY <1>7, <1>8 DEF Agree
    <3>2. L[y] # << >>
      BY <1>2, <1>8, <3>1
    <3> QED BY <1>2, <1>5, <1>10, <3>2 DEF Ledger
  <2>2. Has(L[t], n, t)
    <3>1. Agree(lv, L[t], n)
      BY <1>1, HasAgrees
    <3>2. L[t] \in Seq(LogEntry)
      BY DEF Ledger
    <3>3. lv[n] = L[t][n]
      BY <1>3, <3>1 DEF Agree
    <3> QED BY <1>3, <3>3 DEF Has
  <2>3. Has(L[y], n, t) \/ Blocked(L, n, t)
    BY <2>1, <2>2 DEF LedgerComplete, Led
  <2>4. ASSUME Has(L[y], n, t) PROVE Has(lc, n, t)
    <3>1. OnLedger(L, L[y])
      BY <2>1 DEF LedgerWellFormed, LedgerInv
    <3>2. n \in 1 .. Len(L[y]) /\ L[y][n].term = t
      BY <1>8, <2>4 DEF Has
    <3>3. n <= kc
      <4> SUFFICES ASSUME kc < n PROVE FALSE
        BY <1>2, <1>3
      <4>1. kc \in 1 .. n
        BY <1>3, <1>7
      <4>2. L[y][kc].term <= L[y][n].term
        BY <1>1, <1>8, <3>1, <3>2, <4>1, LedgerMonotone
      <4>3. L[y][kc] = lc[kc]
        BY <1>7, <1>8 DEF Agree
      <4> QED BY <1>2, <1>7, <2>1, <3>2, <4>2, <4>3
    <3>4. lc[n] = L[y][n] /\ n \in DOMAIN lc
      BY <1>1, <1>2, <1>3, <1>8, <3>3 DEF Agree
    <3> QED BY <3>2, <3>4 DEF Has
  <2> QED BY <2>3, <2>4
<1> QED BY <1>6, <1>9, <1>10

\* A vote stays safe, and a new one is: the voter compared the logs.
LEMMA TurnKeepsVotes ==
  ASSUME NEW L, NEW M, NEW i, Turn(L, M, i)
  PROVE  VotesAreSafe(M)'
<1>1. /\ i \in Node /\ L \in Ledger /\ M \in Ledger /\ TypeInv /\ TypeOK /\ TypeOK'
      /\ StorageBehind /\ CastsStored /\ CastsStored' /\ LedgerInv(L)
      /\ LedgerComplete(L) /\ HoldersHold(L) /\ RequestsDescribeLog
      /\ VotesAreSafe(L) /\ LogStep(i) /\ VoteStep(i) /\ Sends(i)
      /\ AsksForVotes(i) /\ GivesVotes(i)
  BY DEF Turn, TypeInv, ElectionInv, CommitInv, CommitStep, LogStep, VoteStep
<1> SUFFICES ASSUME NEW c \in Node, NEW v \in Node, role'[c] = "Candidate",
                    Cast(v, c, current_term[c])', NEW t \in Nat,
                    NEW n \in DOMAIN M[t], t < current_term'[c],
                    Holder(M, v, n, t)'
             PROVE  Has(log'[c], n, t) \/ Blocked(M, n, t)'
  BY <1>1 DEF VotesAreSafe, Ledger
<1>2. PICK u \in Nat : u = current_term'[c]
  BY <1>1 DEF TypeOK
<1>3. PICK m \in CastBy(v, c)' : m.term = u
  BY <1>2 DEF Cast
<1>4. log'[c] = log[c]
  BY <1>1 DEF LogStep, KeepsLog, ExtendsLog, AcceptsLog
\* The vote is stored, so the voter's part in t is an old one.
<1>5. Holder(L, v, n, t) /\ n \in DOMAIN L[t]
  <2>1. disk'[v].current_term >= u
    <3>1. disk'[v].current_term \in Nat
      BY <1>1 DEF TypeOK, PersistentState
    <3> QED BY <1>1, <1>2, <1>3, <3>1 DEF CastsStored
  <2>2. ASSUME ~ Holder(L, v, n, t) PROVE FALSE
    <3>1. disk'[v].current_term = t
      BY <2>2, NewHolder
    <3> QED BY <1>2, <2>1, <3>1
  <2> QED BY <2>2 DEF Holder, Has
<1>6. Has(log[c], n, t) \/ Blocked(L, n, t)
  <2>1. CASE role[c] = "Candidate" /\ current_term[c] = u
    <3>1. CASE m \in messages
      <4>1. Cast(v, c, current_term[c])
        BY <1>3, <2>1, <3>1 DEF Cast, CastBy
      <4> QED BY <1>1, <1>2, <1>5, <2>1, <4>1 DEF VotesAreSafe, Ledger
    <3>2. CASE m \notin messages
      <4>1. v = i /\ m.type = "RequestVoteResponse" /\ m.vote_granted /\ m.to = c
        <5>1. m.from = i /\ m.from = v
          BY <1>1, <1>3, <3>2 DEF CastBy, Sends
        <5>2. m.type = "RequestVote" => v = c
          BY <1>3 DEF CastBy
        <5>3. m.type # "RequestVote"
          <6> SUFFICES ASSUME m.type = "RequestVote" PROVE FALSE
            OBVIOUS
          <6>1. m \in messages' \ messages /\ c = i
            BY <1>3, <3>2, <5>1, <5>2 DEF CastBy
          <6>2. current_term'[i] > current_term[i]
            BY <1>1, <6>1 DEF AsksForVotes
          <6> QED BY <1>2, <2>1, <6>1, <6>2
        <5> QED BY <1>3, <5>1, <5>3 DEF CastBy
      <4>2. m \in messages' \ messages
        BY <1>3, <3>2 DEF CastBy
      <4>3. PICK r \in messages :
              /\ r.type = "RequestVote" /\ r.from = c /\ r.term = u
              /\ candidate_log_up_to_date(log[v], r.last_log_term, r.last_log_index)
        BY <1>1, <1>3, <4>1, <4>2 DEF GivesVotes
      <4>4. /\ r.last_log_index = last_log_index(log[c])
            /\ r.last_log_term = last_log_term(log[c])
        BY <1>1, <2>1, <4>3 DEF RequestsDescribeLog
      <4>5. Has(log[v], n, t) \/ Blocked(L, n, t)
        BY <1>1, <1>5 DEF HoldersHold, Ledger
      <4> QED BY <1>1, <1>5, <4>3, <4>4, <4>5, UpToDateHas
    <3> QED BY <3>1, <3>2
  \* A new candidate has its own vote only.
  <2>2. CASE ~ (role[c] = "Candidate" /\ current_term[c] = u)
    <3>1. c = i /\ u > current_term[i]
      BY <1>1, <1>2, <2>2 DEF LogStep, Standing, VoteStep, OthersKeep
    <3>2. m \notin messages
      <4> SUFFICES ASSUME m \in messages PROVE FALSE
        OBVIOUS
      <4>1. Cast(c, c, u)
        <5>1. m \in CastBy(v, c)
          BY <1>3 DEF CastBy
        <5> QED BY <1>1, <1>3, <5>1 DEF RequestsDescribeLog
      <4>2. PICK r \in CastBy(c, c) : r.term = u
        BY <4>1 DEF Cast
      <4>3. /\ disk[i].current_term <= current_term[i]
            /\ disk[i].current_term \in Nat /\ current_term[i] \in Nat
        BY <1>1 DEF StorageBehind, TypeOK, PersistentState
      <4>4. disk[i].current_term >= u
        BY <1>1, <1>2, <3>1, <4>2, <4>3 DEF CastsStored
      <4> QED BY <1>2, <3>1, <4>3, <4>4
    <3>3. v = i
      BY <1>1, <1>3, <3>2 DEF CastBy, Sends
    <3> QED BY <1>1, <1>5, <3>1, <3>3 DEF HoldersHold, Ledger
  <2> QED BY <2>1, <2>2
<1> QED BY <1>4, <1>6, BlockedStays

----------------------------------------------------------------------------
(* What is committed                                                       *)

\* A node's committed entries survive its turn.
LEMMA TurnKeepsCommitted ==
  ASSUME NEW L, NEW M, NEW i, Turn(L, M, i)
  PROVE  Agree(log'[i], log[i], commit_index[i])
<1>1. /\ i \in Node /\ L \in Ledger /\ TypeInv /\ TypeInv' /\ CommitsChosen(L)
  BY DEF Turn, CommitInv
<1>2. /\ log[i] \in Seq(LogEntry) /\ log'[i] \in Seq(LogEntry)
      /\ commit_index[i] \in Nat /\ current_term[i] \in Nat
  BY <1>1 DEF TypeInv, TypeOK
<1>3. CASE commit_index[i] = 0
  BY <1>2, <1>3 DEF Agree
<1>4. CASE commit_index[i] # 0
  <2>1. PICK u \in DOMAIN L : \E k \in DOMAIN L[u] :
          /\ u <= current_term[i] /\ commit_index[i] <= k
          /\ Chosen(L, k, u) /\ Agree(log[i], L[u], commit_index[i])
    BY <1>1, <1>4 DEF CommitsChosen, CommittedBy
  <2>2. PICK k \in DOMAIN L[u] :
          /\ u <= current_term[i] /\ commit_index[i] <= k
          /\ Chosen(L, k, u) /\ Agree(log[i], L[u], commit_index[i])
    BY <2>1
  <2>3. Has(L[u], k, u) /\ ~ Blocked(L, k, u) /\ u \in Nat
    BY <1>1, <2>2, ChosenHas, ChosenNotBlocked DEF Ledger
  <2> QED BY <1>2, <2>2, <2>3, TurnKeepsPrefix
<1> QED BY <1>3, <1>4

(***************************************************************************)
(* The rule of try_advance_commit_index: the leader and the peers whose    *)
(* match index reaches the entry are a quorum that took part.              *)
(***************************************************************************)
LEMMA CommittableChosen ==
  ASSUME NEW L, NEW M, NEW i, Turn(L, M, i), role'[i] = "Leader",
         NEW t \in Nat, t = current_term'[i],
         NEW c \in 1 .. Len(log'[i]), log'[i][c].term = t,
         Replicated(match_index'[i], Peers(i), c) >= Quorum(i)
  PROVE  c \in DOMAIN M[t] /\ M[t] = log'[i] /\ Chosen(M, c, t)'
<1>1. /\ i \in Node /\ TypeOK' /\ LedgerInv(M)' /\ ElectionInv' /\ MatchAcked'
  BY TurnKeepsMatch DEF Turn, TypeInv
<1>2. M[t] = log'[i] /\ c \in DOMAIN M[t] /\ Has(M[t], c, t)
  <2>1. M[t] = log'[i] /\ log'[i] \in Seq(LogEntry)
    BY <1>1 DEF LedgerInv, LeadersOnLedger, TypeOK
  <2> QED BY <2>1 DEF Has
<1> DEFINE P == {p \in Peers(i) : match_index'[i][p] >= c}
           Q == P \cup {i}
<1>3. Q \in SUBSET Node /\ Cardinality(Q) >= Quorum(i)
  <2>1. IsFiniteSet(P) /\ i \notin P /\ P \subseteq Node
    <3>1. P \subseteq Node /\ i \notin P
      BY DEF Peers
    <3> QED BY <3>1, NodeAssumption, FS_Subset
  <2>2. Cardinality(Q) = Cardinality(P) + 1 /\ Cardinality(P) \in Nat
    <3> HIDE DEF P
    <3> QED BY <2>1, FS_AddElement, FS_CardinalityType
  <2>3. Replicated(match_index'[i], Peers(i), c) = 1 + Cardinality(P)
    BY DEF Replicated
  <2> HIDE DEF P
  <2> QED BY <1>1, <2>1, <2>2, <2>3
<1>4. ASSUME NEW v \in Q PROVE Holder(M, v, c, t)'
  <2>1. CASE v = i
    <3>1. Elected(i, t)'
      BY <1>1 DEF ElectionInv, LeadersElected
    <3> QED BY <1>2, <2>1, <3>1 DEF Holder
  <2>2. CASE v \in P
    <3>1. /\ v \in Peers(i) /\ match_index'[i][v] >= c
          /\ match_index'[i][v] \in Nat
      BY <1>1, <2>2 DEF TypeOK, Peers
    <3>2. Acked(v, match_index[i][v], current_term[i])'
      BY <1>1, <3>1 DEF MatchAcked
    <3>3. PICK m \in Acks' :
            m.from = v /\ m.term = t /\ m.match_index >= match_index'[i][v]
      BY <3>2 DEF Acked
    <3>4. m.match_index \in Nat
      <4>1. m \in AppendEntriesResponse
        BY <1>1, MessageKinds DEF Acks, TypeOK
      <4> QED BY <4>1 DEF AppendEntriesResponse
    <3>5. Acked(v, c, t)'
      BY <3>1, <3>3, <3>4 DEF Acked
    <3> QED BY <1>2, <3>5 DEF Holder
  <2> QED BY <2>1, <2>2
<1>5. Chosen(M, c, t)'
  <2> HIDE DEF Q
  <2> QED BY <1>1, <1>3, <1>4 DEF Chosen
<1> QED BY <1>2, <1>5

(***************************************************************************)
(* A turn moves a commit index forward if at all, and what it covers is    *)
(* committed: decided by the rule at a leader, learnt from a leader whose  *)
(* message covers it at a follower.                                        *)
(***************************************************************************)
LEMMA TurnCommits ==
  ASSUME NEW L, NEW M, NEW i, Turn(L, M, i)
  PROVE  /\ CommittedBy(M, log[i], commit_index[i], current_term[i])'
         /\ commit_index'[i] >= commit_index[i]
<1>1. /\ i \in Node /\ L \in Ledger /\ M \in Ledger /\ TypeInv /\ TypeInv'
      /\ StorageBehind /\ LedgerInv(L) /\ CommitsChosen(L)
      /\ VoteStep(i) /\ CommitMoves(i)
  BY DEF Turn, ElectionInv, CommitInv, CommitStep, LogStep
<1>2. /\ log[i] \in Seq(LogEntry) /\ Contiguous(log[i], 0)
      /\ commit_index[i] \in Nat /\ current_term[i] \in Nat
      /\ current_term'[i] \in Nat /\ current_term[i] <= current_term'[i]
      /\ CommittedBy(L, log[i], commit_index[i], current_term[i])
  <2>1. current_term[i] \in Nat /\ current_term'[i] \in Nat
    BY <1>1 DEF TypeInv, TypeOK
  <2>2. current_term[i] <= current_term'[i]
    BY <1>1, <2>1 DEF VoteStep, TermAndVote
  <2> QED BY <1>1, <2>1, <2>2 DEF TypeInv, TypeOK, LogContiguous, CommitsChosen
<1>3. PICK l \in Seq(LogEntry), c \in Nat, u \in Nat :
        l = log'[i] /\ c = commit_index'[i] /\ u = current_term'[i]
  BY <1>1 DEF TypeInv, TypeOK
<1>4. Agree(l, log[i], commit_index[i])
  BY <1>3, TurnKeepsCommitted
<1>5. CASE c = commit_index[i]
  <2>1. CommittedBy(M, l, c, u)'
    BY <1>2, <1>3, <1>4, <1>5, CommittedStays
  <2> QED BY <1>2, <1>3, <1>5, <2>1 DEF CommittedBy
<1>6. CASE LeaderCommits(i) /\ c # commit_index[i]
  <2>1. /\ c = LeaderCommit(log[i], current_term[i], commit_index[i],
                            match_index'[i], Peers(i))
        /\ l = log[i] /\ role'[i] = "Leader"
    BY <1>3, <1>6 DEF LeaderCommits
  <2>2. /\ c \in 1 .. Len(l) /\ c > commit_index[i] /\ l[c].term = current_term[i]
        /\ Replicated(match_index'[i], Peers(i), c) >= Quorum(i)
    BY <1>2, <1>6, <2>1, LeaderCommitIs DEF LogEntry, Quorum
  <2>3. current_term'[i] = current_term[i]
    BY <1>1, <2>1 DEF VoteStep, Leadership
  <2>4. c \in DOMAIN M[u] /\ M[u] = l /\ Chosen(M, c, u)'
    <3>1. c \in 1 .. Len(log'[i]) /\ log'[i][c].term = u /\ u = current_term'[i]
      BY <1>3, <2>2, <2>3
    <3>2. c \in DOMAIN M[u] /\ M[u] = log'[i] /\ Chosen(M, c, u)'
      BY <2>1, <2>2, <3>1, CommittableChosen
    <3> QED BY <1>3, <3>2
  <2>5. Agree(l, M[u], c) /\ u \in DOMAIN M
    BY <1>1, <1>3, <2>2, <2>4 DEF Agree, Ledger
  <2>6. CommittedBy(M, l, c, u)'
    BY <1>3, <2>4, <2>5 DEF CommittedBy
  <2> QED BY <1>2, <1>3, <2>2, <2>6 DEF CommittedBy
<1>7. ASSUME NEW a \in Appends, FollowerCommits(i, a), c # commit_index[i]
      PROVE  /\ CommittedBy(M, log[i], commit_index[i], current_term[i])'
             /\ commit_index'[i] >= commit_index[i]
  <2> DEFINE n == a.prev_log_index + Len(a.entries)
  <2>1. /\ a \in AppendEntries /\ a.term \in Nat
        /\ Contiguous(a.entries, a.prev_log_index)
    BY <1>1, MessageKinds DEF Appends, TypeInv, TypeOK, LogContiguous
  <2>2. LastNewIndex(a.prev_log_index, a.entries) = n
    BY <2>1, LastNewIs DEF AppendEntries
  <2>3. /\ L[a.term] \in Seq(LogEntry) /\ n \in Nat /\ PieceOf(a, L[a.term])
        /\ Agree(l, L[a.term], n)
    BY <1>1, <1>3, <1>7, AcceptedOnLedger DEF FollowerCommits
  <2>4. ~ PastTheEnd(a)
    <3> SUFFICES ASSUME PastTheEnd(a) PROVE FALSE
      OBVIOUS
    <3>1. TermsUpTo(L[a.term], a.term)
      BY <1>1, <2>1 DEF LedgerInv, LedgerWellFormed, Ledger
    <3>2. a.prev_log_index \in DOMAIN L[a.term]
          /\ L[a.term][a.prev_log_index].term = 0
      BY <2>1, <2>3 DEF PastTheEnd, PieceOf, AppendEntries
    <3> QED BY <2>1, <3>1, <3>2 DEF TermsUpTo
  <2>5. /\ a.leader_commit <= n /\ a.leader_commit \in Nat
        /\ CommittedBy(L, L[a.term], a.leader_commit, a.term)
    BY <1>1, <2>1, <2>4 DEF CommitsChosen, AppendEntries
  <2>6. c = a.leader_commit /\ c > commit_index[i]
    BY <1>2, <1>3, <1>7, <2>2, <2>5 DEF FollowerCommits, FollowerCommit
  <2> HIDE DEF n
  <2>7. Agree(l, L[a.term], c)
    BY <1>3, <2>3, <2>5, <2>6, AgreeLess
  <2>8. u = a.term
    BY <1>3, <1>7 DEF FollowerCommits, AcceptsLog
  <2>9. CommittedBy(M, l, c, u)'
    BY <1>3, <2>1, <2>3, <2>5, <2>6, <2>7, <2>8, CommittedStays
  <2> QED BY <1>2, <1>3, <2>6, <2>9 DEF CommittedBy
<1> QED BY <1>1, <1>3, <1>5, <1>6, <1>7 DEF CommitMoves, VolatileKept

\* What nodes have committed, and what AppendEntries tell of it, is chosen.
LEMMA TurnKeepsCommits ==
  ASSUME NEW L, NEW M, NEW i, Turn(L, M, i)
  PROVE  CommitsChosen(M)'
<1>1. /\ i \in Node /\ L \in Ledger /\ M \in Ledger /\ TypeInv /\ TypeInv'
      /\ LedgerInv(L) /\ CommitsChosen(L) /\ AppliedFromLog
      /\ LogStep(i) /\ VoteStep(i) /\ OthersKeepVolatile(i)
  BY DEF Turn, CommitInv, CommitStep, LogStep
<1>2. ASSUME NEW j \in Node
      PROVE  CommittedBy(M, log[j], commit_index[j], current_term[j])'
  <2>1. CASE j = i
    BY <2>1, TurnCommits
  <2>2. CASE j # i
    <3>1. /\ log[j] \in Seq(LogEntry) /\ commit_index[j] \in Nat
          /\ current_term[j] \in Nat
      BY <1>1 DEF TypeInv, TypeOK
    <3>2. /\ log'[j] = log[j] /\ commit_index'[j] = commit_index[j]
          /\ current_term'[j] = current_term[j]
      BY <1>1, <2>2 DEF LogStep, VoteStep, OthersKeep, OthersKeepVolatile,
                        VolatileKept
    <3>3. Agree(log[j], log[j], commit_index[j])
      BY <1>1, <3>1 DEF AppliedFromLog, Agree
    <3>4. PICK l \in Seq(LogEntry), c \in Nat, u \in Nat :
            l = log[j] /\ c = commit_index[j] /\ u = current_term[j]
      BY <3>1
    <3>5. CommittedBy(L, l, c, u)
      BY <1>1, <3>4 DEF CommitsChosen
    <3>6. CommittedBy(M, l, c, u)'
      BY <3>3, <3>4, <3>5, CommittedStays
    <3> QED BY <3>2, <3>4, <3>6 DEF CommittedBy
  <2> QED BY <2>1, <2>2
<1>3. ASSUME NEW m \in Appends', ~ PastTheEnd(m)
      PROVE  /\ m.leader_commit <= m.prev_log_index + Len(m.entries)
             /\ CommittedBy(M, M[m.term], m.leader_commit, m.term)'
  <2>1. m.term \in Nat /\ m.leader_commit \in Nat
    <3>1. m \in AppendEntries
      BY <1>1, MessageKinds DEF Appends, TypeInv, TypeOK
    <3> QED BY <3>1 DEF AppendEntries
  <2>2. /\ L[m.term] \in Seq(LogEntry) /\ M[m.term] \in Seq(LogEntry)
        /\ Agree(L[m.term], M[m.term], Len(L[m.term]))
    BY <2>1, TurnGrows
  <2>3. /\ m.leader_commit <= m.prev_log_index + Len(m.entries)
        /\ CommittedBy(L, L[m.term], m.leader_commit, m.term)
    <3>1. CASE m \in Appends
      BY <1>1, <1>3, <3>1 DEF CommitsChosen
    <3>2. CASE m \notin Appends
      <4>1. role[i] = "Leader" /\ \E p \in Peers(i) : m = AppendEntriesFor(i, p)
        BY <1>1, <1>3, <3>2 DEF LogStep, AppendsSent
      <4>2. PICK p \in Peers(i) : m = AppendEntriesFor(i, p)
        BY <4>1
      <4>3. /\ m.term = current_term[i] /\ m.leader_commit = commit_index[i]
            /\ m.prev_log_index + Len(m.entries) = Len(log[i])
        BY <1>1, <1>3, <4>2, SentPiece
      <4>4. log[i] = L[m.term] /\ commit_index[i] <= Len(log[i])
        BY <1>1, <4>1, <4>3 DEF LedgerInv, LeadersOnLedger, AppliedFromLog
      <4>5. CommittedBy(L, log[i], commit_index[i], current_term[i])
        BY <1>1 DEF CommitsChosen
      <4> QED BY <4>3, <4>4, <4>5
    <3> QED BY <3>1, <3>2
  <2>4. m.leader_commit = 0 \/ Agree(M[m.term], L[m.term], m.leader_commit)
    <3> SUFFICES ASSUME m.leader_commit # 0
                 PROVE  Agree(M[m.term], L[m.term], m.leader_commit)
      OBVIOUS
    <3>1. m.leader_commit <= Len(L[m.term])
      BY <2>3 DEF CommittedBy, Agree
    <3>2. Agree(L[m.term], M[m.term], m.leader_commit)
      BY <2>1, <2>2, <3>1 DEF Agree
    <3> QED BY <3>2, AgreeSym
  <2> QED BY <2>1, <2>2, <2>3, <2>4, CommittedStays
<1> QED BY <1>2, <1>3 DEF CommitsChosen

\* The state machine, fed up to the new commit index, has its log's commands.
LEMMA AppliesFromLog ==
  ASSUME TypeInv, TypeInv', AppliedFromLog, NEW i \in Node, Applies(i),
         commit_index'[i] >= commit_index[i], commit_index'[i] <= Len(log'[i]),
         \A k \in 1 .. commit_index[i] : log'[i][k] = log[i][k]
  PROVE  /\ last_applied'[i] = commit_index'[i]
         /\ Len(applied'[i]) = commit_index'[i]
         /\ \A k \in 1 .. commit_index'[i] : applied'[i][k] = log'[i][k].command
<1>1. /\ commit_index[i] \in Nat /\ commit_index'[i] \in Nat
      /\ log'[i] \in Seq(LogEntry) /\ Contiguous(log'[i], 0)
      /\ applied[i] \in Seq(Command) /\ Len(log'[i]) \in Nat
      /\ last_applied[i] = commit_index[i] /\ Len(applied[i]) = commit_index[i]
      /\ \A k \in 1 .. commit_index[i] : applied[i][k] = log[i][k].command
  <2>1. /\ log'[i] \in Seq(LogEntry) /\ Contiguous(log'[i], 0)
        /\ applied[i] \in Seq(Command)
        /\ commit_index[i] \in Nat /\ commit_index'[i] \in Nat
    BY DEF TypeInv, TypeOK, LogContiguous
  <2> QED BY <2>1 DEF AppliedFromLog
<1>2. PICK c : c = CommandsToApply(log'[i], commit_index[i], commit_index'[i])
  OBVIOUS
<1>3. /\ c \in Seq(Command)
      /\ Len(c) = commit_index'[i] - commit_index[i]
      /\ \A k \in 1 .. commit_index'[i] - commit_index[i] :
           c[k] = log'[i][commit_index[i] + k].command
  <2>1. PICK l \in Seq(LogEntryOf(Command)), x \in Nat, y \in Nat :
          l = log'[i] /\ x = commit_index[i] /\ y = commit_index'[i]
    BY <1>1 DEF LogEntry
  <2>2. /\ c \in Seq(Command) /\ Len(c) = y - x
        /\ \A k \in 1 .. y - x : c[k] = l[x + k].command
    <3>1. /\ Contiguous(l, 0) /\ x <= y /\ y <= Len(l)
          /\ c = CommandsToApply(l, x, y)
      BY <1>1, <1>2, <2>1
    <3>2. c \in Seq(Command)
      BY <3>1, CommandsToApplyType
    <3>3. Len(CommandsToApply(l, x, y)) = y - x
      BY <3>1, CommandsToApplySlice
    <3>4. ASSUME NEW k \in 1 .. y - x
          PROVE  CommandsToApply(l, x, y)[k] = l[x + k].command
      BY <3>1, CommandsToApplySlice
    <3> QED BY <3>1, <3>2, <3>3, <3>4
  <2> QED BY <2>1, <2>2
<1>4. applied'[i] = applied[i] \o c
  BY <1>1, <1>2 DEF Applies
<1>5. last_applied'[i] = commit_index'[i]
  BY <1>1 DEF Applies
<1>6. /\ Len(applied'[i]) = commit_index'[i]
      /\ \A k \in 1 .. commit_index[i] : applied'[i][k] = applied[i][k]
      /\ \A k \in commit_index[i] + 1 .. commit_index'[i] :
           applied'[i][k] = c[k - commit_index[i]]
  <2>1. PICK s \in Seq(Command), x \in Nat, y \in Nat :
          s = applied[i] /\ x = commit_index[i] /\ y = commit_index'[i]
    BY <1>1
  <2>2. Len(s) = x /\ Len(c) = y - x /\ y >= x /\ c \in Seq(Command)
    BY <1>1, <1>3, <2>1
  <2>3. /\ Len(s \o c) = y
        /\ \A k \in 1 .. x : (s \o c)[k] = s[k]
        /\ \A k \in x + 1 .. y : (s \o c)[k] = c[k - x]
    <3>1. x + Len(c) = y /\ Len(s) = x /\ c \in Seq(Command)
      BY <2>2
    <3> QED BY <3>1, SMTT(20)
  <2>4. applied'[i] = s \o c
    BY <1>4, <2>1
  <2>5. Len(applied'[i]) = y
    BY <2>3, <2>4
  <2>6. \A k \in 1 .. x : applied'[i][k] = applied[i][k]
    BY <2>1, <2>3, <2>4
  <2>7. \A k \in x + 1 .. y : applied'[i][k] = c[k - x]
    BY <2>3, <2>4
  <2> QED BY <2>1, <2>5, <2>6, <2>7
<1>7. ASSUME NEW k \in 1 .. commit_index'[i]
      PROVE  applied'[i][k] = log'[i][k].command
  <2>1. CASE k \in 1 .. commit_index[i]
    BY <1>1, <1>6, <2>1
  <2>2. CASE k \in commit_index[i] + 1 .. commit_index'[i]
    <3>1. /\ k - commit_index[i] \in 1 .. commit_index'[i] - commit_index[i]
          /\ commit_index[i] + (k - commit_index[i]) = k
      BY <1>1, <2>2, SMTT(20)
    <3> QED BY <1>3, <1>6, <2>2, <3>1
  <2> QED BY <1>1, <2>1, <2>2
<1> QED BY <1>1, <1>5, <1>6, <1>7

\* State machines hold the committed commands of their node's log.
LEMMA TurnKeepsApplied ==
  ASSUME NEW L, NEW M, NEW i, Turn(L, M, i)
  PROVE  AppliedFromLog'
<1>1. /\ i \in Node /\ TypeInv /\ TypeInv' /\ AppliedFromLog /\ LogStep(i)
      /\ OthersKeepVolatile(i) /\ CommitMoves(i)
  BY DEF Turn, CommitInv, CommitStep
<1> SUFFICES ASSUME NEW j \in Node
             PROVE  /\ last_applied'[j] = commit_index'[j]
                    /\ Len(applied'[j]) = commit_index'[j]
                    /\ commit_index'[j] <= Len(log'[j])
                    /\ \A k \in 1 .. commit_index'[j] :
                         applied'[j][k] = log'[j][k].command
  BY DEF AppliedFromLog
<1>2. /\ last_applied[j] = commit_index[j]
      /\ Len(applied[j]) = commit_index[j]
      /\ commit_index[j] <= Len(log[j])
      /\ \A k \in 1 .. commit_index[j] : applied[j][k] = log[j][k].command
  BY <1>1 DEF AppliedFromLog
<1>3. CASE j # i
  <2>1. log'[j] = log[j] /\ VolatileKept(j)
    BY <1>1, <1>3 DEF LogStep, OthersKeepVolatile
  <2> QED BY <1>2, <2>1 DEF VolatileKept
<1>4. CASE j = i
  <2>1. /\ commit_index[i] \in Nat /\ commit_index'[i] \in Nat
        /\ log'[i] \in Seq(LogEntry) /\ Contiguous(log'[i], 0)
        /\ applied[i] \in Seq(Command) /\ Len(log'[i]) \in Nat
    BY <1>1 DEF TypeInv, TypeOK, LogContiguous
  <2>2. /\ commit_index[i] <= Len(log'[i])
        /\ \A k \in 1 .. commit_index[i] : log'[i][k] = log[i][k]
    BY TurnKeepsCommitted DEF Agree
  <2>3. CASE VolatileKept(i)
    BY <1>2, <1>4, <2>1, <2>2, <2>3 DEF VolatileKept
  <2>4. CASE Applies(i)
    <3>1. commit_index'[i] >= commit_index[i] /\ commit_index'[i] <= Len(log'[i])
      <4>1. CommittedBy(M, log[i], commit_index[i], current_term[i])'
            /\ commit_index'[i] >= commit_index[i]
        BY TurnCommits
      <4>2. commit_index'[i] = 0 \/ commit_index'[i] <= Len(log'[i])
        BY <4>1 DEF CommittedBy, Agree
      <4> QED BY <2>1, <4>1, <4>2
    <3> QED BY <1>1, <1>4, <2>2, <2>4, <3>1, AppliesFromLog
  <2> QED BY <1>1, <2>3, <2>4 DEF CommitMoves
<1> QED BY <1>3, <1>4

\* A turn takes a ledger with CommitInv to the next.
LEMMA TurnKeepsCommitInv ==
  ASSUME NEW L, NEW M, NEW i, Turn(L, M, i)
  PROVE  CommitInv(M)'
<1>1. AcksOnLedger(M)' /\ HoldersHold(M)' /\ LedgerComplete(M)'
  BY TurnKeepsAcks, TurnKeepsHolders, TurnKeepsComplete
<1>2. RequestsDescribeLog' /\ VotesAreSafe(M)' /\ MatchAcked'
  BY TurnKeepsRequests, TurnKeepsVotes, TurnKeepsMatch
<1>3. CommitsChosen(M)' /\ AppliedFromLog'
  BY TurnKeepsCommits, TurnKeepsApplied
<1> QED BY <1>1, <1>2, <1>3 DEF CommitInv

----------------------------------------------------------------------------
(* A crash, and the first state                                            *)

\* Nothing that was sent or stored is lost in a crash, and nothing else says
\* who took part in an entry.
LEMMA RestartKeepsHistory ==
  ASSUME NEW L, CommitRestart
  PROVE  /\ Acks' = Acks /\ Appends' = Appends
         /\ \A v, c : CastBy(v, c)' = CastBy(v, c)
         /\ \A v, c, t : Cast(v, c, t)' <=> Cast(v, c, t)
         /\ \A v, n, t : Acked(v, n, t)' <=> Acked(v, n, t)
         /\ \A v, n, t : Holder(L, v, n, t)' <=> Holder(L, v, n, t)
         /\ \A n, t : Blocked(L, n, t)' <=> Blocked(L, n, t)
         /\ \A n, t : Chosen(L, n, t)' <=> Chosen(L, n, t)
         /\ \A l, n, t : CommittedBy(L, l, n, t)' <=> CommittedBy(L, l, n, t)
<1>1. disk' = disk /\ messages' = messages
  BY DEF CommitRestart
<1>2. /\ Acks' = Acks /\ Appends' = Appends
      /\ \A v, c : CastBy(v, c)' = CastBy(v, c)
  BY <1>1 DEF Acks, Appends, CastBy
<1>3. \A v, c, t : Cast(v, c, t)' <=> Cast(v, c, t)
  BY <1>2 DEF Cast
<1>4. \A v, t : Elected(v, t)' <=> Elected(v, t)
  BY <1>3 DEF Elected
<1>5. \A v, n, t : Acked(v, n, t)' <=> Acked(v, n, t)
  BY <1>2 DEF Acked
<1>6. \A v, n, t : Holder(L, v, n, t)' <=> Holder(L, v, n, t)
  BY <1>4, <1>5 DEF Holder
<1>7. \A n, t : Blocked(L, n, t)' <=> Blocked(L, n, t)
  BY <1>1, <1>6 DEF Blocked
<1>8. \A n, t : Chosen(L, n, t)' <=> Chosen(L, n, t)
  BY <1>6 DEF Chosen
<1>9. \A l, n, t : CommittedBy(L, l, n, t)' <=> CommittedBy(L, l, n, t)
  BY <1>8 DEF CommittedBy
<1> QED BY <1>2, <1>3, <1>5, <1>6, <1>7, <1>8, <1>9

\* A crash keeps the ledger and all that is committed on it.
LEMMA RestartKeepsCommitInv ==
  ASSUME TypeOK, NEW L, CommitInv(L), CommitRestart
  PROVE  CommitInv(L)'
<1>1. disk' = disk /\ messages' = messages /\ \A j \in Node : log'[j] = log[j]
  BY DEF CommitRestart
<1>2. \A j \in Node : role'[j] # "Follower" =>
        /\ role'[j] = role[j] /\ current_term'[j] = current_term[j]
        /\ match_index'[j] = match_index[j]
  BY DEF CommitRestart
<1>3. /\ AcksOnLedger(L) /\ HoldersHold(L) /\ LedgerComplete(L)
      /\ RequestsDescribeLog /\ VotesAreSafe(L) /\ MatchAcked
      /\ CommitsChosen(L) /\ AppliedFromLog
  BY DEF CommitInv
<1>4. AcksOnLedger(L)'
  BY <1>1, <1>3, RestartKeepsHistory DEF AcksOnLedger
<1>5. HoldersHold(L)'
  BY <1>1, <1>3, RestartKeepsHistory DEF HoldersHold
<1>6. LedgerComplete(L)'
  <2>1. \A t : Led(L, t)' => Led(L, t)
    BY <1>2 DEF Led
  <2> QED BY <1>3, <2>1, RestartKeepsHistory DEF LedgerComplete
<1>7. RequestsDescribeLog'
  <2>1. \A v, c \in Node : \A m \in CastBy(v, c)' : Cast(c, c, m.term)'
    BY <1>3, RestartKeepsHistory DEF RequestsDescribeLog
  <2>2. ASSUME NEW m \in messages', m.type = "RequestVote",
               role'[m.from] = "Candidate", current_term'[m.from] = m.term
        PROVE  /\ m.last_log_index = last_log_index(log'[m.from])
               /\ m.last_log_term = last_log_term(log'[m.from])
    <3>1. m \in messages /\ m.from \in Node
      BY <1>1, <2>2 DEF TypeOK, Message, RequestVote, RequestVoteResponse,
                        AppendEntries, AppendEntriesResponse
    <3> QED BY <1>1, <1>2, <1>3, <2>2, <3>1 DEF RequestsDescribeLog
  <2> QED BY <2>1, <2>2 DEF RequestsDescribeLog
<1>8. VotesAreSafe(L)'
  BY <1>1, <1>2, <1>3, RestartKeepsHistory DEF VotesAreSafe
<1>9. MatchAcked'
  BY <1>1, <1>2, <1>3, RestartKeepsHistory DEF MatchAcked
<1>10. CommitsChosen(L)'
  <2>1. ASSUME NEW j \in Node
        PROVE  CommittedBy(L, log[j], commit_index[j], current_term[j])'
    BY <1>1, <1>3, RestartKeepsHistory
       DEF CommitsChosen, CommitRestart, VolatileKept, CommittedBy
  <2>2. \A m \in Appends' :
          \/ PastTheEnd(m)
          \/ /\ m.leader_commit <= m.prev_log_index + Len(m.entries)
             /\ CommittedBy(L, L[m.term], m.leader_commit, m.term)'
    BY <1>3, RestartKeepsHistory DEF CommitsChosen
  <2> QED BY <2>1, <2>2 DEF CommitsChosen
<1>11. AppliedFromLog'
  BY <1>1, <1>3 DEF AppliedFromLog, CommitRestart, VolatileKept
<1> QED BY <1>4, <1>5, <1>6, <1>7, <1>8, <1>9, <1>10, <1>11 DEF CommitInv

----------------------------------------------------------------------------
(* The theorems                                                            *)

\* The inductive invariant of commitment: a ledger for all logs and messages,
\* on which all is safe unless a reply acknowledged a foreign suffix.
SafeLedger == \E L \in Ledger : LedgerInv(L) /\ (stale_ack \/ CommitInv(L))

\* At first nothing is committed.
LEMMA InitSafeLedger == Init => SafeLedger
<1> SUFFICES ASSUME Init PROVE SafeLedger
  OBVIOUS
<1>1. PICK L \in Ledger : LedgerInv(L)
  BY InitLedgerExists DEF LedgerExists
<1>2. Acks = {} /\ Appends = {} /\ messages = {}
      /\ \A v, c : CastBy(v, c) = {}
  BY DEF Init, Acks, Appends, CastBy
<1>3. /\ \A v, c, t : ~ Cast(v, c, t)
      /\ \A v, n, t : ~ Acked(v, n, t)
  BY <1>2 DEF Cast, Acked
<1>4. ASSUME NEW c \in Node, NEW t PROVE ~ Elected(c, t)
  <2> SUFFICES ASSUME NEW Q \in SUBSET Node, Cardinality(Q) >= Quorum(c)
               PROVE  \E v \in Q : TRUE
    BY <1>3 DEF Elected
  <2> QED BY AnyQuorums
<1>5. \A t \in Nat : L[t] = << >> /\ DOMAIN L[t] = {} /\ DOMAIN L = Nat
  BY <1>1, <1>4 DEF Ledger, LedgerInv, LedgerElected
<1>6. /\ AcksOnLedger(L) /\ HoldersHold(L) /\ LedgerComplete(L)
      /\ VotesAreSafe(L)
  BY <1>2, <1>5 DEF AcksOnLedger, HoldersHold, LedgerComplete, VotesAreSafe
<1>7. RequestsDescribeLog /\ MatchAcked
  BY <1>2 DEF Init, RequestsDescribeLog, MatchAcked
<1>8. CommitsChosen(L) /\ AppliedFromLog
  BY <1>2 DEF Init, CommitsChosen, CommittedBy, AppliedFromLog
<1> QED BY <1>1, <1>6, <1>7, <1>8 DEF SafeLedger, CommitInv

\* The next ledger holds what the last one did, and all that was chosen.
Continues(L, M) ==
  /\ Grows(L, M)
  /\ \A t \in Nat : \A n : Chosen(L, n, t) => Chosen(M, n, t)'

\* A turn takes a safe ledger to one that continues it.
LEMMA StepContinues ==
  ASSUME TypeInv, TypeInv', ElectionInv, ElectionInv', NEW L \in Ledger,
         LedgerInv(L), stale_ack \/ CommitInv(L), NEW i \in Node,
         \/ UNCHANGED vars
         \/ CommitStep(i)
         \/ LogRestart(i) /\ CommitRestart
  PROVE  \E M \in Ledger :
           /\ LedgerInv(M)'
           /\ \/ stale_ack'
              \/ CommitInv(L) /\ CommitInv(M)' /\ Continues(L, M)
<1>1. TypeOK
  BY DEF TypeInv
<1>2. Grows(L, L)
  BY DEF Grows, Ledger, Agree
<1>3. ASSUME LedgerInv(L)', CommitRestart
      PROVE  \/ stale_ack'
             \/ CommitInv(L) /\ CommitInv(L)' /\ Continues(L, L)
  <2>1. CASE stale_ack
    BY <1>3, <2>1 DEF CommitRestart
  <2>2. CASE CommitInv(L)
    BY <1>1, <1>2, <1>3, <2>2, RestartKeepsCommitInv, RestartKeepsHistory
       DEF Continues
  <2> QED BY <2>1, <2>2
<1>4. CASE UNCHANGED vars
  <2>1. LedgerInv(L)'
    BY <1>4, SMTT(60)
       DEF vars, nodeVars, persistentVars, LedgerInv, LedgerWellFormed,
           LogsOnLedger, ActiveStored, LeadersOnLedger, AppendsOnLedger,
           LedgerElected, Elected, Cast, CastBy, Appends
  <2>2. CommitRestart
    BY <1>4 DEF vars, nodeVars, persistentVars, volatileVars, leaderVars,
                CommitRestart, VolatileKept
  <2> QED BY <1>3, <2>1, <2>2
<1>5. CASE CommitStep(i)
  <2>1. PICK M : M = LedgerAfter(L, i)
    OBVIOUS
  <2>2. LogStep(i) /\ (stale_ack => stale_ack')
    BY <1>5 DEF CommitStep
  <2>3. M \in Ledger /\ LedgerInv(M)'
    BY <2>1, <2>2, LogStepKeepsLedgerInv
  <2>4. CASE stale_ack'
    BY <2>3, <2>4
  <2>5. CASE ~ stale_ack'
    <3>1. Turn(L, M, i) /\ CommitInv(L)
      BY <1>5, <2>1, <2>2, <2>3, <2>5 DEF Turn
    <3>2. CommitInv(M)'
      BY <3>1, TurnKeepsCommitInv
    <3>3. Continues(L, M)
      BY <3>1, TurnGrows, ChosenStays DEF Continues, Grows
    <3> QED BY <2>3, <3>1, <3>2, <3>3
  <2> QED BY <2>4, <2>5
<1>6. CASE LogRestart(i) /\ CommitRestart
  <2>1. LedgerInv(L)'
    BY <1>6, RestartKeepsLedgerInv
  <2> QED BY <1>3, <1>6, <2>1
<1> QED BY <1>4, <1>5, <1>6

\* The inductive step.
LEMMA NextSafeLedger ==
  ASSUME SavesSucceed, \A i \in Node : Peers(i) # {}
  PROVE  TypeInv /\ ElectionInv /\ SafeLedger /\ [Next]_vars => SafeLedger'
<1> SUFFICES ASSUME TypeInv, ElectionInv, SafeLedger, [Next]_vars
             PROVE  SafeLedger'
  OBVIOUS
<1>1. TypeInv' /\ ElectionInv'
  BY NextTypeInv, NextElectionInv
<1>2. PICK L \in Ledger : LedgerInv(L) /\ (stale_ack \/ CommitInv(L))
  BY DEF SafeLedger
<1>3. \A i \in Node : disk[i].log = log[i]
  BY <1>2 DEF LedgerInv, LogsOnLedger
<1>4. PICK i \in Node :
        UNCHANGED vars \/ CommitStep(i) \/ (LogRestart(i) /\ CommitRestart)
  BY <1>1, <1>3, NextIsCommitStep, NodeAssumption
<1>5. PICK M \in Ledger : LedgerInv(M)' /\ (stale_ack' \/ CommitInv(M)')
  BY <1>1, <1>2, <1>4, StepContinues
<1> QED BY <1>5 DEF SafeLedger

(***************************************************************************)
(* In every state there is a ledger of all logs and messages, and, unless  *)
(* a success reply acknowledged a foreign suffix, all that any node or     *)
(* message takes as committed stands on it and was replicated to a quorum  *)
(* in the term of the leader that committed it.                            *)
(***************************************************************************)
THEOREM SafetyInvariant ==
  ASSUME SavesSucceed, \A i \in Node : Peers(i) # {}
  PROVE  Spec => []SafeLedger
<1>1. Init => SafeLedger
  BY InitSafeLedger
<1>2. TypeInv /\ ElectionInv /\ SafeLedger /\ [Next]_vars => SafeLedger'
  BY NextSafeLedger
<1> QED BY <1>1, <1>2, TypeCorrect, ElectionInvariant, PTL DEF Spec

\* What is chosen is on the ledger of every later term.
LEMMA LaterTermsHold ==
  ASSUME NEW L \in Ledger, LedgerInv(L), CommitInv(L),
         NEW u \in Nat, NEW w \in Nat, u <= w, Led(L, w),
         NEW k \in DOMAIN L[u], Chosen(L, k, u)
  PROVE  Agree(L[w], L[u], k)
<1>1. /\ L[u] \in Seq(LogEntry) /\ L[w] \in Seq(LogEntry) /\ OnLedger(L, L[w])
      /\ DOMAIN L = Nat /\ k \in 1 .. Len(L[u])
  <2>1. L[u] \in Seq(LogEntry) /\ L[w] \in Seq(LogEntry) /\ DOMAIN L = Nat
    BY DEF Ledger
  <2>2. OnLedger(L, L[w])
    BY <2>1 DEF LedgerInv, LedgerWellFormed
  <2> QED BY <2>1, <2>2
<1>2. CASE u = w
  BY <1>1, <1>2 DEF Agree
<1>3. CASE u < w
  <2>1. Has(L[u], k, u)
    BY ChosenHas
  <2>2. Has(L[w], k, u)
    BY <1>1, <1>3, <2>1, ChosenNotBlocked DEF CommitInv, LedgerComplete
  <2> QED BY <1>1, <2>2, HasAgrees
<1> QED BY <1>2, <1>3

\* What a node has committed is on the ledger of every later term.
LEMMA CommittedHold ==
  ASSUME TypeOK, NEW L \in Ledger, LedgerInv(L), CommitInv(L), NEW i \in Node,
         commit_index[i] > 0
  PROVE  \E u \in Nat : \E k \in DOMAIN L[u] :
           /\ u <= current_term[i] /\ commit_index[i] <= k /\ k \in Nat
           /\ Chosen(L, k, u) /\ L[u] # << >>
           /\ Agree(log[i], L[u], commit_index[i])
           /\ \A w \in Nat : u <= w /\ Led(L, w)
                => Agree(log[i], L[w], commit_index[i])
<1>1. commit_index[i] \in Nat /\ log[i] \in Seq(LogEntry) /\ DOMAIN L = Nat
  BY DEF TypeOK, Ledger
<1>2. CommittedBy(L, log[i], commit_index[i], current_term[i])
  BY DEF CommitInv, CommitsChosen
<1>3. PICK u \in Nat : \E k \in DOMAIN L[u] :
        /\ u <= current_term[i] /\ commit_index[i] <= k
        /\ Chosen(L, k, u) /\ Agree(log[i], L[u], commit_index[i])
  BY <1>1, <1>2 DEF CommittedBy
<1>4. PICK k \in DOMAIN L[u] :
        /\ u <= current_term[i] /\ commit_index[i] <= k
        /\ Chosen(L, k, u) /\ Agree(log[i], L[u], commit_index[i])
  BY <1>3
<1>5. L[u] \in Seq(LogEntry) /\ k \in Nat /\ L[u] # << >>
  <2>1. L[u] \in Seq(LogEntry)
    BY DEF Ledger
  <2> QED BY <1>4, <2>1
<1>6. ASSUME NEW w \in Nat, u <= w, Led(L, w)
      PROVE  Agree(log[i], L[w], commit_index[i])
  <2>1. L[w] \in Seq(LogEntry)
    BY DEF Ledger
  <2>2. Agree(L[w], L[u], k)
    BY <1>4, <1>6, LaterTermsHold
  <2>3. Agree(L[u], L[w], commit_index[i])
    BY <1>1, <1>4, <1>5, <2>1, <2>2 DEF Agree
  <2> QED BY <1>1, <1>4, <1>5, <2>1, <2>3 DEF Agree
<1> QED BY <1>4, <1>5, <1>6

\* A leader's log holds what nodes of terms up to its own have committed.
LEMMA SafeLedgerComplete ==
  ASSUME TypeInv, SafeLedger
  PROVE  LeaderCompleteness
<1> SUFFICES ASSUME ~ stale_ack, NEW i \in Node, NEW j \in Node,
                    role[j] = "Leader", current_term[j] >= current_term[i]
             PROVE  Holds(log[i], log[j], commit_index[i])
  BY DEF LeaderCompleteness
<1>1. PICK L \in Ledger : LedgerInv(L) /\ CommitInv(L)
  BY DEF SafeLedger
<1>2. /\ TypeOK /\ log[i] \in Seq(LogEntry) /\ log[j] \in Seq(LogEntry)
      /\ commit_index[i] \in Nat
      /\ current_term[i] \in Nat /\ current_term[j] \in Nat
  BY DEF TypeInv, TypeOK
<1>3. Agree(log[i], log[j], commit_index[i])
  <2>1. CASE commit_index[i] = 0
    BY <1>2, <2>1 DEF Agree
  <2>2. CASE commit_index[i] > 0
    <3>1. PICK u \in Nat :
            /\ u <= current_term[i]
            /\ \A w \in Nat : u <= w /\ Led(L, w)
                 => Agree(log[i], L[w], commit_index[i])
      BY <1>1, <1>2, <2>2, CommittedHold
    <3>2. Led(L, current_term[j]) /\ log[j] = L[current_term[j]]
      BY <1>1 DEF Led, LedgerInv, LeadersOnLedger
    <3> QED BY <1>2, <3>1, <3>2
  <2> QED BY <1>2, <2>1, <2>2
<1> QED BY <1>2, <1>3, AgreeIsHolds

(***************************************************************************)
(* Leader completeness, for every cluster of two nodes or more whose saves *)
(* succeed: candidate_log_up_to_date and the rule that a leader counts     *)
(* only entries of its own term let no committed entry be missing from a   *)
(* later leader.                                                           *)
(***************************************************************************)
THEOREM LeadersComplete ==
  ASSUME SavesSucceed, \A i \in Node : Peers(i) # {}
  PROVE  Spec => []LeaderCompleteness
<1>1. TypeInv /\ SafeLedger => LeaderCompleteness
  BY SafeLedgerComplete
<1> QED BY <1>1, TypeCorrect, SafetyInvariant, PTL

\* Quorums are of one size, and the whole cluster is one.
LEMMA QuorumSize ==
  ASSUME NEW i \in Node, NEW j \in Node
  PROVE  /\ Quorum(i) = Quorum(j) /\ Quorum(i) \in Nat
         /\ Quorum(i) <= Cardinality(Node)
<1>1. Cardinality(Node) \in Nat /\ Cardinality(Node) > 0
  BY NodeAssumption, FS_CardinalityType, FS_EmptySet
<1>2. /\ Cardinality(Peers(i)) = Cardinality(Node) - 1
      /\ Cardinality(Peers(j)) = Cardinality(Node) - 1
  BY NodeAssumption, FS_RemoveElement DEF Peers
<1>3. \A n \in Nat : n > 0 => quorum(n - 1) \in Nat /\ quorum(n - 1) <= n
  BY DEF quorum
<1> QED BY <1>1, <1>2, <1>3 DEF Quorum

\* What a node has committed is in the storage of a quorum.
LEMMA SafeLedgerStored ==
  ASSUME TypeInv, SafeLedger
  PROVE  CommittedOnQuorum
<1> SUFFICES ASSUME ~ stale_ack, NEW i \in Node
             PROVE  Cardinality({j \in Node :
                        Holds(log[i], disk[j].log, commit_index[i])})
                      >= Quorum(i)
  BY DEF CommittedOnQuorum
<1>1. PICK L \in Ledger : LedgerInv(L) /\ CommitInv(L)
  BY DEF SafeLedger
<1>2. /\ TypeOK /\ commit_index[i] \in Nat /\ DOMAIN L = Nat
      /\ \A v \in Node : /\ log[v] \in Seq(LogEntry) /\ disk[v].log = log[v]
                         /\ OnLedger(L, log[v])
  BY <1>1 DEF TypeInv, TypeOK, Ledger, LedgerInv, LogsOnLedger
<1>3. \E Q \in SUBSET Node :
        /\ \E j \in Node : Cardinality(Q) >= Quorum(j)
        /\ \A v \in Q : Agree(log[i], log[v], commit_index[i])
  <2>1. CASE commit_index[i] = 0
    <3>1. \A v \in Node : Agree(log[i], log[v], commit_index[i])
      BY <1>2, <2>1 DEF Agree
    <3>2. Cardinality(Node) >= Quorum(i) /\ Node \in SUBSET Node
      BY QuorumSize
    <3> QED BY <3>1, <3>2
  <2>2. CASE commit_index[i] > 0
    <3>1. PICK u \in Nat : \E k \in DOMAIN L[u] :
            /\ commit_index[i] <= k /\ k \in Nat /\ Chosen(L, k, u)
            /\ Agree(log[i], L[u], commit_index[i])
      BY <1>1, <1>2, <2>2, CommittedHold
    <3>2. PICK k \in DOMAIN L[u] :
            /\ commit_index[i] <= k /\ k \in Nat /\ Chosen(L, k, u)
            /\ Agree(log[i], L[u], commit_index[i])
      BY <3>1
    <3>3. PICK Q \in SUBSET Node :
            /\ \E j \in Node : Cardinality(Q) >= Quorum(j)
            /\ \A v \in Q : Holder(L, v, k, u)
      BY <3>2 DEF Chosen
    <3>4. ASSUME NEW v \in Q
          PROVE  Agree(log[i], log[v], commit_index[i])
      <4>1. Has(log[v], k, u)
        BY <1>1, <1>2, <3>2, <3>3, ChosenNotBlocked
           DEF CommitInv, HoldersHold
      <4>2. Agree(log[v], L[u], k) /\ L[u] \in Seq(LogEntry)
        BY <1>2, <4>1, HasAgrees DEF Ledger
      <4>3. Agree(L[u], log[v], k)
        BY <4>2, AgreeSym
      <4> QED BY <1>2, <3>2, <4>2, <4>3, AgreeTrans
    <3> QED BY <3>3, <3>4
  <2> QED BY <1>2, <2>1, <2>2
<1>4. PICK Q \in SUBSET Node :
        /\ \E j \in Node : Cardinality(Q) >= Quorum(j)
        /\ \A v \in Q : Agree(log[i], log[v], commit_index[i])
  BY <1>3
<1> DEFINE S == {j \in Node : Holds(log[i], disk[j].log, commit_index[i])}
<1>5. Q \in SUBSET S /\ S \in SUBSET Node
  BY <1>2, <1>4, AgreeIsHolds
<1> HIDE DEF S
<1>6. IsFiniteSet(S) /\ Cardinality(S) \in Nat
  BY <1>5, NodeAssumption, FS_Subset, FS_CardinalityType
<1>7. Cardinality(Q) <= Cardinality(S) /\ Cardinality(Q) \in Nat
  BY <1>5, <1>6, FS_Subset, FS_CardinalityType
<1>8. Cardinality(Q) >= Quorum(i) /\ Quorum(i) \in Nat
  BY <1>4, QuorumSize
<1>9. Cardinality(S) >= Quorum(i)
  BY <1>6, <1>7, <1>8
<1> QED BY <1>9 DEF S

(***************************************************************************)
(* What a node has committed is in the storage of a quorum and stays       *)
(* there, whatever crashes and whatever leader comes next.                 *)
(***************************************************************************)
THEOREM CommitsAreStored ==
  ASSUME SavesSucceed, \A i \in Node : Peers(i) # {}
  PROVE  Spec => []CommittedOnQuorum
<1>1. TypeInv /\ SafeLedger => CommittedOnQuorum
  BY SafeLedgerStored
<1> QED BY <1>1, TypeCorrect, SafetyInvariant, PTL

\* Two nodes have committed the same entries.
LEMMA CommitsAgree ==
  ASSUME TypeOK, NEW L \in Ledger, LedgerInv(L), CommitInv(L),
         NEW i \in Node, NEW j \in Node,
         NEW k \in 1 .. commit_index[i], k <= commit_index[j]
  PROVE  log[i][k] = log[j][k]
<1>1. /\ commit_index[i] \in Nat /\ commit_index[j] \in Nat
      /\ commit_index[i] > 0 /\ commit_index[j] > 0
  <2>1. commit_index[i] \in Nat /\ commit_index[j] \in Nat
    BY DEF TypeOK
  <2> QED BY <2>1
<1>2. PICK u \in Nat :
        /\ L[u] # << >> /\ Agree(log[i], L[u], commit_index[i])
        /\ \A w \in Nat : u <= w /\ Led(L, w)
             => Agree(log[i], L[w], commit_index[i])
  BY <1>1, CommittedHold
<1>3. PICK v \in Nat :
        /\ L[v] # << >> /\ Agree(log[j], L[v], commit_index[j])
        /\ \A w \in Nat : v <= w /\ Led(L, w)
             => Agree(log[j], L[w], commit_index[j])
  BY <1>1, CommittedHold
<1>4. CASE u <= v
  <2>1. Agree(log[i], L[v], commit_index[i])
    BY <1>2, <1>3, <1>4 DEF Led
  <2> QED BY <1>1, <1>3, <2>1 DEF Agree
<1>5. CASE v <= u
  <2>1. Agree(log[j], L[u], commit_index[j])
    BY <1>2, <1>3, <1>5 DEF Led
  <2> QED BY <1>1, <1>2, <2>1 DEF Agree
<1> QED BY <1>4, <1>5

\* State machines were fed the committed commands, the same everywhere.
LEMMA SafeLedgerApplied ==
  ASSUME TypeInv, SafeLedger
  PROVE  StateMachineSafety
<1> SUFFICES ASSUME ~ stale_ack
             PROVE  StateMachineSafety
  BY DEF StateMachineSafety
<1>1. PICK L \in Ledger : LedgerInv(L) /\ CommitInv(L)
  BY DEF SafeLedger
<1>2. TypeOK /\ AppliedFromLog
  BY <1>1 DEF TypeInv, CommitInv
<1>3. ASSUME NEW i \in Node
      PROVE  /\ Len(applied[i]) = commit_index[i]
             /\ commit_index[i] <= Len(log[i])
             /\ DOMAIN applied[i] = 1 .. commit_index[i]
             /\ \A k \in 1 .. commit_index[i] :
                  applied[i][k] = log[i][k].command
  <2>1. applied[i] \in Seq(Command)
    BY <1>2 DEF TypeOK
  <2> QED BY <1>2, <2>1 DEF AppliedFromLog
<1>4. ASSUME NEW i \in Node, NEW j \in Node,
             NEW k \in DOMAIN applied[i] \cap DOMAIN applied[j]
      PROVE  applied[i][k] = applied[j][k]
  <2>1. /\ k \in 1 .. commit_index[i] /\ k \in 1 .. commit_index[j]
        /\ commit_index[j] \in Nat
    BY <1>2, <1>3 DEF TypeOK
  <2>2. log[i][k] = log[j][k]
    BY <1>1, <1>2, <2>1, CommitsAgree
  <2> QED BY <1>3, <2>1, <2>2
<1> QED BY <1>3, <1>4 DEF StateMachineSafety

(***************************************************************************)
(* State machine safety: every state machine was fed exactly the committed *)
(* prefix of its node's log, and no two of them differ where both have     *)
(* been fed.                                                               *)
(***************************************************************************)
THEOREM StateMachinesAgree ==
  ASSUME SavesSucceed, \A i \in Node : Peers(i) # {}
  PROVE  Spec => []StateMachineSafety
<1>1. TypeInv /\ SafeLedger => StateMachineSafety
  BY SafeLedgerApplied
<1> QED BY <1>1, TypeCorrect, SafetyInvariant, PTL

(***************************************************************************)
(* A running node's commit index never moves back: an accepted message     *)
(* whose leader_commit is new reaches at least as far as leader_commit.    *)
(***************************************************************************)
THEOREM CommitsOnlyGrow ==
  ASSUME SavesSucceed, \A i \in Node : Peers(i) # {}
  PROVE  Spec => CommitNeverRegresses
<1> DEFINE Kept(i) == ~ stale_ack' /\ commit_index'[i] < commit_index[i]
                      => Restart(i)
<1>1. /\ TypeInv /\ TypeInv' /\ ElectionInv /\ ElectionInv'
      /\ SafeLedger /\ [Next]_vars
      => [\A i \in Node : Kept(i)]_vars
  <2> SUFFICES ASSUME TypeInv, TypeInv', ElectionInv, ElectionInv', SafeLedger,
                      Next, ~ (UNCHANGED vars), NEW i \in Node, ~ stale_ack',
                      ~ Restart(i)
               PROVE  ~ (commit_index'[i] < commit_index[i])
    OBVIOUS
  <2>1. PICK L \in Ledger : LedgerInv(L) /\ (stale_ack \/ CommitInv(L))
    BY DEF SafeLedger
  <2>2. /\ \A j \in Node : disk[j].log = log[j]
        /\ TypeOK /\ commit_index[i] \in Nat /\ commit_index'[i] \in Nat
    BY <2>1 DEF TypeInv, TypeOK, LedgerInv, LogsOnLedger
  <2>3. ASSUME NEW j \in Node, CommitStep(j)
        PROVE  commit_index'[i] >= commit_index[i]
    <3>1. CASE i # j
      BY <2>2, <2>3, <3>1 DEF CommitStep, OthersKeepVolatile, VolatileKept
    <3>2. CASE i = j
      <4>1. PICK M : M = LedgerAfter(L, i)
        OBVIOUS
      <4>2. LogStep(i) /\ CommitInv(L)
        BY <2>1, <2>3, <3>2 DEF CommitStep
      <4>3. M \in Ledger /\ LedgerInv(M)'
        BY <2>1, <4>1, <4>2, LogStepKeepsLedgerInv
      <4>4. Turn(L, M, i)
        BY <2>1, <2>3, <3>2, <4>1, <4>2, <4>3 DEF Turn
      <4> QED BY <4>4, TurnCommits
    <3> QED BY <3>1, <3>2
  <2>4. ASSUME NEW j \in Node, Restart(j)
        PROVE  commit_index'[i] = commit_index[i]
    BY <2>2, <2>4 DEF Restart, TypeOK
  <2>5. \E j \in Node : CommitStep(j) \/ Restart(j)
    BY <2>2, NextIsCommitStep
  <2> QED BY <2>2, <2>3, <2>4, <2>5
<1> QED BY <1>1, TypeCorrect, ElectionInvariant, SafetyInvariant, PTL
        DEF Spec, CommitNeverRegresses
=============================================================================
