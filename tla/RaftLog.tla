------------------------------- MODULE RaftLog -------------------------------
(***************************************************************************)
(* The pure part of raft-core: what the handlers compute from a log, a     *)
(* message and a vector of match indices.  The code walks Vec<LogEntry>    *)
(* with iterators and loops; here every such walk is a definition without  *)
(* recursion.  MCRaftLog compares each of them with the loop it stands     *)
(* for, and RaftLoopProofs proves that they are equal.                     *)
(*                                                                         *)
(* A definition named <operator>_<fault> is a seeded fault: a variant of   *)
(* the operator it precedes with a mistake that code could have.  Only the *)
(* mutation runs use them.                                                 *)
(*                                                                         *)
(* An entry is a record [term, index, command].  As in the code, an entry  *)
(* carries its own index and lookups search for that field; nothing here   *)
(* takes for granted that an entry's index is its position.                *)
(***************************************************************************)
EXTENDS Integers, Sequences, FiniteSets

LogEntryOf(Command) == [term : Nat, index : Nat, command : Command]

\* The entries of l carry the indices from + 1, from + 2, ...
Contiguous(l, from) == \A k \in DOMAIN l : l[k].index = from + k

----------------------------------------------------------------------------
(* Looking things up in a log                                              *)

last_log_index(l) == IF l = << >> THEN 0 ELSE l[Len(l)].index

last_log_term(l) == IF l = << >> THEN 0 ELSE l[Len(l)].term

\* Does the log hold an entry with this index?
HasIndex(l, index) == \E k \in DOMAIN l : l[k].index = index

\* Position of the first entry with this index (iter().position / find).
Position(l, index) ==
  CHOOSE k \in DOMAIN l :
    /\ l[k].index = index
    /\ \A j \in DOMAIN l : j < k => l[j].index # index

log_matches_AnyTerm(l, index, term) == index = 0 \/ HasIndex(l, index)

\* The receiver's consistency check on (prev_log_index, prev_log_term).
log_matches(l, index, term) ==
  \/ index = 0
  \/ \E k \in DOMAIN l : l[k].index = index /\ l[k].term = term

\* The term a leader puts into prev_log_term: 0 when the entry is missing.
PrevLogTerm(l, next) ==
  IF next > 1 /\ HasIndex(l, next - 1)
  THEN l[Position(l, next - 1)].term
  ELSE 0

\* prev_log_info: the pair (prev_log_index, prev_log_term).
PrevLogIndex(next) == IF next <= 1 THEN 0 ELSE next - 1

EntriesFrom_Strict(l, next) == SelectSeq(l, LAMBDA e : e.index > next)

\* The entries a leader sends to a peer whose next index is `next': the log
\* from the first entry whose index is at least `next'.
EntriesFrom(l, next) ==
  LET reached == {k \in DOMAIN l : l[k].index >= next}
  IN  IF reached = {}
      THEN << >>
      ELSE SubSeq(l, CHOOSE k \in reached : \A j \in reached : k <= j, Len(l))

----------------------------------------------------------------------------
(* Reconciling an AppendEntries with the receiver's log                    *)

\* entries[i] is where the code's loop stops: it is not in the log, or the
\* log holds an entry of another term at its index.
StopsAt(l, entries, i) ==
  \/ ~ HasIndex(l, entries[i].index)
  \/ l[Position(l, entries[i].index)].term # entries[i].term

Reconcile_Truncates(l, entries) ==
  IF entries = << >>
  THEN l
  ELSE SelectSeq(l, LAMBDA e : e.index < entries[1].index) \o entries

\* Skip what is already present; at the first entry that is missing or
\* conflicts, cut the log there and append the rest of the message.
Reconcile(l, entries) ==
  LET stops == {i \in DOMAIN entries : StopsAt(l, entries, i)}
      first == CHOOSE i \in stops : \A j \in stops : i <= j
      index == entries[first].index
      kept  == IF HasIndex(l, index)
               THEN SubSeq(l, 1, Position(l, index) - 1)
               ELSE l
  IN  IF stops = {}
      THEN l
      ELSE kept \o SubSeq(entries, first, Len(entries))

\* last_new_index: the index of the message's last entry, else prev_log_index.
LastNewIndex(prev, entries) ==
  IF entries = << >> THEN prev ELSE entries[Len(entries)].index

FollowerCommit_Unguarded(commit, leaderCommit, lastNew) ==
  IF leaderCommit <= lastNew THEN leaderCommit ELSE lastNew

\* The follower's commit index after a message carrying leader_commit.
FollowerCommit(commit, leaderCommit, lastNew) ==
  IF leaderCommit <= commit
  THEN commit
  ELSE IF leaderCommit <= lastNew THEN leaderCommit ELSE lastNew

----------------------------------------------------------------------------
(* Votes, quorums and the leader's commit rule                             *)

\* peers.len().div_ceil(2) + 1, where peers excludes the node itself.
quorum(peerCount) == (peerCount + 1) \div 2 + 1

candidate_log_up_to_date_Unchecked(l, lastTerm, lastIndex) == TRUE

candidate_log_up_to_date_IndexOnly(l, lastTerm, lastIndex) ==
  lastIndex >= last_log_index(l)

\* candidate_log_up_to_date: the voter's log is l.
candidate_log_up_to_date(l, lastTerm, lastIndex) ==
  \/ lastTerm > last_log_term(l)
  \/ lastTerm = last_log_term(l) /\ lastIndex >= last_log_index(l)

Replicated_OffByOne(match, peers, index) ==
  1 + Cardinality({p \in peers : match[p] + 1 >= index})

\* How many nodes hold `index': the leader itself plus the peers whose match
\* index reaches it.
Replicated(match, peers, index) ==
  1 + Cardinality({p \in peers : match[p] >= index})

Committable_AnyTerm(l, term, commit, match, peers) ==
  {k \in DOMAIN l :
     /\ l[k].index > commit
     /\ Replicated(match, peers, l[k].index) >= quorum(Cardinality(peers))}

\* The positions try_advance_commit_index may commit up to.
Committable(l, term, commit, match, peers) ==
  {k \in DOMAIN l :
     /\ l[k].index > commit
     /\ l[k].term = term
     /\ Replicated(match, peers, l[k].index) >= quorum(Cardinality(peers))}

\* try_advance_commit_index, the part that finds the new commit index.
LeaderCommit(l, term, commit, match, peers) ==
  LET ks == Committable(l, term, commit, match, peers)
  IN  IF ks = {} THEN commit ELSE l[CHOOSE k \in ks : \A j \in ks : j <= k].index

CommandsToApply_FromStart(l, applied, commit) ==
  LET top == IF commit <= last_log_index(l) THEN commit ELSE last_log_index(l)
  IN  [k \in 1 .. (top - applied) |-> l[Position(l, k)].command]

\* apply_committed_entries: the commands handed to the state machine for the
\* indices in (applied, commit], in order.  Indices past the end of the log
\* are skipped.
CommandsToApply(l, applied, commit) ==
  LET top == IF commit <= last_log_index(l) THEN commit ELSE last_log_index(l)
  IN  [k \in 1 .. (top - applied) |-> l[Position(l, applied + k)].command]
=============================================================================
