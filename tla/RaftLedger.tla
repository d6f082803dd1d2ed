----------------------------- MODULE RaftLedger -----------------------------
(***************************************************************************)
(* Why the replicated log is safe, as an invariant over a ledger: L[t] is  *)
(* the log of the leader of term t as far as it ever got, << >> as long as *)
(* the term has none.  No node keeps a ledger; it is the history that the  *)
(* proofs of log replication reason about, and every definition takes it   *)
(* as a parameter.                                                         *)
(***************************************************************************)
EXTENDS Raft

\* The first n entries of two logs are the same.
Agree(l, r, n) == n <= Len(l) /\ n <= Len(r) /\ \A k \in 1 .. n : l[k] = r[k]

\* Every entry of l stands, with all that comes before it, in the log of the
\* leader that created it.
OnLedger(L, l) == \A k \in DOMAIN l : Agree(l, L[l[k].term], k)

TermsUpTo(l, t) == \A k \in DOMAIN l : l[k].term \in 1 .. t

\* The ledger after a turn of i that leaves it in a state of the next one:
\* a leader's log is the log of its term.
LedgerAfter(L, i) ==
  IF role'[i] = "Leader" THEN [L EXCEPT ![current_term'[i]] = log'[i]] ELSE L

----------------------------------------------------------------------------
(* What holds of logs and messages whatever replies were acknowledged.     *)

LedgerWellFormed(L) ==
  \A t \in DOMAIN L :
    Contiguous(L[t], 0) /\ TermsUpTo(L[t], t) /\ OnLedger(L, L[t])

LogsOnLedger(L) ==
  \A i \in Node : /\ disk[i].log = log[i]
                  /\ TermsUpTo(log[i], disk[i].current_term)
                  /\ OnLedger(L, log[i])

\* A candidate or leader has its term in storage.
ActiveStored ==
  \A i \in Node : role[i] # "Follower" =>
    disk[i].current_term = current_term[i] /\ current_term[i] >= 1

LeadersOnLedger(L) ==
  \A i \in Node : role[i] = "Leader" => log[i] = L[current_term[i]]

\* next_index had run past the leader's log: no receiver has such an entry.
PastTheEnd(m) ==
  m.prev_log_index > 0 /\ m.prev_log_term = 0 /\ m.entries = << >>

\* The message is a piece of the log l.
PieceOf(m, l) ==
  /\ m.prev_log_index + Len(m.entries) <= Len(l)
  /\ \A k \in DOMAIN m.entries : m.entries[k] = l[m.prev_log_index + k]
  /\ m.prev_log_index > 0 => m.prev_log_term = l[m.prev_log_index].term

AppendsOnLedger(L) ==
  \A m \in Appends : m.from # m.to /\ (PastTheEnd(m) \/ PieceOf(m, L[m.term]))

\* Who created the entries of a term was elected, and will not stand in that
\* term again.
LedgerElected(L) ==
  \A t \in DOMAIN L : L[t] # << >> =>
    \E c \in Node :
      /\ Elected(c, t)
      /\ disk[c].current_term >= t
      /\ current_term[c] = t => role[c] # "Candidate"

LedgerInv(L) ==
  /\ LedgerWellFormed(L)
  /\ LogsOnLedger(L)
  /\ ActiveStored
  /\ LeadersOnLedger(L)
  /\ AppendsOnLedger(L)
  /\ LedgerElected(L)

----------------------------------------------------------------------------
(* What holds as long as no reply acknowledged a foreign suffix.           *)

\* The entry n of term t.
Has(l, n, t) == n \in DOMAIN l /\ l[n].term = t

Acks == {m \in messages : m.type = "AppendEntriesResponse" /\ m.success}

Acked(v, n, t) == \E m \in Acks : m.from = v /\ m.term = t /\ m.match_index >= n

\* v took part in replicating entry n of term t: as the leader that created
\* it, or by acknowledging it.
Holder(L, v, n, t) == Has(L[t], n, t) /\ (Elected(v, t) \/ Acked(v, n, t))

\* A quorum of nodes that has left term t without taking part: the entry can
\* never be committed by its own leader.
Blocked(L, n, t) ==
  \E Q \in SUBSET Node :
    /\ \E i \in Node : Cardinality(Q) >= Quorum(i)
    /\ \A v \in Q : disk[v].current_term > t /\ ~ Holder(L, v, n, t)

\* A quorum took part: the leader of t may commit the entry.
Chosen(L, n, t) ==
  \E Q \in SUBSET Node :
    /\ \E i \in Node : Cardinality(Q) >= Quorum(i)
    /\ \A v \in Q : Holder(L, v, n, t)

\* The first n entries of l are committed by a leader of a term up to t.
CommittedBy(L, l, n, t) ==
  \/ n = 0
  \/ \E u \in DOMAIN L : \E k \in DOMAIN L[u] :
       u <= t /\ n <= k /\ Chosen(L, k, u) /\ Agree(l, L[u], n)

\* An acknowledgement reaches no further than the leader's log, and its
\* sender's term is in storage.
AcksOnLedger(L) ==
  \A m \in Acks :
    m.match_index <= Len(L[m.term]) /\ disk[m.from].current_term >= m.term

HoldersHold(L) ==
  \A v \in Node, t \in DOMAIN L : \A n \in DOMAIN L[t] :
    Holder(L, v, n, t) => Has(log[v], n, t) \/ Blocked(L, n, t)

\* A term has or had a leader.
Led(L, t) ==
  L[t] # << >> \/ \E i \in Node : role[i] = "Leader" /\ current_term[i] = t

LedgerComplete(L) ==
  \A t, u \in DOMAIN L : \A n \in DOMAIN L[t] :
    t < u /\ Led(L, u) /\ Has(L[t], n, t)
    => Has(L[u], n, t) \/ Blocked(L, n, t)

\* Votes answer requests, and a candidate's requests describe its log.
RequestsDescribeLog ==
  /\ \A v, c \in Node : \A m \in CastBy(v, c) : Cast(c, c, m.term)
  /\ \A m \in messages :
       /\ m.type = "RequestVote"
       /\ role[m.from] = "Candidate"
       /\ current_term[m.from] = m.term
       => /\ m.last_log_index = last_log_index(log[m.from])
          /\ m.last_log_term = last_log_term(log[m.from])

VotesAreSafe(L) ==
  \A c, v \in Node :
    role[c] = "Candidate" /\ Cast(v, c, current_term[c]) =>
      \A t \in DOMAIN L : \A n \in DOMAIN L[t] :
        t < current_term[c] /\ Holder(L, v, n, t)
        => Has(log[c], n, t) \/ Blocked(L, n, t)

MatchAcked ==
  \A i \in Node : role[i] = "Leader" =>
    \A p \in Peers(i) :
      match_index[i][p] = 0 \/ Acked(p, match_index[i][p], current_term[i])

CommitsChosen(L) ==
  /\ \A i \in Node :
       CommittedBy(L, log[i], commit_index[i], current_term[i])
  /\ \A m \in Appends :
       \/ PastTheEnd(m)
       \/ /\ m.leader_commit <= m.prev_log_index + Len(m.entries)
          /\ CommittedBy(L, L[m.term], m.leader_commit, m.term)

AppliedFromLog ==
  \A i \in Node :
    /\ last_applied[i] = commit_index[i]
    /\ Len(applied[i]) = commit_index[i]
    /\ commit_index[i] <= Len(log[i])
    /\ \A k \in 1 .. commit_index[i] : applied[i][k] = log[i][k].command

CommitInv(L) ==
  /\ AcksOnLedger(L)
  /\ HoldersHold(L)
  /\ LedgerComplete(L)
  /\ RequestsDescribeLog
  /\ VotesAreSafe(L)
  /\ MatchAcked
  /\ CommitsChosen(L)
  /\ AppliedFromLog
=============================================================================
